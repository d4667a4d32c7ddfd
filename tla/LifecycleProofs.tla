--------------------------- MODULE LifecycleProofs ---------------------------
(***************************************************************************)
(* For any set of roles, operations, environments and command lines.       *)
(***************************************************************************)
EXTENDS ApplicationLifecycle, TLAPS

(***************************************************************************)
(* Each method of the roles service keeps its variables in their sets.     *)
(***************************************************************************)
LEMMA RolesKeepTypes ==
  ASSUME RolesTypeOK
  PROVE  /\ \A rs \in SUBSET Roles : RegisterRoles(rs) => RolesTypeOK'
         /\ \A cfg : cfg.mode \in Modes /\ cfg = [mode |-> cfg.mode, roles |-> cfg.roles]
                         /\ Configure(cfg) => RolesTypeOK'
         /\ \A o \in Ops : StartAll(o) \/ StopAll(o) \/ RestartAll(o) => RolesTypeOK'
         /\ RolesProgress => RolesTypeOK'
         /\ UNCHANGED rolesVars => RolesTypeOK'
<1> USE RolesAssumption DEF RolesTypeOK
<1>1. ASSUME NEW rs \in SUBSET Roles, RegisterRoles(rs) PROVE RolesTypeOK'
  BY <1>1 DEF RegisterRoles
<1>2. ASSUME NEW cfg, cfg.mode \in Modes, cfg = [mode |-> cfg.mode, roles |-> cfg.roles],
             Configure(cfg)
      PROVE  RolesTypeOK'
  <2>1. cfg.roles \in SUBSET Names
    BY <1>2 DEF Configure, Accepts, Names
  <2>2. cfg \in Configurations
    BY <1>2, <2>1 DEF Configurations
  <2>. QED  BY <1>2, <2>2 DEF Configure
<1>3. ASSUME NEW o \in Ops PROVE StartCalls(o) \subseteq Calls /\ StopCalls(o) \subseteq Calls
  BY <1>3 DEF StartCalls, StopCalls, Calls, Effective
<1>4. ASSUME NEW o \in Ops, StartAll(o) \/ StopAll(o) \/ RestartAll(o) PROVE RolesTypeOK'
  BY <1>3, <1>4 DEF StartAll, StopAll, RestartAll, Stages
<1>5. ASSUME RolesProgress PROVE RolesTypeOK'
  <2>1. ASSUME NEW i \in inflight, NEW ok \in BOOLEAN, RoleSettles(i, ok) PROVE RolesTypeOK'
    <3>1. i.by \in Ops /\ i.role \in Roles
      BY DEF Calls
    <3>2. live' \in [Roles -> Nat]
      BY <2>1, <3>1 DEF RoleSettles
    <3>. QED  BY <2>1, <3>1, <3>2 DEF RoleSettles, Stages
  <2>2. ASSUME NEW o \in Ops, AllSettled(o) PROVE RolesTypeOK'
    BY <2>2 DEF AllSettled, Stages
  <2>3. ASSUME NEW o \in Ops, RestartWakes(o) PROVE RolesTypeOK'
    BY <1>3, <2>3 DEF RestartWakes, Stages
  <2>. QED  BY <1>5, <2>1, <2>2, <2>3 DEF RolesProgress
<1>6. ASSUME UNCHANGED rolesVars PROVE RolesTypeOK'
  BY <1>6 DEF rolesVars
<1>. QED  BY <1>1, <1>2, <1>4, <1>5, <1>6

(***************************************************************************)
(* Type correctness of the whole lifecycle.                                *)
(***************************************************************************)
THEOREM LifecycleTypes == Spec => []TypeOK
<1>1. Init => TypeOK
  BY DEF Init, RolesInit, TypeOK, RolesTypeOK, Configurations, Modes, Names, Phases, Stages
<1>2. TypeOK /\ [Next]_vars => TypeOK'
  <2> SUFFICES ASSUME TypeOK, [Next]_vars
               PROVE  TypeOK'
    OBVIOUS
  <2> USE DEF TypeOK
  <2>1. ASSUME NEW e \in Events, Fires(e) PROVE fired' \in Seq(Events)
    BY <2>1 DEF Fires
  <2>2. CASE InitModules \/ InitThrows
    BY <2>1, <2>2, RolesKeepTypes DEF InitModules, InitThrows, Phases, Events
  <2>3. CASE ConfigureFromEnv
    <3>1. env.mode \in Modes /\ env = [mode |-> env.mode, roles |-> env.roles]
      BY ChoicesAssumption DEF Configurations
    <3>. QED  BY <2>3, <3>1, RolesKeepTypes DEF ConfigureFromEnv, Phases
  <2>4. CASE ConfigureFromCommandLine
    <3>1. /\ CommandLineConfig.mode \in Modes
          /\ CommandLineConfig = [mode |-> CommandLineConfig.mode,
                                  roles |-> CommandLineConfig.roles]
      BY DEF CommandLineConfig, Modes
    <3>. QED  BY <2>4, <3>1, RolesKeepTypes DEF ConfigureFromCommandLine, Phases
  <2>5. CASE \E o \in Ops : Autostart(o)
    BY <2>1, <2>5, RolesKeepTypes DEF Autostart, StartRuntime, bootVars, Phases, Events
  <2>6. CASE SkipAutostart \/ StartThrows \/ AfterStart \/ AfterStartThrows
    BY <2>1, <2>6, RolesKeepTypes
       DEF SkipAutostart, StartThrows, AfterStart, AfterStartThrows, bootVars, Phases, Events
  <2>7. ASSUME NEW o \in Ops, Start(o) \/ Stop(o) \/ Restart(o) \/ Shutdown(o) PROVE TypeOK'
    BY <2>1, <2>7, RolesKeepTypes
       DEF Start, Stop, Restart, Shutdown, StartRuntime, StopRuntime, bootVars, Phases, Events
  <2>8. ASSUME NEW cfg \in EnvChoices, Reconfigure(cfg) PROVE TypeOK'
    <3>1. cfg.mode \in Modes /\ cfg = [mode |-> cfg.mode, roles |-> cfg.roles]
      BY ChoicesAssumption DEF Configurations
    <3>. QED  BY <2>8, <3>1, RolesKeepTypes DEF Reconfigure, bootVars
  <2>9. CASE Exit \/ Background
    BY <2>9, RolesKeepTypes DEF Exit, Background, bootVars, Phases
  <2>10. CASE UNCHANGED vars
    BY <2>10, RolesKeepTypes DEF vars, rolesVars
  <2>. QED
    BY <2>2, <2>3, <2>4, <2>5, <2>6, <2>7, <2>8, <2>9, <2>10 DEF Next, Boot
<1>. QED  BY <1>1, <1>2, PTL DEF Spec

-----------------------------------------------------------------------------
(***************************************************************************)
(* The configuration in force names only registered roles: configure()     *)
(* looks every name up, and a role is never unregistered.                  *)
(***************************************************************************)
THEOREM ConfigKnownHolds == Spec => []ConfigKnown
<1>1. Init => ConfigKnown
  BY DEF Init, RolesInit, ConfigKnown
<1>2. ConfigKnown /\ [Next]_vars => ConfigKnown'
  <2> SUFFICES ASSUME ConfigKnown, [Next]_vars
               PROVE  ConfigKnown'
    OBVIOUS
  <2> USE DEF ConfigKnown
  <2>1. ASSUME NEW rs, RegisterRoles(rs) PROVE ConfigKnown'
    BY <2>1 DEF RegisterRoles
  <2>2. ASSUME NEW cfg, Configure(cfg) PROVE ConfigKnown'
    BY <2>2 DEF Configure, Accepts
  <2>3. ASSUME UNCHANGED <<registered, config>> PROVE ConfigKnown'
    BY <2>3
  <2>4. CASE Boot
    BY <2>1, <2>2, <2>3, <2>4
       DEF Boot, InitModules, InitThrows, ConfigureFromEnv, ConfigureFromCommandLine, Autostart,
           SkipAutostart, StartThrows, AfterStart, AfterStartThrows, StartRuntime, StartAll,
           rolesVars
  <2>5. ASSUME NEW o \in Ops, Start(o) \/ Stop(o) \/ Restart(o) \/ Shutdown(o)
        PROVE  ConfigKnown'
    BY <2>3, <2>5 DEF Start, Stop, Restart, Shutdown, StartRuntime, StopRuntime,
                      StartAll, StopAll, RestartAll
  <2>6. ASSUME NEW cfg \in EnvChoices, Reconfigure(cfg) PROVE ConfigKnown'
    BY <2>2, <2>6 DEF Reconfigure
  <2>7. CASE Background
    BY <2>3, <2>7 DEF Background, RolesProgress, RoleSettles, AllSettled, RestartWakes
  <2>8. CASE Exit \/ UNCHANGED vars
    BY <2>3, <2>8 DEF Exit, vars, rolesVars
  <2>. QED  BY <2>4, <2>5, <2>6, <2>7, <2>8 DEF Next
<1>. QED  BY <1>1, <1>2, PTL DEF Spec

-----------------------------------------------------------------------------
(***************************************************************************)
(* A bootstrap that has not reached start(), or that failed without        *)
(* reaching AfterStart, has an untouched roles service: no operation was   *)
(* begun, so none can start a role later.                                  *)
(***************************************************************************)
NotStarted ==
    phase \in {"loaded", "initialised", "environmentRead", "configured", "selfTested"}
        \/ (phase = "failed" /\ Latest(fired) # "AfterStart")

Untouched == /\ inflight = {}
             /\ \A r \in Roles : live[r] = 0
             /\ \A o \in Ops : op[o].stage = "unused"

UntouchedInv == NotStarted => Untouched

LEMMA UntouchedInvariant == Spec => []UntouchedInv
<1>1. Init => UntouchedInv
  BY DEF Init, RolesInit, UntouchedInv, Untouched
<1>2. TypeOK /\ UntouchedInv /\ [Next]_vars => UntouchedInv'
  <2> SUFFICES ASSUME TypeOK, UntouchedInv, [Next]_vars, NotStarted'
               PROVE  Untouched'
    BY DEF UntouchedInv
  <2>1. ASSUME NotStarted, UNCHANGED <<op, inflight, live>> PROVE Untouched'
    BY <2>1 DEF UntouchedInv, Untouched
  <2>2. CASE InitModules \/ InitThrows
    BY <2>1, <2>2 DEF InitModules, InitThrows, RegisterRoles, NotStarted
  <2>3. CASE ConfigureFromEnv \/ ConfigureFromCommandLine
    BY <2>1, <2>3 DEF ConfigureFromEnv, ConfigureFromCommandLine, Configure, rolesVars, NotStarted
  <2>4. CASE \E o \in Ops : Autostart(o)
    BY <2>4 DEF Autostart, NotStarted
  <2>5. CASE SkipAutostart \/ StartThrows
    BY <2>1, <2>5 DEF SkipAutostart, StartThrows, rolesVars, NotStarted
  <2>6. CASE AfterStart \/ AfterStartThrows
    <3>1. fired' = Append(fired, "AfterStart") /\ fired \in Seq(Events)
      BY <2>6 DEF AfterStart, AfterStartThrows, Fires, TypeOK
    <3>2. Latest(fired') = "AfterStart"
      BY <3>1 DEF Latest, Events
    <3>. QED  BY <2>6, <3>2 DEF AfterStart, AfterStartThrows, NotStarted
  <2>7. ASSUME NEW o \in Ops, Start(o) \/ Stop(o) \/ Restart(o) \/ Shutdown(o)
        PROVE  Untouched'
    BY <2>7 DEF Start, Stop, Restart, Shutdown, bootVars, NotStarted
  <2>8. CASE (\E cfg \in EnvChoices : Reconfigure(cfg)) \/ Exit
    BY <2>8 DEF Reconfigure, Exit, bootVars, NotStarted
  <2>9. CASE Background
    <3>1. NotStarted
      BY <2>9 DEF Background, NotStarted
    <3>2. Untouched
      BY <3>1 DEF UntouchedInv
    <3>. QED
      BY <2>9, <3>2 DEF Background, RolesProgress, RoleSettles, AllSettled, RestartWakes, Untouched
  <2>10. CASE UNCHANGED vars
    BY <2>1, <2>10 DEF vars, NotStarted
  <2>. QED
    BY <2>2, <2>3, <2>4, <2>5, <2>6, <2>7, <2>8, <2>9, <2>10 DEF Next, Boot
<1>. QED  BY <1>1, <1>2, LifecycleTypes, PTL DEF Spec

(***************************************************************************)
(* A failed bootstrap or a self test never starts a role, then or later.   *)
(***************************************************************************)
THEOREM FailedBootStartsNothing == Spec => []NothingRunsAfterFailedBoot
<1>1. UntouchedInv => NothingRunsAfterFailedBoot
  BY DEF UntouchedInv, NotStarted, Untouched, NothingRunsAfterFailedBoot, Started
<1>. QED  BY <1>1, UntouchedInvariant, PTL
=============================================================================
