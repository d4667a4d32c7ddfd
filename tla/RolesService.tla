---------------------------- MODULE RolesService ----------------------------
(***************************************************************************)
(* RolesService of @alterior/runtime: the roles modules have registered,   *)
(* the configuration that says which of them should run, and the           *)
(* asynchronous operations that start and stop them.                       *)
(*                                                                         *)
(* startAll() and stopAll() call the start() or stop() of several roles at *)
(* once and wait for all of them; nothing prevents a second operation from *)
(* being called while the first one waits.                                 *)
(***************************************************************************)
EXTENDS Naturals, FiniteSets

CONSTANTS Roles,        \* the roles the modules of the application declare
          DefaultOff,   \* those registered with enabledByDefault: false
          Unknown,      \* a role name nobody registers
          Ops           \* the invocations of startAll, stopAll and restartAll

ASSUME RolesAssumption == DefaultOff \subseteq Roles /\ Unknown \notin Roles

VARIABLES registered,   \* _roles
          running,      \* the roles whose `running` flag is true
          config,       \* _configuration
          op,           \* progress of each operation
          inflight,     \* calls of role.start() and role.stop() not settled yet
          live          \* how many starts of each role are in effect

rolesVars == <<registered, running, config, op, inflight, live>>

Modes == {"default", "default-except", "all-except", "only"}
Names == Roles \cup {Unknown}
Configurations == [mode : Modes, roles : SUBSET Names]

Stages == {"unused", "stopping", "sleeping", "starting", "resolved", "rejected"}
Calls == [by : Ops, role : Roles, call : {"start", "stop"}]

RolesTypeOK ==
    /\ registered \subseteq Roles
    /\ running \subseteq registered
    /\ config \in Configurations
    /\ op \in [Ops -> [kind : {"none", "start", "stop", "restart"}, stage : Stages]]
    /\ inflight \subseteq Calls
    /\ live \in [Roles -> Nat]

RolesInit ==
    /\ registered = {}
    /\ running = {}
    /\ config = [mode |-> "default", roles |-> {}]
    /\ op = [o \in Ops |-> [kind |-> "none", stage |-> "unused"]]
    /\ inflight = {}
    /\ live = [r \in Roles |-> 0]

\* The getter effectiveRoles, for a set of registered roles and a configuration.
Effective(known, cfg) ==
    {r \in known : \/ cfg.mode = "default" /\ r \notin DefaultOff
                   \/ cfg.mode = "all-except" /\ r \notin cfg.roles
                   \/ cfg.mode = "default-except" /\ r \notin DefaultOff \cup cfg.roles
                   \/ cfg.mode = "only" /\ r \in cfg.roles}

\* registerRole(): the new role is not running.
RegisterRoles(rs) ==
    /\ registered' = registered \cup rs
    /\ running' = running \ rs
    /\ UNCHANGED <<config, op, inflight, live>>

\* configure() throws when a role of the configuration is not registered.
Accepts(cfg) == cfg.roles \subseteq registered

Configure(cfg) ==
    /\ Accepts(cfg)
    /\ config' = cfg
    /\ UNCHANGED <<registered, running, op, inflight, live>>

Busy(o) == \E i \in inflight : i.by = o

\* The calls startAll() and stopAll() make for operation o.
StartCalls(o) == {[by |-> o, role |-> r, call |-> "start"] :
                    r \in Effective(registered, config) \ running}
StopCalls(o) == {[by |-> o, role |-> r, call |-> "stop"] : r \in running}

StartAll(o) ==
    /\ op[o].stage = "unused"
    /\ op' = [op EXCEPT ![o] = [kind |-> "start", stage |-> "starting"]]
    /\ inflight' = inflight \cup StartCalls(o)
    /\ UNCHANGED <<registered, running, config, live>>

StopAll(o) ==
    /\ op[o].stage = "unused"
    /\ op' = [op EXCEPT ![o] = [kind |-> "stop", stage |-> "stopping"]]
    /\ inflight' = inflight \cup StopCalls(o)
    /\ UNCHANGED <<registered, running, config, live>>

RestartAll(o) ==
    /\ op[o].stage = "unused"
    /\ op' = [op EXCEPT ![o] = [kind |-> "restart", stage |-> "stopping"]]
    /\ inflight' = inflight \cup StopCalls(o)
    /\ UNCHANGED <<registered, running, config, live>>

\* A promise returned by a role settles.  Promise.all() rejects with the first
\* rejection; the other calls go on.
RoleSettles(i, ok) ==
    /\ i \in inflight
    /\ inflight' = inflight \ {i}
    /\ op' = IF ok THEN op ELSE [op EXCEPT ![i.by].stage = "rejected"]
    /\ live' = CASE ok /\ i.call = "start" -> [live EXCEPT ![i.role] = @ + 1]
                 [] ok /\ i.call = "stop"  -> [live EXCEPT ![i.role] = 0]
                 [] OTHER                  -> live
    /\ UNCHANGED <<registered, running, config>>

\* Promise.all() resolves: startAll() and stopAll() are over, and restartAll()
\* goes on to its timeout.
AllSettled(o) ==
    /\ op[o].stage \in {"starting", "stopping"} /\ ~Busy(o)
    /\ op' = [op EXCEPT ![o].stage =
                IF op[o].kind = "restart" /\ @ = "stopping" THEN "sleeping" ELSE "resolved"]
    /\ UNCHANGED <<registered, running, config, inflight, live>>

\* Variant: only a restart that stopped something goes on.
RestartWakesIfStopped(o) ==
    /\ op[o].stage = "sleeping" /\ running # {}
    /\ op' = [op EXCEPT ![o].stage = "starting"]
    /\ inflight' = inflight \cup StartCalls(o)
    /\ UNCHANGED <<registered, running, config, live>>

\* timeout(1) of restartAll() elapses and startAll() begins.
RestartWakes(o) ==
    /\ op[o].stage = "sleeping"
    /\ op' = [op EXCEPT ![o].stage = "starting"]
    /\ inflight' = inflight \cup StartCalls(o)
    /\ UNCHANGED <<registered, running, config, live>>

RolesProgress ==
    \/ \E i \in inflight, ok \in BOOLEAN : RoleSettles(i, ok)
    \/ \E o \in Ops : AllSettled(o) \/ RestartWakes(o)

Started(r) == live[r] > 0 \/ \E i \in inflight : i.role = r /\ i.call = "start"
=============================================================================
