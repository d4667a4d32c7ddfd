------------------------ MODULE ApplicationLifecycle ------------------------
(***************************************************************************)
(* Application.bootstrap() and the lifecycle methods of Runtime, driving   *)
(* the RolesService.  Bootstrapping is synchronous: its phases follow one  *)
(* another with nothing in between, but any of them can throw, and role    *)
(* starts go on after it.  start(), stop() and shutdown() do not wait for  *)
(* the roles service.                                                      *)
(***************************************************************************)
EXTENDS RolesService, Sequences

CONSTANTS EnvChoices,   \* role configurations the environment may ask for
          CliChoices,   \* command lines: sequences of options
          NoValue       \* a command line option without its value

OptionNames == {"only", "skip", "all-except", "self-test", "other"}

ASSUME ChoicesAssumption ==
    /\ EnvChoices \subseteq Configurations
    /\ CliChoices \subseteq Seq([option : OptionNames, roles : {NoValue} \cup SUBSET Names])

VARIABLES env,        \* the configuration the environment variables describe
          args,       \* process.argv
          autostart,  \* ApplicationOptions.autostart
          phase,      \* how far bootstrap() came, then the state of the process
          fired,      \* history: the lifecycle events fired, in order
          lastCall    \* history: the operation the application asked for last

bootVars == <<env, args, autostart>>
vars == <<registered, running, config, op, inflight, live,
          env, args, autostart, phase, fired, lastCall>>

Events == {"OnInit", "OnStart", "AfterStart", "OnStop"}

Latest(s) == s[Len(s)]

NoOptions == [mode |-> "default", roles |-> {}]

Phases == {"loaded", "initialised", "environmentRead", "configured", "starting",
           "up", "stopping", "failed", "selfTested", "exited"}

TypeOK ==
    /\ RolesTypeOK
    /\ env \in EnvChoices
    /\ args \in CliChoices
    /\ autostart \in BOOLEAN
    /\ phase \in Phases
    /\ fired \in Seq(Events)
    /\ lastCall \in {"none", "start", "stop", "restart"}

Init ==
    /\ RolesInit
    /\ env \in EnvChoices
    /\ args \in CliChoices
    /\ autostart \in BOOLEAN
    /\ phase = "loaded"
    /\ fired = <<>>
    /\ lastCall = "none"

\* fireEvent(): a module that throws ends the loop and the caller's work.
Fires(event) == fired' = Append(fired, event)

\* The OnInit event; modules register their roles while handling it.
InitModules ==
    /\ phase = "loaded"
    /\ Fires("OnInit")
    /\ phase' = "initialised"
    /\ RegisterRoles(Roles)
    /\ UNCHANGED <<env, args, autostart, lastCall>>

InitThrows ==
    /\ phase = "loaded"
    /\ Fires("OnInit")
    /\ phase' = "failed"
    /\ \E rs \in SUBSET Roles : RegisterRoles(rs)
    /\ UNCHANGED <<env, args, autostart, lastCall>>

\* Runtime.configure(): the environment first; default mode configures nothing.
ConfigureFromEnv ==
    /\ phase = "initialised"
    /\ IF env.mode = "default"
       THEN phase' = "environmentRead" /\ UNCHANGED rolesVars
       ELSE \/ Configure(env) /\ phase' = "environmentRead"
            \/ ~Accepts(env) /\ phase' = "failed" /\ UNCHANGED rolesVars
    /\ UNCHANGED <<env, args, autostart, fired, lastCall>>

IsRoleOption(a) == a.option \in {"only", "skip", "all-except"}

\* The options of a command line up to the first one without a value, which
\* makes processCommandLine() throw.
Malformed == \E i \in DOMAIN args : IsRoleOption(args[i]) /\ args[i].roles = NoValue
RoleOptions == SelectSeq(args, IsRoleOption)
SelfTest == \E i \in DOMAIN args : args[i].option = "self-test"

\* What processCommandLine() asks the roles service for: the roles of the last
\* role option, in mode 'only' whichever option it was.
CommandLineConfig == [mode |-> "only", roles |-> Latest(RoleOptions).roles]

\* Runtime.configure(), then the command line, then the self test.
ConfigureFromCommandLine ==
    /\ phase = "environmentRead"
    /\ \/ /\ Malformed
          /\ phase' = "failed" /\ UNCHANGED rolesVars
       \/ /\ ~Malformed /\ RoleOptions = <<>>
          /\ phase' = IF SelfTest THEN "selfTested" ELSE "configured"
          /\ UNCHANGED rolesVars
       \/ /\ ~Malformed /\ RoleOptions # <<>>
          /\ Configure(CommandLineConfig)
          /\ phase' = IF SelfTest THEN "selfTested" ELSE "configured"
       \/ /\ ~Malformed /\ RoleOptions # <<>> /\ ~Accepts(CommandLineConfig)
          /\ phase' = "failed" /\ UNCHANGED rolesVars
    /\ UNCHANGED <<env, args, autostart, fired, lastCall>>

\* Runtime.start(): fire OnStart, then let the roles service start roles.
StartRuntime(o) ==
    /\ Fires("OnStart")
    /\ StartAll(o)
    /\ lastCall' = "start"

\* bootstrap() starts the runtime when autostart is on.
Autostart(o) ==
    /\ phase = "configured" /\ autostart
    /\ StartRuntime(o)
    /\ phase' = "starting"
    /\ UNCHANGED bootVars

SkipAutostart ==
    /\ phase = "configured" /\ ~autostart
    /\ phase' = "starting"
    /\ UNCHANGED <<rolesVars, bootVars, fired, lastCall>>

\* Variant: the roles start before the modules hear of OnStart.
StartThrowsLate ==
    /\ phase = "configured" /\ autostart
    /\ Fires("OnStart")
    /\ phase' = "failed"
    /\ \E o \in Ops : StartAll(o)
    /\ UNCHANGED <<bootVars, lastCall>>

StartThrows ==
    /\ phase = "configured" /\ autostart
    /\ Fires("OnStart")
    /\ phase' = "failed"
    /\ UNCHANGED <<rolesVars, bootVars, lastCall>>

\* The last step of bootstrap(), in the same synchronous stretch.
AfterStart ==
    /\ phase = "starting"
    /\ Fires("AfterStart")
    /\ phase' = "up"
    /\ UNCHANGED <<rolesVars, bootVars, lastCall>>

\* A module throws while handling AfterStart: bootstrap() throws, and the roles
\* it began to start go on.
AfterStartThrows ==
    /\ phase = "starting"
    /\ Fires("AfterStart")
    /\ phase' = "failed"
    /\ UNCHANGED <<rolesVars, bootVars, lastCall>>

\* Application.start() and stop(), RolesService.restartAll() and configure(),
\* called by the application later on.
Start(o) == /\ phase = "up" /\ StartRuntime(o)
            /\ UNCHANGED <<bootVars, phase>>

StopRuntime(o) == Fires("OnStop") /\ StopAll(o) /\ lastCall' = "stop"

Stop(o) == /\ phase = "up" /\ StopRuntime(o)
           /\ UNCHANGED <<bootVars, phase>>

Restart(o) == /\ phase = "up" /\ RestartAll(o) /\ lastCall' = "restart"
              /\ UNCHANGED <<bootVars, phase, fired>>

Reconfigure(cfg) == /\ phase = "up" /\ Configure(cfg)
                    /\ UNCHANGED <<bootVars, phase, fired, lastCall>>

\* Runtime.shutdown(): stop, and exit one promise reaction later.
Shutdown(o) == /\ phase = "up" /\ StopRuntime(o)
               /\ phase' = "stopping"
               /\ UNCHANGED bootVars

Exit == /\ phase = "stopping"
        /\ phase' = "exited"
        /\ UNCHANGED <<rolesVars, bootVars, fired, lastCall>>

\* Promise reactions and timers run once the synchronous code has returned, and
\* no more after the process has exited.
Background ==
    /\ phase \in {"up", "stopping", "failed"}
    /\ RolesProgress
    /\ UNCHANGED <<bootVars, phase, fired, lastCall>>

Boot == \/ InitModules \/ InitThrows
        \/ ConfigureFromEnv
        \/ ConfigureFromCommandLine
        \/ \E o \in Ops : Autostart(o)
        \/ SkipAutostart \/ StartThrows
        \/ AfterStart \/ AfterStartThrows

Next == \/ Boot
        \/ \E o \in Ops : Start(o) \/ Stop(o) \/ Restart(o) \/ Shutdown(o)
        \/ \E cfg \in EnvChoices : Reconfigure(cfg)
        \/ Exit
        \/ Background

\* Bootstrapping runs to its end; roles answer, and timers fire.
Fairness == WF_vars(Boot) /\ WF_vars(Exit) /\ WF_vars(Background)

Spec == Init /\ [][Next]_vars /\ Fairness
-----------------------------------------------------------------------------
(***************************************************************************)
(* Properties                                                              *)
(***************************************************************************)
\* The configuration in force never names a role that no module registered.
ConfigKnown == config.roles \subseteq registered

\* A bootstrap that fails before AfterStart, and a self test, leave no role
\* running and none starting, not even later.
NothingRunsAfterFailedBoot ==
    phase = "selfTested" \/ (phase = "failed" /\ Latest(fired) # "AfterStart")
        => \A r \in Roles : ~Started(r)

\* Every start, stop and restart comes to an end while the process lives.
OperationsEnd ==
    \A o \in Ops :
        op[o].stage \in {"starting", "stopping", "sleeping"}
            ~> op[o].stage \in {"resolved", "rejected"} \/ phase = "exited"

\* Runtime.stop(), as its comment has it: when the last thing asked for was to
\* stop and every operation is over, no role runs.
StoppedMeansDown ==
    lastCall = "stop" /\ inflight = {}
        /\ (\A o \in Ops : op[o].stage \in {"unused", "resolved", "rejected"})
        => \A r \in Roles : live[r] = 0
=============================================================================
