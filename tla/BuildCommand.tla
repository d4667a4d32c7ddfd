---------------------------- MODULE BuildCommand ----------------------------
(***************************************************************************)
(* The commands of alterior-build that run the packages:                   *)
(* packages/build/src/main.ts.  `build`, `test` and `run` run one script in *)
(* all packages; `publish` prepares the packages (checks the registry,     *)
(* builds, runs prepublishOnly, packs), logs in and publishes them.        *)
(*                                                                         *)
(* The task list lives beside the command: its interval renders while it   *)
(* is started, and a list whose top-level tasks have all ended stops after *)
(* a second.                                                               *)
(***************************************************************************)
EXTENDS DependencyBuild

CONSTANTS
  OptionSets,   \* the sets of options a command line may give
  RunModes,     \* the modes in which runInAll() may be called
  Interactive   \* whether standard input and output are terminals: a set of BOOLEAN

ASSUME OptionsAssumption ==
  /\ OptionSets \subseteq SUBSET {"skip-already-published-check", "skip-build",
                                  "skip-prepublish", "skip-login"}
  /\ RunModes \subseteq Modes
  /\ Interactive \subseteq BOOLEAN

VARIABLES
  command,      \* [name, options, mode, terminal] as given
  stage         \* what the command is doing

vars == <<buildVars, taskVars, command, stage>>

Prep == <<"top">>
TaskOf(s) == <<"top", s>>
Ended == stage \in {"ended", "crashed"}

\* A Node program dies of a promise that was rejected and not waited for.
Alive == stage # "crashed"

Init ==
  /\ BuildInit
  /\ \E name \in {"run", "publish"}, options \in OptionSets, mode \in RunModes,
        terminal \in Interactive :
       /\ command = [name |-> name, options |-> options, mode |-> mode, terminal |-> terminal]
       /\ list = NewList(terminal)
  /\ tasks = [t \in {} |-> "running"]
  /\ stage = "start"

-----------------------------------------------------------------------------
(* build, test, run *)

StartRun ==
  /\ stage = "start" /\ command.name = "run"
  /\ tasks' = AddTask(tasks, Prep)
  /\ list' = Start(list)
  /\ stage' = "run"
  /\ Call("script", command.mode, Prep)
  /\ UNCHANGED command

\* The task list is stopped either way; an error leaves main() unhandled.
RunReturns ==
  /\ stage = "run" /\ call.state \in {"resolved", "rejected"}
  /\ list' = Stop(list, tasks)
  /\ stage' = IF call.state = "resolved" THEN "ended" ELSE "crashed"
  /\ UNCHANGED <<buildVars, tasks, command>>

-----------------------------------------------------------------------------
(* publish *)

\* The stages of the preparation that come after s, those that were skipped left out.
Follows(s) ==
  LET wanted == [check |-> "skip-already-published-check" \notin command.options,
                 build |-> "skip-build" \notin command.options,
                 prepublish |-> "skip-prepublish" \notin command.options]
  IN  CASE s = "start" /\ wanted.check -> "check"
        [] s \in {"start", "check"} /\ wanted.build -> "build"
        [] s \in {"start", "check", "build"} /\ wanted.prepublish -> "prepublish"
        [] OTHER -> "pack"

\* The command goes on to a stage of the preparation: its subtask is made, and its
\* scripts are run.  ts are the tasks as the stage before left them.
GoOnTo(next, ts) ==
  /\ stage' = next
  /\ tasks' = AddTask(ts, TaskOf(next))
  /\ IF next \in {"build", "prepublish"}
       THEN Call("script", command.mode, TaskOf(next))
       ELSE call' = NoCall /\ UNCHANGED <<graph, pkg, waits, path, visited, unhandled>>

StartPublish ==
  /\ stage = "start" /\ command.name = "publish"
  /\ GoOnTo(Follows("start"), AddTask(tasks, Prep))
  /\ list' = Start(list)
  /\ UNCHANGED command

\* Mutant: the return that leaves out the finally block.
ReturnStarted(ts) ==
  /\ tasks' = ts
  /\ list' = Updated(list, ts)
  /\ stage' = "ended"

\* finally { taskList.stop() }
Return(ts) ==
  /\ tasks' = ts
  /\ list' = Stop(list, ts)
  /\ stage' = "ended"

\* A package the registry knows stops the command; a lookup that fails for any
\* reason counts as "not published".
CheckReturns ==
  /\ stage = "check"
  /\ \/ /\ GoOnTo(Follows("check"), Finish(tasks, TaskOf("check")))
        /\ list' = Updated(list, tasks')
     \/ /\ Return(Fail(Fail(tasks, TaskOf("check")), Prep))
        /\ UNCHANGED buildVars
  /\ UNCHANGED command

ScriptsReturn ==
  /\ stage \in {"build", "prepublish"}
  /\ \/ /\ call.state = "resolved"
        /\ GoOnTo(Follows(stage), Finish(tasks, TaskOf(stage)))
        /\ list' = Updated(list, tasks')
     \/ /\ call.state = "rejected"
        /\ Return(Fail(tasks, TaskOf(stage)))
        /\ UNCHANGED buildVars
  /\ UNCHANGED command

\* The exit code of npm pack is not looked at; making its folder may fail.
PackReturns ==
  /\ stage = "pack" /\ unhandled = {}
  /\ \/ LET finished == Finish(Finish(tasks, TaskOf("pack")), Prep)
        IN  /\ tasks' = finished
            /\ list' = Stop(Updated(list, finished), finished)
            /\ stage' = "login"
     \/ Return(Fail(tasks, TaskOf("pack")))
  /\ UNCHANGED <<buildVars, command>>

\* npm login, as every shell command, needs a terminal to take over.
LoginReturns ==
  /\ stage = "login" /\ unhandled = {}
  /\ \/ /\ "skip-login" \in command.options \/ command.terminal
        /\ stage' = "publish"
        /\ Call("publish", "serial", <<>>)
     \/ /\ "skip-login" \notin command.options
        /\ stage' = "crashed"
        /\ UNCHANGED buildVars
  /\ list' = IF stage' = "crashed" THEN Stop(list, tasks) ELSE list
  /\ UNCHANGED <<tasks, command>>

\* A publishing walk that was stopped returns as one that went through.
PublishReturns ==
  /\ stage = "publish" /\ call.state = "resolved"
  /\ Return(tasks)
  /\ UNCHANGED <<buildVars, command>>

-----------------------------------------------------------------------------
(* The environment and the event loop. *)

Exit(p, exit) ==
  /\ Alive
  /\ call.work = "publish" /\ ~command.terminal => exit = "nonzero"
  /\ ProcessExits(p, exit)
  /\ UNCHANGED <<command, stage>>

React == Alive /\ (Begin \/ Reactions) /\ UNCHANGED <<command, stage>>

Timer(fires) ==
  /\ Alive /\ unhandled = {}
  /\ fires
  /\ UNCHANGED <<buildVars, command, stage>>

ListTimers == Timer(Tick) \/ Timer(IdleFires)

Dies ==
  /\ Alive /\ unhandled # {}
  /\ stage' = "crashed"
  /\ UNCHANGED <<buildVars, taskVars, command>>

CommandStep ==
  \/ StartRun \/ RunReturns
  \/ StartPublish \/ CheckReturns \/ ScriptsReturn \/ PackReturns \/ LoginReturns
  \/ PublishReturns

Next ==
  \/ CommandStep
  \/ \E p \in Packages, exit \in Exits : Exit(p, exit)
  \/ React
  \/ ListTimers
  \/ Dies

\* Promise reactions run, timers fire, and processes end.
Fairness ==
  /\ WF_vars(CommandStep)
  /\ WF_vars(\E p \in Packages, exit \in Exits : Exit(p, exit))
  /\ WF_vars(React)
  /\ WF_vars(Timer(Tick))
  /\ WF_vars(Timer(IdleFires))
  /\ WF_vars(Dies)

Spec == Init /\ [][Next]_vars /\ Fairness

-----------------------------------------------------------------------------

\* d leads to p along `edges`: p is in every set that holds d and is closed under them.
Reaches(edges, d, p) ==
  \A S \in SUBSET Packages : d \in S /\ (\A x \in S : edges[x] \subseteq S) => p \in S

\* A package is run, or published, only after what it needs: every dependency in mode
\* "parallel-wait", the `dependencies` in a walk, except those that need it in turn
\* (visitPackageInDependencyOrder, visitInDependencyOrderParallel).  A failure below
\* it, however far, keeps it from being run.
DependenciesFirst ==
  \A p \in Packages : pkg[p] \in {"running", "done", "failed"} =>
    /\ call.mode = "parallel-wait" => \A d \in Needs(p) : pkg[d] = "done"
    /\ call.mode = "serial" => \A d \in graph.deps[p] :
                                  pkg[d] = "done" \/ Reaches(graph.deps, d, p)

\* runInAll() does not return well over a package that failed, or was not run, except
\* in mode "parallel", which allows failures: the failure of a package that nothing
\* depends on is swallowed by the visit, and the program dies of its future instead.
NoFailureIsPassedOver ==
  call.state = "resolved" /\ call.work = "script" /\ call.mode # "parallel" =>
    \A p \in Packages : pkg[p] = "done" \/ p \in unhandled

\* Every command ends, whatever fails, unless packages wait for one another in a
\* circle: a future that nobody settles is never waited for by the command itself.
CommandEnds ==
  (command.mode = "parallel-wait" => \A p \in Packages : \A d \in Needs(p) :
      ~Reaches([q \in Packages |-> Needs(q)], d, p)) ~> Ended

\* A command that has returned lets the program exit: no interval and no timeout of
\* its task list comes back, though packages may still be running.
NothingTicksInTheEnd ==
  stage = "ended" ~> [](stage = "crashed" \/ (~list.started /\ ~list.idleTimeout))

=============================================================================
