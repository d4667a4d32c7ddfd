--------------------------- MODULE DependencyBuild ---------------------------
(***************************************************************************)
(* Running a script, or npm publish, in the packages of a repository:      *)
(* packages/build/src/build-core.ts, with the processes of utils.ts.       *)
(*                                                                         *)
(* One call of runInAll() or visitInDependencyOrder() is under way at a    *)
(* time.  In mode "parallel" every package runs at once; in                *)
(* "parallel-wait" a package waits for the futures of all its              *)
(* dependencies; in "serial" the packages are visited depth first, with    *)
(* the `dependencies` of each before itself.  A visitor runs npm in the    *)
(* package and a step of the environment ends that process.                *)
(*                                                                         *)
(* A promise that is rejected while nobody waits for it ends a Node        *)
(* program; `unhandled` holds the packages whose future did that, and no   *)
(* event of the environment comes before the program has died of it.       *)
(***************************************************************************)
EXTENDS TaskList, FiniteSets

CONSTANTS
  Packages,     \* the packages of the repository
  Graphs        \* the manifests to choose from, see GraphsAssumption

ASSUME GraphsAssumption ==
  /\ IsFiniteSet(Packages)
  /\ \A g \in Graphs :
       /\ g.deps \in [Packages -> SUBSET Packages]      \* dependencies
       /\ g.others \in [Packages -> SUBSET Packages]    \* peer and dev dependencies
       /\ g.scripts \in [Packages -> {"has", "lacks", "none"}]

VARIABLES
  graph,        \* the manifests of the packages
  call,         \* [work, mode, task, state] of the call under way
  pkg,          \* how far the visit of each package is
  waits,        \* pendingDeps of each package
  path,         \* the packages whose visit is open in serial mode, outermost first
  visited,      \* the packages serial mode has come to
  unhandled     \* packages whose rejected future nobody waits for

buildVars == <<graph, call, pkg, waits, path, visited, unhandled>>

Modes == {"serial", "parallel", "parallel-wait"}

\* "unseen", "waiting": not visited yet; "running": its process runs; "done" and
\* "failed": the visitor has ended; "stuck": the wait itself was rejected.
Progress == {"unseen", "waiting", "running", "done", "failed", "stuck"}

Needs(p) == graph.deps[p] \union graph.others[p]
Dependents(p) == {q \in Packages : p \in Needs(q)}
SubtaskOf(p) == Append(call.task, p)
Top == path[Len(path)]
Active == call.state = "active"

-----------------------------------------------------------------------------
(* The visitor: runInUnit(), or npm publish for the packed package. *)

\* What a visit comes to before its first wait.  A manifest without scripts makes
\* runInUnit() throw; a package without this script has nothing to do.
Visited(p) ==
  IF call.work = "publish" THEN "running"
  ELSE CASE graph.scripts[p] = "has" -> "running"
         [] graph.scripts[p] = "lacks" -> "done"
         [] graph.scripts[p] = "none" -> "failed"

\* A process that a signal ended has no exit code, which is read as 0.
Exits == {"zero", "nonzero", "signal"}
ExitCode(exit) == IF exit = "nonzero" THEN 1 ELSE 0

Succeeds(exit) == ExitCode(exit) = 0 \/ call.mode = "parallel"

\* Mutant: somebody waits for every future.
RejectedQuietly(failed) == {}

\* Of the packages that failed, those whose future is rejected (in mode
\* "parallel-wait") with nobody waiting for it.
Rejected(failed) ==
  IF call.mode = "parallel-wait" THEN {p \in failed : Dependents(p) = {}} ELSE {}

-----------------------------------------------------------------------------
(* The parallel modes. *)

NewCall(work, mode, task) == [work |-> work, mode |-> mode, task |-> task, state |-> "active"]

NoCall == [work |-> "none", mode |-> "serial", task |-> <<>>, state |-> "none"]

\* A call of runInAll() or visitInDependencyOrder() is made: what was done for an
\* earlier call is forgotten.
Call(work, mode, task) ==
  /\ call' = [NewCall(work, mode, task) EXCEPT !.state = "called"]
  /\ pkg' = [p \in Packages |-> "unseen"]
  /\ waits' = [p \in Packages |-> {}]
  /\ path' = <<>>
  /\ visited' = {}
  /\ UNCHANGED <<graph, unhandled>>

\* findPackages() has answered; the parallel modes make every subtask and start
\* every package that waits for nothing.
Begin ==
  /\ call.state = "called"
  /\ unhandled = {}
  /\ IF call.mode = "serial"
       THEN /\ call' = [call EXCEPT !.state = "active"]
            /\ UNCHANGED <<pkg, waits, tasks, unhandled>>
       ELSE LET need == [p \in Packages |-> IF call.mode = "parallel-wait" THEN Needs(p) ELSE {}]
                made == AddTasks(tasks, {SubtaskOf(p) : p \in Packages})
            IN  /\ waits' = need
                /\ pkg' = [p \in Packages |-> IF need[p] = {} THEN Visited(p) ELSE "waiting"]
                /\ tasks' = [t \in DOMAIN made |->
                               IF \E p \in Packages : t = SubtaskOf(p) /\ need[p] # {}
                               THEN "waiting" ELSE made[t]]
                /\ LET failed == {p \in Packages : need[p] = {} /\ Visited(p) = "failed"}
                   IN  /\ unhandled' = unhandled \union Rejected(failed)
                       /\ call' = [call EXCEPT !.state =
                                     IF call.mode = "parallel" /\ failed # {} THEN "rejected"
                                                                              ELSE "active"]
  /\ UNCHANGED <<graph, path, visited, list>>

\* Mutant: the first dependency to be ready ends the wait.
DependencyReadyFirst(p, d) ==
  /\ pkg[p] = "waiting" /\ d \in waits[p]
  /\ pkg[d] = "done"
  /\ waits' = [waits EXCEPT ![p] = {}]
  /\ pkg' = [pkg EXCEPT ![p] = Visited(p)]
  /\ tasks' = Mark(tasks, SubtaskOf(p), "running")
  /\ UNCHANGED <<graph, call, path, visited, unhandled, list>>

\* The wait of p for d goes on; after its last wait p is visited.
DependencyReady(p, d) ==
  /\ pkg[p] = "waiting" /\ d \in waits[p]
  /\ pkg[d] = "done"
  /\ waits' = [waits EXCEPT ![p] = @ \ {d}]
  /\ IF waits[p] = {d}
       THEN /\ pkg' = [pkg EXCEPT ![p] = Visited(p)]
            /\ tasks' = Mark(tasks, SubtaskOf(p), "running")
            /\ unhandled' = unhandled \union
                              Rejected(IF Visited(p) = "failed" THEN {p} ELSE {})
       ELSE UNCHANGED <<pkg, tasks, unhandled>>
  /\ UNCHANGED <<graph, call, path, visited, list>>

\* Mutant: the rejection stays with the package.
DependencyFailedQuietly(p, d) ==
  /\ pkg[p] = "waiting" /\ d \in waits[p]
  /\ pkg[d] = "failed"
  /\ pkg' = [pkg EXCEPT ![p] = "stuck"]
  /\ UNCHANGED <<graph, call, waits, path, visited, unhandled, tasks, list>>

\* The wait of p is rejected with the future of d, and the call with it.  Nothing
\* settles the future of p any more.
DependencyFailed(p, d) ==
  /\ pkg[p] = "waiting" /\ d \in waits[p]
  /\ pkg[d] = "failed"
  /\ pkg' = [pkg EXCEPT ![p] = "stuck"]
  /\ call' = [call EXCEPT !.state = IF Active THEN "rejected" ELSE @]
  /\ UNCHANGED <<graph, waits, path, visited, unhandled, tasks, list>>

\* Promise.all() of the packages.
AllVisited ==
  /\ Active /\ call.mode # "serial"
  /\ \A p \in Packages : pkg[p] \in {"done", "failed"}
  /\ call' = [call EXCEPT !.state = "resolved"]
  /\ UNCHANGED <<graph, pkg, waits, path, visited, unhandled, tasks, list>>

-----------------------------------------------------------------------------
(* Serial mode: visitInDependencyOrder(). *)

\* The next package of the walk: a dependency of the open visit, or, when none is
\* open, any package not seen yet (the order of the folders).
Enter(p) ==
  /\ Active /\ call.mode = "serial"
  /\ p \notin visited
  /\ path # <<>> => pkg[Top] = "unseen" /\ p \in graph.deps[Top]
  /\ path' = Append(path, p)
  /\ visited' = visited \union {p}
  /\ UNCHANGED <<graph, call, pkg, waits, unhandled, tasks, list>>

Back == SubSeq(path, 1, Len(path) - 1)

\* All dependencies of the open visit have been seen: its visitor is called.
VisitTop ==
  /\ Active /\ path # <<>>
  /\ pkg[Top] = "unseen"
  /\ graph.deps[Top] \subseteq visited
  /\ pkg' = [pkg EXCEPT ![Top] = Visited(Top)]
  /\ tasks' = IF call.work = "publish" THEN tasks ELSE AddTask(tasks, SubtaskOf(Top))
  /\ path' = CASE Visited(Top) = "running" -> path
               [] Visited(Top) = "done" -> Back
               [] Visited(Top) = "failed" -> <<>>
  /\ call' = [call EXCEPT !.state = IF Visited(Top) = "failed" THEN "rejected" ELSE @]
  /\ UNCHANGED <<graph, waits, visited, unhandled, list>>

WalkEnds ==
  /\ Active /\ call.mode = "serial"
  /\ path = <<>> /\ visited = Packages
  /\ call' = [call EXCEPT !.state = "resolved"]
  /\ UNCHANGED <<graph, pkg, waits, path, visited, unhandled, tasks, list>>

-----------------------------------------------------------------------------
(* The process of a package ends. *)

\* A script: the subtask is finished, or shows the error, which ends a walk.
ScriptEnds(p, exit) ==
  /\ call.work # "publish"
  /\ IF Succeeds(exit)
       THEN /\ pkg' = [pkg EXCEPT ![p] = "done"]
            /\ tasks' = Finish(tasks, SubtaskOf(p))
            /\ list' = Updated(list, tasks')
            /\ path' = IF call.mode = "serial" THEN Back ELSE path
            /\ UNCHANGED <<call, unhandled>>
       ELSE /\ pkg' = [pkg EXCEPT ![p] = "failed"]
            /\ tasks' = Fail(tasks, SubtaskOf(p))
            /\ unhandled' = unhandled \union Rejected({p})
            /\ path' = <<>>
            /\ call' = [call EXCEPT !.state = IF call.mode = "serial" THEN "rejected" ELSE @]
            /\ UNCHANGED list

\* npm publish: a failure makes the visitor return false, which stops the walk.
PublishEnds(p, exit) ==
  /\ call.work = "publish"
  /\ IF ExitCode(exit) = 0
       THEN /\ pkg' = [pkg EXCEPT ![p] = "done"]
            /\ path' = Back
            /\ UNCHANGED call
       ELSE /\ pkg' = [pkg EXCEPT ![p] = "failed"]
            /\ path' = <<>>
            /\ call' = [call EXCEPT !.state = "resolved"]
  /\ UNCHANGED <<unhandled, tasks, list>>

ProcessExits(p, exit) ==
  /\ pkg[p] = "running"
  /\ unhandled = {}
  /\ ScriptEnds(p, exit) \/ PublishEnds(p, exit)
  /\ UNCHANGED <<graph, waits, visited>>

-----------------------------------------------------------------------------

BuildInit ==
  /\ graph \in Graphs
  /\ call = NoCall
  /\ pkg = [p \in Packages |-> "unseen"]
  /\ waits = [p \in Packages |-> {}]
  /\ path = <<>>
  /\ visited = {}
  /\ unhandled = {}

\* The reactions of promises, which run before any other event.
Reactions ==
  \/ \E p, d \in Packages : DependencyReady(p, d) \/ DependencyFailed(p, d)
  \/ AllVisited
  \/ \E p \in Packages : Enter(p)
  \/ VisitTop
  \/ WalkEnds

=============================================================================
