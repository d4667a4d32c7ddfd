------------------------------ MODULE TaskList ------------------------------
(***************************************************************************)
(* The tasks and the task list of packages/terminal/src/task-list.ts.      *)
(*                                                                         *)
(* A task is named by its path from the top: <<"build">> is a top-level    *)
(* task and <<"build", p>> one of its subtasks.  The methods of a task and *)
(* of the list are operators on the two variables, so that the step of a   *)
(* program that calls several of them makes all their changes; the timers  *)
(* of the list are actions.  What a frame shows is in the module TaskFrame.*)
(***************************************************************************)
EXTENDS Naturals, Sequences

VARIABLES
  tasks,        \* the status of each task that was added, by path
  list          \* [interactive, started, idle, idleTimeout] of the CLITaskList

taskVars == <<tasks, list>>

Within(t, u) == Len(t) <= Len(u) /\ SubSeq(u, 1, Len(t)) = t

TopLevel(ts) == {t \in DOMAIN ts : Len(t) = 1}

-----------------------------------------------------------------------------
(* CLITask *)

AddTask(ts, t) == [u \in DOMAIN ts \union {t} |-> IF u = t THEN "running" ELSE ts[u]]

AddTasks(ts, new) == [u \in DOMAIN ts \union new |-> IF u \in new THEN "running" ELSE ts[u]]

\* finish() finishes the subtasks too, whatever their status.
Finish(ts, t) == [u \in DOMAIN ts |-> IF Within(t, u) THEN "finished" ELSE ts[u]]

Fail(ts, t) == [ts EXCEPT ![t] = "error"]

Mark(ts, t, status) == [ts EXCEPT ![t] = status]

-----------------------------------------------------------------------------
(* CLITaskList *)

AllTasksFinished(ts) == \A t \in TopLevel(ts) : ts[t] # "running"

NewList(interactive) ==
  [interactive |-> interactive, started |-> FALSE, idle |-> FALSE, idleTimeout |-> FALSE]

\* The end of every frame: the list turns idle or busy, and the timeout that is
\* to stop an idle list is set or cleared with it.
Render(l, ts) ==
  IF l.idle = AllTasksFinished(ts) THEN l
  ELSE [l EXCEPT !.idle = AllTasksFinished(ts), !.idleTimeout = AllTasksFinished(ts)]

Start(l) == [l EXCEPT !.started = @ \/ l.interactive]

Stop(l, ts) == IF l.started THEN [Render(l, ts) EXCEPT !.started = FALSE] ELSE l

\* globalTask.onUpdated, which finish() calls.
Updated(l, ts) == IF l.interactive /\ AllTasksFinished(ts) THEN Render(l, ts) ELSE l

-----------------------------------------------------------------------------
(* The timers of a list: the interval runs while the list is started. *)

Tick ==
  /\ list.started
  /\ list' = Render(list, tasks)
  /\ UNCHANGED tasks

IdleFires ==
  /\ list.idleTimeout
  /\ LET fired == [list EXCEPT !.idleTimeout = FALSE]
     IN  list' = IF fired.idle THEN Stop(fired, tasks) ELSE fired
  /\ UNCHANGED tasks

Timers == Tick \/ IdleFires

=============================================================================
