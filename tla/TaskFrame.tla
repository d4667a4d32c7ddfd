------------------------------ MODULE TaskFrame ------------------------------
(***************************************************************************)
(* What a frame of the task list shows: CLITaskList.render() and the       *)
(* rendering of a CLITask, packages/terminal/src/task-list.ts.             *)
(*                                                                         *)
(* A frame may take `rows` lines of the terminal.  A task takes one line   *)
(* and gives what is left to its subtasks and then to the last of its log  *)
(* lines.  Only lines are counted: ts are the tasks with their statuses,   *)
(* log tells how many lines each has logged and stale which finished tasks *)
(* are stale.  A list that has consumed more than it may is an endless     *)
(* loop in renderLogs(), so the count is what matters.                     *)
(***************************************************************************)
EXTENDS TaskList, FiniteSets, SequencesExt

CONSTANTS
  Terminals,    \* the numbers of rows a terminal may have
  LogLines      \* the numbers of lines a task may have logged

ASSUME TerminalsAssumption == Terminals \subseteq Nat \ {0} /\ LogLines \subseteq Nat

Smaller(a, b) == IF a < b THEN a ELSE b
Excess(a, b) == IF a > b THEN a - b ELSE 0

Children(ts, t) == {u \in DOMAIN ts : Len(u) = Len(t) + 1 /\ Within(t, u)}

ContainsLogsOrError(ts, log, t) ==
  \E u \in DOMAIN ts : Within(t, u) /\ (log[u] > 0 \/ ts[u] = "error")

\* splice(): what is left of a sequence without its first n elements.
Without(seq, n) == SubSeq(seq, n + 1, Len(seq))

\* The tasks with a status, in some order: those of one status stay as they were added,
\* which is not modelled.
Having(ts, S, status) == SetToSeq({u \in S : ts[u] = status})

\* The subtasks shown in `max` lines, in the order of their statuses (statusOrder): stale ones are
\* left out (or, below a finished task, what has nothing to say), then finished ones,
\* then errors, and the last of the order until the rest fits.
Displayed(ts, log, stale, t, max, parentFinished) ==
  LET fit == {u \in Children(ts, t) : IF parentFinished THEN ContainsLogsOrError(ts, log, u)
                                                        ELSE u \notin stale}
      finished == Having(ts, fit, "finished")
      excess == Excess(Cardinality(fit), max)
      left == Having(ts, fit, "running")
              \o Without(Having(ts, fit, "error"), Excess(excess, Len(finished)))
              \o Without(finished, excess)
              \o Having(ts, fit, "waiting")
  IN  SubSeq(left, 1, Smaller(max, Len(left)))

\* Mutant: what a child used beyond its own line is not accounted for.
LeftoverAll(extra, used) == extra

\* The lines each child may use beyond its own: what the children before it left over.
Leftover(extra, used) == IF extra > used - 1 THEN extra - (used - 1) ELSE 0

\* renderChildren(): the lines that the subtasks of t take of `max`, where lines[m] tells
\* what a task takes of m.
LinesOfChildren(ts, log, stale, t, max, parentFinished, lines) ==
  LET shown == Displayed(ts, log, stale, t, max, parentFinished)
      Used[k \in 0..Len(shown)] ==
        IF k = 0 THEN [lines |-> 0, extra |-> max - Len(shown)]
        ELSE LET before == Used[k - 1]
                 used == lines[1 + before.extra][shown[k]][parentFinished]
             IN  [lines |-> before.lines + used, extra |-> Leftover(before.extra, used)]
  IN  IF max <= 0 THEN 0 ELSE Used[Len(shown)].lines

\* render(): the lines that a task takes of `max`, lines[m] telling it of the fewer lines m.
LinesOfTask(ts, log, stale, t, max, parentFinished, lines) ==
  IF parentFinished /\ ~ContainsLogsOrError(ts, log, t) THEN 0
  ELSE LET below == LinesOfChildren(ts, log, stale, t, max - 1, parentFinished \/ t \in stale, lines)
       IN  1 + below + IF below > max - 1 THEN 0 ELSE Smaller(log[t], max - 1 - below)

\* A task gives its subtasks fewer lines than it may take itself.  More lines than
\* `max` are an endless loop.
Lines(ts, log, stale, rows) ==
  LET Of[max \in 1..rows] ==
        [t \in DOMAIN ts |-> [parentFinished \in BOOLEAN |->
           LinesOfTask(ts, log, stale, t, max, parentFinished, Of)]]
  IN  Of

\* The lines of a frame on a terminal of `rows` rows, one of which stays empty.
Frame(ts, log, stale, rows) ==
  LinesOfChildren(ts, log, stale, <<>>, rows - 1, FALSE, Lines(ts, log, stale, rows))

\* A frame takes no more lines than the terminal has, and as long as a task that has
\* ended is shown no running one of the same parent is left out.
FitsAndShowsWork(ts, log, stale, rows) ==
  /\ Frame(ts, log, stale, rows) <= rows - 1
  /\ \A parent \in DOMAIN ts \union {<<>>} :
       LET shown == ToSet(Displayed(ts, log, stale, parent, rows - 1, FALSE))
           running == {t \in Children(ts, parent) : ts[t] = "running"}
       IN  shown \subseteq running \/ running \subseteq shown

\* Whenever a frame of the list may be drawn it fits and shows what runs, whatever the
\* tasks logged and however they are nested (LineTracker, renderChildren, renderLogs):
\* every task has the same number of log lines besides the message of its error, and
\* finished tasks are stale or fresh.
FrameFits ==
  \A rows \in Terminals, lines \in LogLines, fresh \in BOOLEAN :
    FitsAndShowsWork(tasks,
      [t \in DOMAIN tasks |-> IF tasks[t] = "error" THEN lines + 1 ELSE lines],
      {t \in DOMAIN tasks : tasks[t] = "finished" /\ ~fresh}, rows)

=============================================================================
