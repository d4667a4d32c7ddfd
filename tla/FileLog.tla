------------------------------ MODULE FileLog ------------------------------
(***************************************************************************)
(* The log file of a process: FileLogger of packages/logging/src/logger.ts *)
(* as a listener of a ZonedLogger.                                         *)
(*                                                                         *)
(* The file is opened at the first line, and every line waits for the one  *)
(* promise of its descriptor.  Writes are not queued: those under way end  *)
(* in any order.  The logger does not look at the promise of a listener,   *)
(* so that a failure is a rejection nobody handles: with zone.js it is     *)
(* printed, and the process goes on.                                       *)
(***************************************************************************)
EXTENDS FiniteSets

CONSTANT Processes      \* the processes that log, each with a logger of its own

VARIABLES
  fd,           \* _fdReady: "none", "pending", "open" or "failed"
  unwritten,    \* the lines whose write has not ended, waiting for the descriptor or not
  tried         \* those whose write ended or failed after the last one was logged

logVars == <<fd, unwritten, tried>>

LogInit ==
  /\ fd = [p \in Processes |-> "none"]
  /\ unwritten = [p \in Processes |-> {}]
  /\ tried = [p \in Processes |-> {}]

\* Mutant: a line is written where the file is open, and not kept for later.
LogOpen(p, line) ==
  /\ unwritten' = [unwritten EXCEPT ![p] = IF fd[p] = "pending" THEN @ ELSE @ \union {line}]
  /\ fd' = [fd EXCEPT ![p] = IF @ = "none" THEN "pending" ELSE @]
  /\ tried' = [tried EXCEPT ![p] = {}]

\* emitLog(), log(), write() and open() up to their first wait.  A descriptor that was
\* refused stays so: _fdReady is rejected for good, and the line is dropped.
Log(p, line) ==
  /\ unwritten' = [unwritten EXCEPT ![p] = IF fd[p] = "failed" THEN @ ELSE @ \union {line}]
  /\ fd' = [fd EXCEPT ![p] = IF @ = "none" THEN "pending" ELSE @]
  /\ tried' = [tried EXCEPT ![p] = {}]

FileOpens(p) ==
  /\ fd[p] = "pending"
  /\ fd' = [fd EXCEPT ![p] = "open"]
  /\ UNCHANGED <<unwritten, tried>>

\* The file cannot be opened: the lines that wait for it are dropped.
OpenFails(p) ==
  /\ fd[p] = "pending"
  /\ fd' = [fd EXCEPT ![p] = "failed"]
  /\ unwritten' = [unwritten EXCEPT ![p] = {}]
  /\ UNCHANGED tried

\* The write and the fdatasync() after it end, or one of them fails.
WriteEnds(p, line) ==
  /\ fd[p] = "open" /\ line \in unwritten[p]
  /\ unwritten' = [unwritten EXCEPT ![p] = @ \ {line}]
  /\ tried' = [tried EXCEPT ![p] = @ \union {line}]
  /\ UNCHANGED fd

\* The lines of a process that is killed are gone, and the next one opens the file again.
Reopened(p) ==
  /\ fd' = [fd EXCEPT ![p] = "none"]
  /\ unwritten' = [unwritten EXCEPT ![p] = {}]
  /\ tried' = [tried EXCEPT ![p] = {}]

=============================================================================
