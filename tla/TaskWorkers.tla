---------------------------- MODULE TaskWorkers ----------------------------
(***************************************************************************)
(* Jobs of packages/tasks: TaskRunner and TaskWorkerProxy put them on a    *)
(* queue, and the TaskWorker of each process takes them off it, finds the  *)
(* worker registered under the id of the job and calls its method.         *)
(*                                                                         *)
(* The queue (Bull, kept in Redis) is external and modelled as the code    *)
(* uses it: one job at a time per process, a failed job is tried again     *)
(* while it has attempts, and a job whose process died is given to another *)
(* once and then failed.  Processes are killed from outside only: they     *)
(* load zone.js, whose promises print a rejection that nobody handles.     *)
(***************************************************************************)
EXTENDS Naturals, FileLog

CONSTANTS
  Classes,      \* the worker classes in the `tasks` of the modules, the later one last
  Annotated,    \* those with an id in their @Task() annotation
  Jobs,         \* the jobs that are enqueued
  MaxAttempts,  \* bound: the attempts a caller may ask for
  NoOne         \* stands for no class, no process

ASSUME JobsAssumption ==
  /\ Classes \subseteq Nat \ {0} /\ IsFiniteSet(Classes)
  /\ NoOne \notin Classes \union Processes \union Jobs
  /\ MaxAttempts \in Nat \ {0}

VARIABLES
  id,           \* the id that each class gives itself with @Task(), or its name
  job,          \* what each job asks for and what the queue knows of it
  process       \* [state, job, worker] of each process

vars == <<logVars, id, job, process>>

\* The name of a class is the class itself; an annotation may give it the id of another.
Ids == {ids \in [Classes -> Classes] : \A c \in Classes \ Annotated : ids[c] = c}

Idle == [state |-> "up", job |-> NoOne, worker |-> NoOne]

NoJob == [state |-> "none", class |-> NoOne, attempts |-> 0, stalled |-> 0,
          by |-> NoOne, returned |-> "nothing"]

Init ==
  /\ id \in Ids
  /\ job = [j \in Jobs |-> NoJob]
  /\ process = [p \in Processes |-> Idle]
  /\ LogInit

Alive(p) == process[p].state # "dead"
Over(j) == job[j].state \in {"completed", "failed"}

-----------------------------------------------------------------------------
(* TaskWorkerProxy and TaskQueueClient.enqueue() *)

\* The caller, with either remote, names a class, whose name is the id of the job, and
\* hears of the job when it is on the queue.
Enqueue(j) ==
  /\ job[j].state = "none"
  /\ \E class \in Classes, attempts \in 1..MaxAttempts :
       job' = [job EXCEPT ![j] = [NoJob EXCEPT !.state = "waiting", !.class = class,
                                               !.attempts = attempts]]
  /\ UNCHANGED <<logVars, id, process>>

\* Something else puts data on the queue that names no task.
EnqueueInvalid(j) ==
  /\ job[j].state = "none"
  /\ \E attempts \in 1..MaxAttempts :
       job' = [job EXCEPT ![j] = [NoJob EXCEPT !.state = "waiting", !.attempts = attempts]]
  /\ UNCHANGED <<logVars, id, process>>

-----------------------------------------------------------------------------
(* The queue. *)

Tried(rec) == [rec EXCEPT !.attempts = @ - 1, !.by = NoOne]

\* done(error): the job is tried again while it has attempts.
FailedJob(rec) ==
  [Tried(rec) EXCEPT !.state = IF rec.attempts > 1 THEN "waiting" ELSE "failed"]

\* The same after discard(), which marks the object of this process only.
DiscardedJob(rec) == [Tried(rec) EXCEPT !.state = "failed"]

CompletedJob(rec) == [Tried(rec) EXCEPT !.state = "completed"]

\* The lock of a job whose process died runs out: once it is given to another.
Stalls(j) ==
  /\ job[j].state = "active" /\ ~Alive(job[j].by)
  /\ job' = [job EXCEPT ![j].stalled = @ + 1, ![j].by = NoOne,
                        ![j].state = IF job[j].stalled = 0 THEN "waiting" ELSE "failed"]
  /\ UNCHANGED <<logVars, id, process>>

-----------------------------------------------------------------------------
(* TaskWorker *)

\* registerClasses(): the class whose worker answers to an id, the last one registered.
HandlerOf(i) ==
  LET Candidates == {c \in Classes : id[c] = i}
  IN  IF Candidates = {} THEN NoOne
      ELSE CHOOSE c \in Candidates : \A d \in Candidates : d <= c

\* A process that is done with its job; one that is closing is closed then.
Freed(rec) == [rec EXCEPT !.job = NoOne, !.worker = NoOne,
                          !.state = IF @ = "closing" THEN "closed" ELSE @]

Takes(p, j) ==
  /\ process[p] = Idle
  /\ job[j].state = "waiting"

\* A job that names no task is discarded, which waits for the queue.
TakeInvalid(p, j) ==
  /\ Takes(p, j) /\ job[j].class = NoOne
  /\ job' = [job EXCEPT ![j].state = "active", ![j].by = p]
  /\ process' = [process EXCEPT ![p].job = j]
  /\ UNCHANGED <<logVars, id>>

\* Then it is failed; the callback goes on and throws at the missing task, after done().
Discarded(p, j) ==
  /\ Alive(p) /\ process[p].job = j /\ job[j].class = NoOne
  /\ job' = [job EXCEPT ![j] = DiscardedJob(@)]
  /\ process' = [process EXCEPT ![p] = Freed(@)]
  /\ UNCHANGED <<logVars, id>>

Unknown(j) == job[j].class # NoOne /\ HandlerOf(job[j].class) = NoOne

\* Without a handler the callback throws before it calls done(): the rejection is
\* printed, and the queue waits for the job, whose lock the process goes on renewing.
TakeUnknown(p, j) ==
  /\ Takes(p, j) /\ Unknown(j)
  /\ job' = [job EXCEPT ![j].state = "active", ![j].by = p]
  /\ process' = [process EXCEPT ![p].job = j]
  /\ UNCHANGED <<logVars, id>>

\* With one, a line is logged and the method is called.
TakeKnown(p, j) ==
  /\ Takes(p, j) /\ job[j].class # NoOne /\ ~Unknown(j)
  /\ job' = [job EXCEPT ![j].state = "active", ![j].by = p]
  /\ process' = [process EXCEPT ![p].job = j, ![p].worker = HandlerOf(job[j].class)]
  /\ Log(p, j)
  /\ UNCHANGED <<id>>

\* Mutant: done() without the error, as in a finally block.
ReturnsFinally(p, j) ==
  /\ Alive(p) /\ process[p].job = j /\ process[p].worker # NoOne
  /\ \E returned \in {"value", "error"} :
       job' = [job EXCEPT ![j] = CompletedJob([@ EXCEPT !.returned = returned])]
  /\ process' = [process EXCEPT ![p] = Freed(@)]
  /\ UNCHANGED <<logVars, id>>

\* Mutant: an error is only printed.
ReturnsSilently(p, j) ==
  /\ Alive(p) /\ process[p].job = j /\ process[p].worker # NoOne
  /\ \/ /\ job' = [job EXCEPT ![j] = CompletedJob([@ EXCEPT !.returned = "value"])]
        /\ process' = [process EXCEPT ![p] = Freed(@)]
     \/ /\ process' = [process EXCEPT ![p].worker = NoOne]
        /\ UNCHANGED job
  /\ UNCHANGED <<logVars, id>>

\* The method returns or throws, as the handler does when it is none or private.  For
\* the queue an error that is false, such as undefined, is none.
Returns(p, j) ==
  /\ Alive(p) /\ process[p].job = j /\ process[p].worker # NoOne
  /\ \/ \E returned \in {"value", "falsy"} :
          job' = [job EXCEPT ![j] = CompletedJob([@ EXCEPT !.returned = returned])]
     \/ job' = [job EXCEPT ![j] = FailedJob([@ EXCEPT !.returned = "error"])]
  /\ process' = [process EXCEPT ![p] = Freed(@)]
  /\ UNCHANGED <<logVars, id>>

\* stop() closes the queue, which waits for the job under way; nobody waits for that.
StopWorker(p) ==
  /\ process[p].state = "up"
  /\ process' = [process EXCEPT ![p].state = IF process[p].job = NoOne THEN "closed" ELSE "closing"]
  /\ UNCHANGED <<logVars, id, job>>

-----------------------------------------------------------------------------
(* The process and its log. *)

LogWrites(p) ==
  /\ Alive(p)
  /\ FileOpens(p) \/ \E line \in unwritten[p] : WriteEnds(p, line)
  /\ UNCHANGED <<id, job, process>>

LogFails(p) ==
  /\ Alive(p)
  /\ OpenFails(p)
  /\ UNCHANGED <<id, job, process>>

\* A process is killed with a job.
Killed(p) ==
  /\ Alive(p) /\ process[p].job # NoOne
  /\ process' = [process EXCEPT ![p] = [Idle EXCEPT !.state = "dead"]]
  /\ Reopened(p)
  /\ UNCHANGED <<id, job>>

\* Whoever runs the processes starts a new one for one that died.
Restart(p) ==
  /\ process[p].state = "dead"
  /\ \A j \in Jobs : job[j].by # p
  /\ process' = [process EXCEPT ![p] = Idle]
  /\ UNCHANGED <<logVars, id, job>>

Work(p, j) ==
  \/ TakeInvalid(p, j) \/ Discarded(p, j)
  \/ TakeUnknown(p, j) \/ TakeKnown(p, j) \/ Returns(p, j)

Next ==
  \/ \E j \in Jobs : Enqueue(j) \/ EnqueueInvalid(j) \/ Stalls(j)
  \/ \E p \in Processes, j \in Jobs : Work(p, j)
  \/ \E p \in Processes : StopWorker(p) \/ LogWrites(p) \/ LogFails(p) \/ Killed(p) \/ Restart(p)

\* Methods return, the queue hands out its jobs and finds stalled ones, and a process that
\* died is replaced.
Fairness ==
  /\ \A p \in Processes : WF_vars(\E j \in Jobs : Work(p, j)) /\ WF_vars(Restart(p))
  /\ \A j \in Jobs : WF_vars(Stalls(j))

Spec == Init /\ [][Next]_vars /\ Fairness

-----------------------------------------------------------------------------

\* What the queue is told of a job is what happened: completed means that its method has
\* returned, or has thrown a value that is false, and a job is failed only by a method that
\* threw, by data that name no task, or by the deaths of two processes.
OutcomeIsTrue ==
  \A j \in Jobs :
    /\ job[j].state = "completed" => job[j].returned \in {"value", "falsy"}
    /\ job[j].state = "failed" =>
         job[j].returned = "error" \/ job[j].class = NoOne \/ job[j].stalled = 2

\* While a process lives, the write of the line it logged last is under way or has been
\* tried, however it overlaps with the opening of the file and with other writes, unless
\* the file could not be opened, from when on every line is dropped (FileLogger).
NoLineIsDropped ==
  \A p \in Processes : Alive(p) =>
    /\ unwritten[p] # {} => fd[p] \in {"pending", "open"}
    /\ process[p].worker # NoOne /\ fd[p] # "failed" =>
         process[p].job \in unwritten[p] \union tried[p]

\* A process without a handler for its job never gives it back.
Blocked(p) == process[p].job # NoOne /\ Unknown(process[p].job)

\* Every job that some worker can handle, or that names no task, comes to an end, unless
\* each process is stopped or blocked by a job that none can handle.
EveryJobEnds ==
  \A j \in Jobs : job[j].state # "none" ~>
    \/ Over(j) \/ Unknown(j)
    \/ \A p \in Processes : process[p].state \in {"closed", "closing"} \/ Blocked(p)

=============================================================================
