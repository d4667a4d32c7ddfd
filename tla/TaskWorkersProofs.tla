-------------------------- MODULE TaskWorkersProofs --------------------------
(***************************************************************************)
(* Theorems about the jobs of packages/tasks and the log of the processes  *)
(* that work on them, for any number of jobs, classes, processes and       *)
(* attempts.                                                               *)
(***************************************************************************)
EXTENDS TaskWorkers, Integers, TLAPS

Workers == {HandlerOf(i) : i \in Classes} \union {NoOne}

JobStates == {"none", "waiting", "active", "completed", "failed"}
JobType == [state : JobStates,
            class : Classes \union {NoOne}, attempts : Int, stalled : Nat,
            by : Processes \union {NoOne}, returned : {"nothing", "value", "falsy", "error"}]
ProcessType == [state : {"up", "closing", "closed", "dead"},
                job : Jobs \union {NoOne}, worker : Workers]

TypeOK ==
  /\ id \in Ids
  /\ job \in [Jobs -> JobType]
  /\ process \in [Processes -> ProcessType]
  /\ fd \in [Processes -> {"none", "pending", "open", "failed"}]
  /\ unwritten \in [Processes -> SUBSET Jobs]
  /\ tried \in [Processes -> SUBSET Jobs]

\* What the queue does to the record of a job keeps it a record of a job.
LEMMA TriedType ==
  ASSUME NEW rec \in JobType
  PROVE  /\ FailedJob(rec) \in JobType
         /\ DiscardedJob(rec) \in JobType
         /\ CompletedJob(rec) \in JobType
<1>1. rec.attempts - 1 \in Int
  BY DEF JobType
<1>2. \A n \in Int : [rec EXCEPT !.attempts = n, !.by = NoOne] \in JobType
  BY DEF JobType
<1>3. Tried(rec) \in JobType
  BY <1>1, <1>2 DEF Tried
<1>. QED  BY <1>3 DEF JobType, JobStates, FailedJob, DiscardedJob, CompletedJob

\* ... and what of it the queue keeps.
LEMMA TriedKeeps ==
  ASSUME NEW rec \in JobType
  PROVE  /\ FailedJob(rec).state \in {"waiting", "failed"}
         /\ FailedJob(rec).stalled = rec.stalled /\ FailedJob(rec).returned = rec.returned
         /\ DiscardedJob(rec).state = "failed" /\ DiscardedJob(rec).class = rec.class
         /\ CompletedJob(rec).state = "completed"
         /\ CompletedJob(rec).stalled = rec.stalled /\ CompletedJob(rec).returned = rec.returned
<1>1. /\ Tried(rec).stalled = rec.stalled /\ Tried(rec).returned = rec.returned
      /\ Tried(rec).class = rec.class
      /\ DOMAIN Tried(rec) = DOMAIN rec
  BY DEF JobType, Tried
<1>2. \A s : LET new == [Tried(rec) EXCEPT !.state = s]
            IN  /\ new.state = s /\ new.stalled = rec.stalled
                /\ new.returned = rec.returned /\ new.class = rec.class
  BY <1>1 DEF JobType
<1>. QED  BY <1>2 DEF FailedJob, DiscardedJob, CompletedJob

\* A process that is done with its job.
LEMMA FreedType ==
  ASSUME NEW rec \in ProcessType
  PROVE  /\ Freed(rec) \in ProcessType
         /\ Freed(rec).job = NoOne /\ Freed(rec).worker = NoOne
         /\ rec.state = "dead" <=> Freed(rec).state = "dead"
<1>1. CASE rec.state = "closing"
  BY <1>1 DEF Freed, ProcessType, Workers
<1>2. CASE rec.state # "closing"
  BY <1>2 DEF Freed, ProcessType, Workers
<1>. QED  BY <1>1, <1>2

LEMMA TypesStep == TypeOK /\ [Next]_vars => TypeOK'
<1> SUFFICES ASSUME TypeOK, [Next]_vars PROVE TypeOK'
  OBVIOUS
<1> USE JobsAssumption DEF TypeOK
<1>1. id' = id
  BY DEF Next, Work, Enqueue, EnqueueInvalid, Stalls, TakeInvalid, Discarded, TakeUnknown,
         TakeKnown, Returns, StopWorker, LogWrites, LogFails, Killed, Restart, vars
<1>2. job' \in [Jobs -> JobType]
  <2> SUFFICES ASSUME NEW j \in Jobs, NEW rec \in JobType, job' = [job EXCEPT ![j] = rec]
               PROVE  job' \in [Jobs -> JobType]
    <3>1. ASSUME NEW j \in Jobs, Enqueue(j) \/ EnqueueInvalid(j)
          PROVE  \E rec \in JobType : job' = [job EXCEPT ![j] = rec]
      <4>1. \A class \in Classes \union {NoOne}, attempts \in Int :
                [NoJob EXCEPT !.state = "waiting", !.class = class, !.attempts = attempts]
                    \in JobType
        BY DEF NoJob, JobType, JobStates
      <4>2. \A attempts \in Int :
                [NoJob EXCEPT !.state = "waiting", !.attempts = attempts] \in JobType
        BY DEF NoJob, JobType, JobStates
      <4>3. 1..MaxAttempts \subseteq Int
        OBVIOUS
      <4>. QED  BY <3>1, <4>1, <4>2, <4>3 DEF Enqueue, EnqueueInvalid
    <3>2. ASSUME NEW j \in Jobs, Stalls(j)
          PROVE  \E rec \in JobType : job' = [job EXCEPT ![j] = rec]
      <4>1. \A n \in Nat, state \in JobStates :
                [job[j] EXCEPT !.stalled = n, !.by = NoOne, !.state = state] \in JobType
        BY DEF JobType
      <4>2. job[j].stalled + 1 \in Nat
        BY DEF JobType
      <4>3. (IF job[j].stalled = 0 THEN "waiting" ELSE "failed") \in JobStates
        BY DEF JobStates
      <4>. QED  BY <3>2, <4>1, <4>2, <4>3 DEF Stalls
    <3>3. ASSUME NEW p \in Processes, NEW j \in Jobs,
                 TakeInvalid(p, j) \/ TakeUnknown(p, j) \/ TakeKnown(p, j)
          PROVE  \E rec \in JobType : job' = [job EXCEPT ![j] = rec]
      BY <3>3 DEF TakeInvalid, TakeUnknown, TakeKnown, JobType, JobStates
    <3>4. ASSUME NEW p \in Processes, NEW j \in Jobs, Discarded(p, j)
          PROVE  \E rec \in JobType : job' = [job EXCEPT ![j] = rec]
      BY <3>4, TriedType DEF Discarded
    <3>5. ASSUME NEW p \in Processes, NEW j \in Jobs, Returns(p, j)
          PROVE  \E rec \in JobType : job' = [job EXCEPT ![j] = rec]
      <4>1. \A r \in {"value", "falsy", "error"} : [job[j] EXCEPT !.returned = r] \in JobType
        BY DEF JobType
      <4>. QED  BY <3>5, <4>1, TriedType DEF Returns
    <3>6. ASSUME NEW p \in Processes,
                 StopWorker(p) \/ LogWrites(p) \/ LogFails(p) \/ Killed(p) \/ Restart(p)
          PROVE  job' = job
      BY <3>6 DEF StopWorker, LogWrites, LogFails, Killed, Restart
    <3>. QED  BY <3>1, <3>2, <3>3, <3>4, <3>5, <3>6 DEF Next, Work, vars
  <2>. QED  OBVIOUS
<1>3. process' \in [Processes -> ProcessType]
  <2>1. ASSUME NEW p \in Processes, NEW j \in Jobs, TakeInvalid(p, j) \/ TakeUnknown(p, j)
        PROVE  process' \in [Processes -> ProcessType]
    BY <2>1 DEF TakeInvalid, TakeUnknown, ProcessType
  <2>2. ASSUME NEW p \in Processes, NEW j \in Jobs, TakeKnown(p, j)
        PROVE  process' \in [Processes -> ProcessType]
    <3>1. job[j].class \in Classes
      BY <2>2 DEF TakeKnown, JobType
    <3>2. HandlerOf(job[j].class) \in Workers
      BY <3>1 DEF Workers
    <3>. QED  BY <2>2, <3>2 DEF TakeKnown, ProcessType
  <2>3. ASSUME NEW p \in Processes, NEW j \in Jobs, Discarded(p, j) \/ Returns(p, j)
        PROVE  process' \in [Processes -> ProcessType]
    BY <2>3, FreedType DEF Discarded, Returns
  <2>5. ASSUME NEW p \in Processes, StopWorker(p) \/ Killed(p) \/ Restart(p)
        PROVE  process' \in [Processes -> ProcessType]
    BY <2>5 DEF StopWorker, Killed, Restart, Idle, ProcessType, Workers
  <2>6. CASE UNCHANGED process
    BY <2>6
  <2>. QED
    BY <2>1, <2>2, <2>3, <2>5, <2>6
       DEF Next, Work, Enqueue, EnqueueInvalid, Stalls, LogWrites, LogFails, vars
<1>4. /\ fd' \in [Processes -> {"none", "pending", "open", "failed"}]
      /\ unwritten' \in [Processes -> SUBSET Jobs]
      /\ tried' \in [Processes -> SUBSET Jobs]
  <2>1. ASSUME NEW p \in Processes, NEW j \in Jobs, TakeKnown(p, j) PROVE <1>4!:
    BY <2>1 DEF TakeKnown, Log
  <2>2. ASSUME NEW p \in Processes, LogWrites(p) PROVE <1>4!:
    BY <2>2 DEF LogWrites, FileOpens, WriteEnds
  <2>3. ASSUME NEW p \in Processes, LogFails(p) PROVE <1>4!:
    BY <2>3 DEF LogFails, OpenFails
  <2>4. ASSUME NEW p \in Processes, Killed(p) PROVE <1>4!:
    BY <2>4 DEF Killed, Reopened
  <2>5. CASE UNCHANGED logVars
    BY <2>5 DEF logVars
  <2>. QED
    BY <2>1, <2>2, <2>3, <2>4, <2>5
       DEF Next, Work, Enqueue, EnqueueInvalid, Stalls, TakeInvalid, Discarded, TakeUnknown,
           Returns, StopWorker, Restart, vars, logVars
<1>5. ProcessType' = ProcessType
  BY <1>1 DEF ProcessType, Workers, HandlerOf
<1>. QED  BY <1>1, <1>2, <1>3, <1>4, <1>5

\* The variables keep their types.
THEOREM WorkersTypes == Spec => []TypeOK
<1>1. Init => TypeOK
  BY JobsAssumption DEF Init, LogInit, TypeOK, NoJob, Idle, JobType, JobStates, ProcessType, Workers
<1>. QED  BY <1>1, TypesStep, PTL DEF Spec

-----------------------------------------------------------------------------
(***************************************************************************)
(* What the queue is told is what happened.  A process that lives holds    *)
(* the lock of the job it works on, so that no other process changes the   *)
(* job under it.                                                           *)
(***************************************************************************)
Held ==
  \A p \in Processes, j \in Jobs :
    Alive(p) /\ process[p].job = j => job[j].state = "active" /\ job[j].by = p

\* A step that changes one job at most, which nobody holds, and gives nobody a job,
\* keeps it so.
LEMMA HeldFrame ==
  ASSUME TypeOK, TypeOK', Held, NEW j \in Jobs,
         \A i \in Jobs \ {j} : job'[i] = job[i],
         \A p \in Processes : ~(Alive(p) /\ process[p].job = j),
         \A p \in Processes : Alive(p)' => /\ process'[p].job \in {process[p].job, NoOne}
                                           /\ process'[p].job # NoOne => Alive(p)
  PROVE  Held'
BY JobsAssumption DEF Held, TypeOK, ProcessType

LEMMA HeldStep == TypeOK /\ TypeOK' /\ Held /\ [Next]_vars => Held'
<1> SUFFICES ASSUME TypeOK, TypeOK', Held, [Next]_vars PROVE Held'
  OBVIOUS
<1> USE JobsAssumption DEF TypeOK, Alive
<1>1. ASSUME NEW j \in Jobs, Enqueue(j) \/ EnqueueInvalid(j) PROVE Held'
  <2>1. \A p \in Processes : ~(Alive(p) /\ process[p].job = j)
    BY <1>1 DEF Enqueue, EnqueueInvalid, Held
  <2>. QED  BY <1>1, <2>1, HeldFrame DEF Enqueue, EnqueueInvalid
<1>2. ASSUME NEW j \in Jobs, Stalls(j) PROVE Held'
  <2>1. \A p \in Processes : ~(Alive(p) /\ process[p].job = j)
    BY <1>2 DEF Stalls, Held
  <2>2. \A i \in Jobs \ {j} : job'[i] = job[i]
    BY <1>2 DEF Stalls
  <2>. QED  BY <1>2, <2>1, <2>2, HeldFrame DEF Stalls
<1>3. ASSUME NEW p \in Processes, NEW j \in Jobs,
             TakeInvalid(p, j) \/ TakeUnknown(p, j) \/ TakeKnown(p, j)
      PROVE  Held'
  <2>1. /\ job[j].state = "waiting"
        /\ job' = [job EXCEPT ![j].state = "active", ![j].by = p]
        /\ \A q \in Processes \ {p} : process'[q] = process[q]
    BY <1>3 DEF TakeInvalid, TakeUnknown, TakeKnown, Takes
  <2>3. process'[p].job = j
    BY <1>3 DEF TakeInvalid, TakeUnknown, TakeKnown, ProcessType
  <2>2. job'[j].state = "active" /\ job'[j].by = p /\ \A i \in Jobs \ {j} : job'[i] = job[i]
    BY <2>1 DEF JobType
  <2>. QED  BY <2>1, <2>2, <2>3 DEF Held
<1>5. ASSUME NEW p \in Processes, NEW j \in Jobs, Discarded(p, j) \/ Returns(p, j) PROVE Held'
  <2>1. /\ \A i \in Jobs \ {j} : job'[i] = job[i]
        /\ \A q \in Processes \ {p} : process'[q] = process[q]
        /\ Alive(p) /\ process[p].job = j
    BY <1>5 DEF Discarded, Returns
  <2>2. Alive(p)' => process'[p].job = NoOne
    BY <1>5, FreedType DEF Discarded, Returns
  <2>3. \A q \in Processes \ {p} : ~(Alive(q) /\ process[q].job = j)
    BY <2>1 DEF Held
  <2>. QED  BY <2>1, <2>2, <2>3 DEF Held
<1>6. ASSUME NEW p \in Processes, StopWorker(p) PROVE Held'
  <2>1. job' = job /\ \A q \in Processes : process'[q].job = process[q].job
                                           /\ (Alive(q)' => Alive(q))
    BY <1>6 DEF StopWorker, ProcessType
  <2>. QED  BY <2>1 DEF Held
<1>7. ASSUME NEW p \in Processes, Killed(p) \/ Restart(p) PROVE Held'
  <2>1. job' = job /\ \A q \in Processes \ {p} : process'[q] = process[q]
    BY <1>7 DEF Killed, Restart
  <2>2. process'[p].job = NoOne
    BY <1>7 DEF Killed, Restart, Idle
  <2>. QED  BY <2>1, <2>2 DEF Held
<1>8. CASE UNCHANGED <<job, process>>
  BY <1>8 DEF Held
<1>. QED
  BY <1>1, <1>2, <1>3, <1>5, <1>6, <1>7, <1>8 DEF Next, Work, LogWrites, LogFails, vars

\* One job, as the queue knows it: given away at most once before it is failed.
TrueOf(rec) ==
  /\ rec.state # "failed" => rec.stalled <= 1
  /\ rec.state = "completed" => rec.returned \in {"value", "falsy"}
  /\ rec.state = "failed" => rec.returned = "error" \/ rec.class = NoOne \/ rec.stalled = 2

LEMMA TrueStep ==
  TypeOK /\ Held /\ (\A j \in Jobs : TrueOf(job[j])) /\ [Next]_vars
    => \A j \in Jobs : TrueOf(job'[j])
<1> SUFFICES ASSUME TypeOK, Held, \A j \in Jobs : TrueOf(job[j]), [Next]_vars,
                    NEW i \in Jobs
             PROVE  TrueOf(job'[i])
  OBVIOUS
<1> USE DEF TypeOK
<1>1. TrueOf(job[i]) /\ job[i] \in JobType
  OBVIOUS
<1>2. CASE job'[i] = job[i]
  BY <1>1, <1>2
<1>3. CASE Enqueue(i) \/ EnqueueInvalid(i)
  <2>1. job'[i].state = "waiting" /\ job'[i].stalled = 0
    BY <1>3 DEF Enqueue, EnqueueInvalid, NoJob
  <2>. QED  BY <2>1 DEF TrueOf
<1>4. CASE Stalls(i)
  <2>1. /\ job[i].state = "active"
        /\ job'[i].stalled = job[i].stalled + 1
        /\ job'[i].state = IF job[i].stalled = 0 THEN "waiting" ELSE "failed"
    BY <1>1, <1>4 DEF Stalls, JobType
  <2>2. job[i].stalled \in Nat /\ job[i].stalled <= 1
    BY <1>1, <2>1 DEF TrueOf, JobType
  <2>3. \/ job'[i].state = "waiting" /\ job'[i].stalled = 1
        \/ job'[i].state = "failed" /\ job'[i].stalled = 2
    BY <2>1, <2>2
  <2>. QED  BY <2>3 DEF TrueOf
<1>5. ASSUME NEW p \in Processes, TakeInvalid(p, i) \/ TakeUnknown(p, i) \/ TakeKnown(p, i)
      PROVE  TrueOf(job'[i])
  <2>1. /\ job[i].state = "waiting"
        /\ job'[i].state = "active" /\ job'[i].stalled = job[i].stalled
    BY <1>1, <1>5 DEF TakeInvalid, TakeUnknown, TakeKnown, Takes, JobType
  <2>. QED  BY <1>1, <2>1 DEF TrueOf
<1>6. ASSUME NEW p \in Processes, Discarded(p, i) PROVE TrueOf(job'[i])
  <2>1. job'[i].state = "failed" /\ job'[i].class = NoOne
    BY <1>1, <1>6, TriedKeeps DEF Discarded
  <2>. QED  BY <2>1 DEF TrueOf
<1>7. ASSUME NEW p \in Processes, Returns(p, i) PROVE TrueOf(job'[i])
  <2>1. job[i].state = "active"
    BY <1>7 DEF Returns, Held
  <2>2. PICK returned \in {"value", "falsy", "error"} :
           LET rec == [job[i] EXCEPT !.returned = returned]
           IN  \/ returned # "error" /\ job'[i] = CompletedJob(rec)
               \/ returned = "error" /\ job'[i] = FailedJob(rec)
    BY <1>7 DEF Returns
  <2> DEFINE rec == [job[i] EXCEPT !.returned = returned]
  <2>3. rec \in JobType /\ rec.returned = returned /\ rec.stalled = job[i].stalled
    BY <1>1 DEF JobType
  <2> HIDE DEF rec
  <2>4. job'[i].stalled = job[i].stalled
    BY <2>2, <2>3, TriedKeeps DEF rec
  <2>5. \/ job'[i].state = "completed" /\ job'[i].returned \in {"value", "falsy"}
        \/ job'[i].state \in {"waiting", "failed"} /\ job'[i].returned = "error"
    BY <2>2, <2>3, TriedKeeps DEF rec
  <2>. QED  BY <1>1, <2>1, <2>4, <2>5 DEF TrueOf
<1>8. ASSUME NEW j \in Jobs, j # i,
             Enqueue(j) \/ EnqueueInvalid(j) \/ Stalls(j) \/ \E p \in Processes : Work(p, j)
      PROVE  job'[i] = job[i]
  BY <1>8 DEF Enqueue, EnqueueInvalid, Stalls, Work, TakeInvalid, Discarded, TakeUnknown,
              TakeKnown, Returns
<1>. QED
  BY <1>2, <1>3, <1>4, <1>5, <1>6, <1>7, <1>8
     DEF Next, Work, StopWorker, LogWrites, LogFails, Killed, Restart, vars

(***************************************************************************)
(* Whatever processes die, are stopped or are replaced: a job is completed *)
(* only if its method returned or threw a value that is false, and failed  *)
(* only if its method threw, it names no task, or two processes died of it.*)
(***************************************************************************)
THEOREM QueueHearsTheTruth == Spec => []OutcomeIsTrue
<1>1. Init => Held /\ \A j \in Jobs : TrueOf(job[j])
  BY JobsAssumption DEF Init, NoJob, Idle, Held, TrueOf
<1>2. (\A j \in Jobs : TrueOf(job[j])) => OutcomeIsTrue
  BY DEF TrueOf, OutcomeIsTrue
<1>3. TypeOK /\ TypeOK' /\ Held /\ (\A j \in Jobs : TrueOf(job[j])) /\ [Next]_vars
        => Held' /\ (\A j \in Jobs : TrueOf(job[j]))'
  BY HeldStep, TrueStep DEF TrueOf
<1>. QED  BY <1>1, <1>2, <1>3, WorkersTypes, PTL DEF Spec
-----------------------------------------------------------------------------
(***************************************************************************)
(* The log.  The descriptor of a process is asked for with its first line. *)
(* If it is refused no line waits for it any more; if not, the line of the *)
(* job under way waits, or its write was tried.                            *)
(***************************************************************************)
LogInv ==
  \A p \in Processes :
    /\ unwritten[p] # {} => fd[p] \in {"pending", "open"}
    /\ process[p].worker # NoOne /\ fd[p] # "failed" =>
         process[p].job \in unwritten[p] \union tried[p]

LEMMA LogStep == TypeOK /\ LogInv /\ [Next]_vars => LogInv'
<1> SUFFICES ASSUME TypeOK, LogInv, [Next]_vars, NEW p \in Processes
             PROVE  /\ unwritten'[p] # {} => fd'[p] \in {"pending", "open"}
                    /\ process'[p].worker # NoOne /\ fd'[p] # "failed" =>
                         process'[p].job \in unwritten'[p] \union tried'[p]
  BY DEF LogInv
<1> DEFINE Goal == /\ unwritten'[p] # {} => fd'[p] \in {"pending", "open"}
                   /\ process'[p].worker # NoOne /\ fd'[p] # "failed" =>
                        process'[p].job \in unwritten'[p] \union tried'[p]
<1> USE DEF TypeOK, LogInv, Alive
<1>1. ASSUME NEW j \in Jobs, TakeKnown(p, j) PROVE Goal
  <2>1. process[p] = Idle /\ process'[p].job = j
    BY <1>1 DEF TakeKnown, Takes, ProcessType
  <2>2. unwritten[p] # {} => fd[p] \in {"pending", "open"}
    BY <2>1 DEF Idle
  <2>. QED  BY <1>1, <2>1, <2>2 DEF TakeKnown, Log
<1>2. ASSUME LogWrites(p) PROVE Goal
  BY <1>2 DEF LogWrites, FileOpens, WriteEnds
<1>3. ASSUME LogFails(p) PROVE Goal
  BY <1>3 DEF LogFails, OpenFails
<1>4. ASSUME Restart(p) \/ Killed(p) PROVE Goal
  BY <1>4 DEF Killed, Reopened, Restart, Idle, logVars
<1>5. ASSUME NEW j \in Jobs, TakeInvalid(p, j) \/ TakeUnknown(p, j) PROVE Goal
  BY <1>5 DEF TakeInvalid, TakeUnknown, Takes, ProcessType, logVars, Idle
<1>7. ASSUME NEW j \in Jobs, Discarded(p, j) \/ Returns(p, j) PROVE Goal
  <2>1. process'[p].worker = NoOne
    BY <1>7, FreedType DEF Discarded, Returns
  <2>2. unwritten'[p] = unwritten[p] /\ fd'[p] = fd[p]
    BY <1>7 DEF Discarded, Returns, logVars
  <2>. QED  BY <2>1, <2>2
<1>8. ASSUME StopWorker(p) PROVE Goal
  BY <1>8 DEF StopWorker, ProcessType, logVars
<1>9. CASE /\ process'[p] = process[p] /\ fd'[p] = fd[p]
           /\ unwritten'[p] = unwritten[p] /\ tried'[p] = tried[p]
  BY <1>9
<1>10. ASSUME NEW q \in Processes, q # p,
              \/ StopWorker(q) \/ LogWrites(q) \/ LogFails(q) \/ Killed(q) \/ Restart(q)
              \/ \E j \in Jobs : Work(q, j)
       PROVE  /\ process'[p] = process[p] /\ fd'[p] = fd[p]
              /\ unwritten'[p] = unwritten[p] /\ tried'[p] = tried[p]
  BY <1>10 DEF StopWorker, LogWrites, FileOpens, WriteEnds, LogFails, OpenFails, Killed,
               Restart, Reopened, Work, TakeInvalid, Discarded, TakeUnknown, TakeKnown, Log,
               Returns, logVars
<1>. QED
  BY <1>1, <1>2, <1>3, <1>4, <1>5, <1>7, <1>8, <1>9, <1>10
     DEF Next, Work, Enqueue, EnqueueInvalid, Stalls, vars, logVars

(***************************************************************************)
(* The write of the line a living process logged last is under way or was  *)
(* tried, in whatever order its file opens and its writes end or fail,     *)
(* unless the file could not be opened.                                    *)
(***************************************************************************)
THEOREM LinesAreKept == Spec => []NoLineIsDropped
<1>1. Init => LogInv
  BY DEF Init, LogInit, Idle, LogInv
<1>2. TypeOK /\ LogInv => NoLineIsDropped
  BY DEF TypeOK, LogInv, NoLineIsDropped
<1>. QED  BY <1>1, <1>2, LogStep, WorkersTypes, PTL DEF Spec
=============================================================================
