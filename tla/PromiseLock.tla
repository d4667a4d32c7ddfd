----------------------------- MODULE PromiseLock -----------------------------
(***************************************************************************)
(* Lock and ZoneLock of @alterior/common: callbacks are serialised by a    *)
(* chain of promises.  Each run() captures the promise at the end of the   *)
(* chain (pred), puts its own promise there (ready), waits for the         *)
(* captured one, executes the callback, and resolves its own promise       *)
(* whether the callback succeeded or not.                                  *)
(*                                                                         *)
(* A ZoneLock executes the callback inside an AsyncZone.  What it waits    *)
(* for is not the promise of the callback: it is the first moment at which *)
(* the zone has no task left, or the first error the zone reports: of the  *)
(* callback, of one of its timers, or of a promise nobody awaits.          *)
(***************************************************************************)
EXTENDS Naturals

CONSTANTS Calls,        \* the invocations of run()
          None,         \* the undefined initial value of _ready
          Outside,      \* a promise settled by code outside the callback's zone
          Reentrant,    \* calls whose callback may call run() again and await it
          MaxTasks      \* bound: macrotasks one callback has pending at once

ASSUME NamesAssumption == None \notin Calls /\ Outside \notin Calls /\ None # Outside
ASSUME ConfigAssumption == Reentrant \subseteq Calls /\ MaxTasks \in Nat

VARIABLES zoned,     \* the lock is a ZoneLock
          ready,     \* Lock._ready: whose promise is last in the chain
          pred,      \* the promise each call captured in `let ready`
          pc,        \* progress of each run()
          body,      \* progress of its callback
          failed,    \* an error came out of the callback, or of its zone, before run() was over
          result,    \* when run() ended: after its callback or before it ("early")
          awaits,    \* what a callback is suspended on
          tasks,     \* macrotasks a callback spawned and that have not run
          ticket,    \* history: position of the call in call order, 0 before
          issued     \* history: number of calls made

vars == <<zoned, ready, pred, pc, body, failed, result, awaits, tasks, ticket, issued>>

Outcomes == {"value", "error"}

TypeOK ==
    /\ zoned \in BOOLEAN
    /\ ready \in Calls \cup {None}
    /\ pred \in [Calls -> Calls \cup {None}]
    /\ pc \in [Calls -> {"idle", "queued", "executing", "resolved", "done"}]
    /\ body \in [Calls -> {"before", "active", "over"}]
    /\ failed \in [Calls -> BOOLEAN]
    /\ result \in [Calls -> {"pending", "ended", "early"}]
    /\ awaits \in [Calls -> Calls \cup {None, Outside}]
    /\ tasks \in [Calls -> 0..MaxTasks]
    /\ ticket \in [Calls -> Nat]
    /\ issued \in Nat

Init ==
    /\ zoned \in BOOLEAN
    /\ ready = None
    /\ pred = [c \in Calls |-> None]
    /\ pc = [c \in Calls |-> "idle"]
    /\ body = [c \in Calls |-> "before"]
    /\ failed = [c \in Calls |-> FALSE]
    /\ result = [c \in Calls |-> "pending"]
    /\ awaits = [c \in Calls |-> None]
    /\ tasks = [c \in Calls |-> 0]
    /\ ticket = [c \in Calls |-> 0]
    /\ issued = 0

Released(c) == pc[c] \in {"resolved", "done"}

\* The callback is suspended: what it awaits has not settled.
Suspended(c) == /\ awaits[c] # None
                /\ awaits[c] \in Calls => pc[awaits[c]] # "done"

\* The synchronous part of run(): capture _ready, replace it, suspend.
Enqueue(c) ==
    /\ pc[c] = "idle"
    /\ pred' = [pred EXCEPT ![c] = ready]
    /\ ready' = c
    /\ pc' = [pc EXCEPT ![c] = "queued"]
    /\ issued' = issued + 1
    /\ ticket' = [ticket EXCEPT ![c] = issued + 1]
    /\ UNCHANGED <<zoned, body, failed, result, tasks>>

\* run() called by code that does not await it inside a callback of this lock.
Run(c) == Enqueue(c) /\ UNCHANGED awaits

\* The callback of d calls run() on the same lock and awaits the result.
RunNested(d, c) ==
    /\ d \in Reentrant /\ body[d] = "active" /\ awaits[d] = None
    /\ Enqueue(c)
    /\ awaits' = [awaits EXCEPT ![d] = c]

\* Variant: the captured promise is not awaited.
StartAtOnce(c) ==
    /\ pc[c] = "queued"
    /\ pc' = [pc EXCEPT ![c] = "executing"]
    /\ body' = [body EXCEPT ![c] = "active"]
    /\ UNCHANGED <<zoned, ready, pred, failed, result, awaits, tasks, ticket, issued>>

\* `await ready` continues once the captured promise is resolved.
Start(c) ==
    /\ pc[c] = "queued"
    /\ pred[c] # None => Released(pred[c])
    /\ pc' = [pc EXCEPT ![c] = "executing"]
    /\ body' = [body EXCEPT ![c] = "active"]
    /\ UNCHANGED <<zoned, ready, pred, failed, result, awaits, tasks, ticket, issued>>

\* The callback awaits a promise that other code settles, and later continues.
AwaitOutside(c) ==
    /\ body[c] = "active" /\ awaits[c] = None
    /\ awaits' = [awaits EXCEPT ![c] = Outside]
    /\ UNCHANGED <<zoned, ready, pred, pc, body, failed, result, tasks, ticket, issued>>

OutsideSettles(c) ==
    /\ awaits[c] = Outside
    /\ awaits' = [awaits EXCEPT ![c] = None]
    /\ UNCHANGED <<zoned, ready, pred, pc, body, failed, result, tasks, ticket, issued>>

\* The callback calls setTimeout() or the like and goes on.  Only a zone keeps count.
Spawn(c) ==
    /\ zoned /\ body[c] = "active" /\ ~Suspended(c) /\ tasks[c] < MaxTasks
    /\ tasks' = [tasks EXCEPT ![c] = @ + 1]
    /\ UNCHANGED <<zoned, ready, pred, pc, body, failed, result, awaits, ticket, issued>>

\* An error reaches run(), which has no use for it once it is over.
Report(c) == failed' = [failed EXCEPT ![c] = @ \/ pc[c] = "executing"]

\* A task of the zone runs.  One that throws is gone all the same.
TaskFires(c, o) ==
    /\ tasks[c] > 0
    /\ tasks' = [tasks EXCEPT ![c] = @ - 1]
    /\ IF o = "error" THEN Report(c) ELSE UNCHANGED failed
    /\ UNCHANGED <<zoned, ready, pred, pc, body, result, awaits, ticket, issued>>

\* A promise of the zone that nobody awaits rejects.  The zone reports it when it
\* has run its microtasks; with no other task left it is stable before that.
StrayRejects(c) ==
    /\ tasks[c] > 0
    /\ Report(c)
    /\ UNCHANGED <<zoned, ready, pred, pc, body, result, awaits, tasks, ticket, issued>>

\* The promise of the callback settles.
Settle(c, o) ==
    /\ body[c] = "active" /\ ~Suspended(c)
    /\ body' = [body EXCEPT ![c] = "over"]
    /\ IF o = "error" THEN Report(c) ELSE UNCHANGED failed
    /\ UNCHANGED <<zoned, ready, pred, pc, result, awaits, tasks, ticket, issued>>

\* The promise of the call resolves, whether it ended with a value or an error.
Resolve(c) ==
    /\ pc[c] = "executing"
    /\ pc' = [pc EXCEPT ![c] = "resolved"]
    /\ result' = [result EXCEPT ![c] = IF body[c] = "over" THEN "ended" ELSE "early"]
    /\ UNCHANGED <<zoned, ready, pred, body, failed, awaits, tasks, ticket, issued>>

\* Variant: resolve() stands inside the try block and is skipped when the callback fails.
ReleaseOnSuccess(c) ==
    /\ ~zoned
    /\ body[c] = "over" /\ ~failed[c]
    /\ Resolve(c)

\* Lock: the callback is over.
Release(c) ==
    /\ ~zoned
    /\ body[c] = "over"
    /\ Resolve(c)

\* Variant: macrotasks are not counted.
ReleaseIgnoringTasks(c) ==
    /\ zoned
    /\ body[c] = "over" \/ (body[c] = "active" /\ Suspended(c))
    /\ Resolve(c)

\* ZoneLock: the zone emits onStable when its last task has run, also while the
\* callback is suspended on a promise that keeps no task of the zone pending.
ReleaseStable(c) ==
    /\ zoned
    /\ tasks[c] = 0 /\ ~failed[c]
    /\ body[c] = "over" \/ (body[c] = "active" /\ Suspended(c))
    /\ Resolve(c)

\* ZoneLock: any error of the zone rejects, whatever is still running there.  (A
\* rejected callback that leaves no task behind makes the zone stable first: run()
\* is over all the same.)
ReleaseFailed(c) ==
    /\ zoned
    /\ failed[c]
    /\ Resolve(c)

\* The caller of run() continues after `await this._ready`.
Resume(c) ==
    /\ pc[c] = "resolved"
    /\ pc' = [pc EXCEPT ![c] = "done"]
    /\ UNCHANGED <<zoned, ready, pred, body, failed, result, awaits, tasks, ticket, issued>>

Next == \E c \in Calls :
            \/ Run(c)
            \/ \E d \in Calls : RunNested(d, c)
            \/ Start(c)
            \/ AwaitOutside(c)
            \/ OutsideSettles(c)
            \/ Spawn(c)
            \/ \E o \in Outcomes : TaskFires(c, o)
            \/ StrayRejects(c)
            \/ \E o \in Outcomes : Settle(c, o)
            \/ Release(c)
            \/ ReleaseStable(c)
            \/ ReleaseFailed(c)
            \/ Resume(c)

\* The event loop runs every promise reaction and every timer.  Callers need
\* never call.  A callback awaits finitely many things and each of them answers,
\* hence strong fairness: a callback that can end again and again does end.
Fairness == \A c \in Calls :
                /\ WF_vars(Start(c))
                /\ WF_vars(\E o \in Outcomes : TaskFires(c, o))
                /\ WF_vars(OutsideSettles(c))
                /\ SF_vars(\E o \in Outcomes : Settle(c, o))
                /\ WF_vars(Release(c) \/ ReleaseStable(c) \/ ReleaseFailed(c))
                /\ WF_vars(Resume(c))

Spec == Init /\ [][Next]_vars /\ Fairness
-----------------------------------------------------------------------------
(***************************************************************************)
(* Properties                                                              *)
(***************************************************************************)
\* What the callback of c can still do: run, or have one of its timers run.
Active(c) == body[c] = "active" \/ tasks[c] > 0

Before(c, d) == 0 < ticket[c] /\ ticket[c] < ticket[d]

\* Lock: no two callbacks are in progress at once, however the promise chain,
\* the failures of earlier callbacks and nested calls interleave.
MutualExclusion ==
    ~zoned => \A c, d \in Calls : body[c] = "active" /\ body[d] = "active" => c = d

\* Lock and ZoneLock: a callback starts only when every run() called earlier,
\* not only the one just before it in the chain, has resolved.
CallOrder ==
    \A c, d \in Calls : Before(c, d) /\ body[d] # "before" => Released(c)

\* ZoneLock: two callbacks overlap, timers included, only if the zone of the older
\* one reported an error (of the callback, of any timer or of a promise nobody
\* awaits) or its callback was suspended on something its zone does not track.
ZoneExclusion ==
    zoned => \A c, d \in Calls : Before(c, d) /\ Active(c) /\ Active(d) =>
                 failed[c] \/ result[c] = "early"

\* Every call made is served and answered, whatever became of the calls before
\* it: a failed callback does not break the chain.  The exception is a Lock with a
\* callback that awaits a call on that lock.  A ZoneLock has no exception.
EveryCallServed ==
    \A c \in Calls : pc[c] = "queued" ~>
        pc[c] = "done" \/ (~zoned /\ \E d \in Calls : awaits[d] \in Calls)
=============================================================================
