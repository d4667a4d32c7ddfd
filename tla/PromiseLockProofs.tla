-------------------------- MODULE PromiseLockProofs --------------------------
(***************************************************************************)
(* For any number of calls: Lock serialises its callbacks, both locks      *)
(* start callbacks in call order and implement a first-come first-served   *)
(* mutex, and the callbacks of a ZoneLock overlap for two reasons only.    *)
(***************************************************************************)
EXTENDS PromiseLockFifo, TLAPS

(***************************************************************************)
(* The variables range over the sets the code keeps them in.               *)
(***************************************************************************)
THEOREM TypeCorrect == Spec => []TypeOK
<1>1. Init => TypeOK
  BY NamesAssumption, ConfigAssumption DEF Init, TypeOK
<1>2. TypeOK /\ [Next]_vars => TypeOK'
  <2> SUFFICES ASSUME TypeOK, [Next]_vars
               PROVE  TypeOK'
    OBVIOUS
  <2> USE NamesAssumption, ConfigAssumption DEF TypeOK
  <2>1. ASSUME NEW c \in Calls, Run(c) PROVE TypeOK'
    BY <2>1 DEF Run, Enqueue
  <2>2. ASSUME NEW c \in Calls, NEW d \in Calls, RunNested(d, c) PROVE TypeOK'
    BY <2>2 DEF RunNested, Enqueue
  <2>3. ASSUME NEW c \in Calls, Start(c) PROVE TypeOK'
    BY <2>3 DEF Start
  <2>4. ASSUME NEW c \in Calls, AwaitOutside(c) \/ OutsideSettles(c) PROVE TypeOK'
    BY <2>4 DEF AwaitOutside, OutsideSettles
  <2>5. ASSUME NEW c \in Calls, NEW o \in Outcomes,
               Spawn(c) \/ TaskFires(c, o) \/ StrayRejects(c)
        PROVE  TypeOK'
    <3>1. CASE Spawn(c)
      BY <3>1 DEF Spawn
    <3>2. CASE TaskFires(c, o)
      <4>1. failed' \in [Calls -> BOOLEAN]
        <5>1. failed' = failed \/ Report(c)
          BY <3>2 DEF TaskFires
        <5>. QED  BY <5>1 DEF Report
      <4>2. /\ tasks[c] > 0 /\ tasks' = [tasks EXCEPT ![c] = @ - 1]
            /\ UNCHANGED <<zoned, ready, pred, pc, body, result, awaits, ticket, issued>>
        BY <3>2 DEF TaskFires
      <4>3. tasks[c] - 1 \in 0..MaxTasks
        BY <4>2
      <4>4. tasks' \in [Calls -> 0..MaxTasks]
        BY <4>2, <4>3
      <4>. QED  BY <4>1, <4>2, <4>4
    <3>3. CASE StrayRejects(c)
      BY <3>3 DEF StrayRejects, Report
    <3>. QED  BY <2>5, <3>1, <3>2, <3>3
  <2>6. ASSUME NEW c \in Calls, NEW o \in Outcomes, Settle(c, o) PROVE TypeOK'
    BY <2>6 DEF Settle, Report
  <2>7. ASSUME NEW c \in Calls, Resolve(c) PROVE TypeOK'
    BY <2>7 DEF Resolve
  <2>8. ASSUME NEW c \in Calls, Release(c) \/ ReleaseStable(c) \/ ReleaseFailed(c)
        PROVE  TypeOK'
    BY <2>7, <2>8 DEF Release, ReleaseStable, ReleaseFailed
  <2>9. ASSUME NEW c \in Calls, Resume(c) PROVE TypeOK'
    BY <2>9 DEF Resume
  <2>10. CASE UNCHANGED vars
    BY <2>10 DEF vars
  <2>. QED
    BY <2>1, <2>2, <2>3, <2>4, <2>5, <2>6, <2>8, <2>9, <2>10 DEF Next, Outcomes
<1>. QED  BY <1>1, <1>2, PTL DEF Spec

-----------------------------------------------------------------------------
(***************************************************************************)
(* The inductive invariant.  Tickets number the calls without gaps, pred   *)
(* links each call to the one with the ticket before it, and _ready is the *)
(* last one.  Waiting for the direct predecessor alone is enough because   *)
(* a call that started left no unresolved call behind it.                  *)
(***************************************************************************)
Numbered ==
    /\ \A c \in Calls : (pc[c] = "idle" <=> ticket[c] = 0) /\ ticket[c] <= issued
    /\ \A c, d \in Calls : ticket[c] = ticket[d] /\ ticket[c] # 0 => c = d
    /\ issued > 0 => ready \in Calls /\ ticket[ready] = issued

Chained ==
    \A c \in Calls : ticket[c] > 1 => pred[c] \in Calls /\ ticket[pred[c]] = ticket[c] - 1

Started(c) == pc[c] \in {"executing", "resolved", "done"}

Ordered ==
    /\ \A c \in Calls : body[c] # "before" => Started(c)
    /\ \A c, d \in Calls : Before(c, d) /\ Started(d) => Released(c)

ChainInv == Numbered /\ Chained /\ Ordered

(***************************************************************************)
(* A step that leaves the chain alone and moves no call back, and starts   *)
(* none, preserves the invariant.                                          *)
(***************************************************************************)
LEMMA ChainFrame ==
  ASSUME TypeOK, ChainInv,
         UNCHANGED <<ready, pred, ticket, issued>>,
         \A c \in Calls : /\ pc[c] = "idle" <=> pc'[c] = "idle"
                          /\ Started(c)' => Started(c)
                          /\ Released(c) => Released(c)'
                          /\ body'[c] # "before" => Started(c)'
  PROVE  ChainInv'
BY DEF TypeOK, ChainInv, Numbered, Chained, Ordered, Before

LEMMA EnqueueKeepsChain ==
  ASSUME TypeOK, ChainInv, NEW c \in Calls, Enqueue(c)
  PROVE  ChainInv'
<1> USE DEF TypeOK
<1>1. /\ ready' = c /\ issued' = issued + 1
      /\ pred' = [pred EXCEPT ![c] = ready]
      /\ ticket' = [ticket EXCEPT ![c] = issued + 1]
      /\ pc' = [pc EXCEPT ![c] = "queued"]
      /\ body' = body /\ pc[c] = "idle" /\ ticket[c] = 0
  BY DEF Enqueue, ChainInv, Numbered
<1>2. Numbered'
  BY <1>1 DEF ChainInv, Numbered
<1>3. Chained'
  <2> SUFFICES ASSUME NEW d \in Calls, ticket'[d] > 1
               PROVE  pred'[d] \in Calls /\ ticket'[pred'[d]] = ticket'[d] - 1
    BY DEF Chained
  <2>1. CASE d = c
    BY <1>1, <2>1 DEF ChainInv, Numbered
  <2>2. CASE d # c
    <3>1. pred[d] \in Calls /\ ticket[pred[d]] = ticket[d] - 1 /\ ticket[d] > 1
      BY <1>1, <2>2 DEF ChainInv, Chained
    <3>2. pred[d] # c
      BY <1>1, <3>1
    <3>. QED  BY <1>1, <2>2, <3>1, <3>2
  <2>. QED  BY <2>1, <2>2
<1>4. Ordered'
  <2>1. \A d \in Calls : Started(d)' <=> Started(d)
    BY <1>1 DEF Started
  <2>2. \A d \in Calls : Released(d)' <=> Released(d)
    BY <1>1 DEF Released
  <2>3. ASSUME NEW b \in Calls, NEW d \in Calls, Before(b, d)', Started(d)'
        PROVE  Released(b)'
    <3>1. d # c
      BY <1>1, <2>1, <2>3 DEF Started
    <3>2. ticket'[d] = ticket[d] /\ ticket[d] <= issued
      BY <1>1, <3>1 DEF ChainInv, Numbered
    <3>3. b # c
      BY <1>1, <2>3, <3>2 DEF Before
    <3>. QED  BY <1>1, <2>1, <2>2, <2>3, <3>1, <3>3 DEF Before, ChainInv, Ordered
  <2>. QED  BY <1>1, <2>1, <2>3 DEF ChainInv, Ordered
<1>. QED  BY <1>2, <1>3, <1>4 DEF ChainInv

LEMMA StartKeepsChain ==
  ASSUME TypeOK, ChainInv, NEW c \in Calls, Start(c)
  PROVE  ChainInv'
<1> USE NamesAssumption DEF TypeOK
<1>1. /\ UNCHANGED <<ready, pred, ticket, issued>>
      /\ pc[c] = "queued" /\ pc' = [pc EXCEPT ![c] = "executing"]
      /\ body' = [body EXCEPT ![c] = "active"]
      /\ ticket[c] > 0
      /\ pred[c] # None => Released(pred[c])
  BY DEF Start, ChainInv, Numbered
<1>2. Numbered' /\ Chained'
  BY <1>1 DEF ChainInv, Numbered, Chained
<1>3. ASSUME NEW b \in Calls, Before(b, c) PROVE Released(b)
  <2>1. pred[c] \in Calls /\ ticket[pred[c]] = ticket[c] - 1
    BY <1>1, <1>3 DEF Before, ChainInv, Chained
  <2>2. Released(pred[c])
    BY <1>1, <2>1
  <2>3. CASE ticket[b] = ticket[c] - 1
    BY <1>3, <2>1, <2>2, <2>3 DEF Before, ChainInv, Numbered
  <2>4. CASE ticket[b] # ticket[c] - 1
    BY <1>3, <2>1, <2>2, <2>4 DEF Before, Released, Started, ChainInv, Ordered
  <2>. QED  BY <2>3, <2>4
<1>4. Ordered'
  <2>1. \A d \in Calls : Released(d)' <=> Released(d)
    BY <1>1 DEF Released
  <2>2. \A d \in Calls : Started(d)' <=> Started(d) \/ d = c
    BY <1>1 DEF Started
  <2>. QED  BY <1>1, <1>3, <2>1, <2>2 DEF ChainInv, Ordered, Before
<1>. QED  BY <1>2, <1>4 DEF ChainInv

LEMMA ChainInvariant == Spec => []ChainInv
<1>1. Init => ChainInv
  BY DEF Init, ChainInv, Numbered, Chained, Ordered, Started, Before
<1>2. TypeOK /\ ChainInv /\ [Next]_vars => ChainInv'
  <2> SUFFICES ASSUME TypeOK, ChainInv, [Next]_vars
               PROVE  ChainInv'
    OBVIOUS
  <2>1. ASSUME NEW c \in Calls, Run(c) PROVE ChainInv'
    BY <2>1, EnqueueKeepsChain DEF Run
  <2>2. ASSUME NEW c \in Calls, NEW d \in Calls, RunNested(d, c) PROVE ChainInv'
    BY <2>2, EnqueueKeepsChain DEF RunNested
  <2>3. ASSUME NEW c \in Calls, Start(c) PROVE ChainInv'
    BY <2>3, StartKeepsChain
  <2>4. \A c \in Calls : body[c] # "before" => Started(c)
    BY DEF ChainInv, Ordered
  <2>5. ASSUME NEW c \in Calls,
               \/ AwaitOutside(c) \/ OutsideSettles(c) \/ Spawn(c) \/ StrayRejects(c)
               \/ \E o \in Outcomes : TaskFires(c, o)
        PROVE  ChainInv'
    BY <2>4, <2>5, ChainFrame
       DEF AwaitOutside, OutsideSettles, Spawn, StrayRejects, TaskFires, Started, Released
  <2>6. ASSUME NEW c \in Calls, NEW o \in Outcomes, Settle(c, o) PROVE ChainInv'
    BY <2>4, <2>6, ChainFrame DEF Settle, Started, Released, TypeOK
  <2>7. ASSUME NEW c \in Calls, Resolve(c) PROVE ChainInv'
    BY <2>4, <2>7, ChainFrame DEF Resolve, Started, Released, TypeOK
  <2>8. ASSUME NEW c \in Calls, Release(c) \/ ReleaseStable(c) \/ ReleaseFailed(c)
        PROVE  ChainInv'
    BY <2>7, <2>8 DEF Release, ReleaseStable, ReleaseFailed
  <2>9. ASSUME NEW c \in Calls, Resume(c) PROVE ChainInv'
    BY <2>4, <2>9, ChainFrame DEF Resume, Started, Released, TypeOK
  <2>10. CASE UNCHANGED vars
    BY <2>4, <2>10, ChainFrame DEF vars, Started, Released
  <2>. QED
    BY <2>1, <2>2, <2>3, <2>5, <2>6, <2>8, <2>9, <2>10 DEF Next
<1>. QED  BY <1>1, <1>2, TypeCorrect, PTL DEF Spec

(***************************************************************************)
(* Both locks run callbacks in call order: when one starts, the run() of   *)
(* every earlier call has resolved.                                        *)
(***************************************************************************)
THEOREM CallOrderHolds == Spec => []CallOrder
<1>1. ChainInv => CallOrder
  BY DEF ChainInv, Ordered, CallOrder
<1>. QED  BY <1>1, ChainInvariant, PTL

-----------------------------------------------------------------------------
\* A plain Lock resolves a run() only after its callback.
ReleasedIsOver == ~zoned => \A c \in Calls : Released(c) => body[c] = "over"

LEMMA ReleasedIsOverHolds == Spec => []ReleasedIsOver
<1>1. Init => ReleasedIsOver
  BY DEF Init, ReleasedIsOver, Released
<1>2. TypeOK /\ ReleasedIsOver /\ [Next]_vars => ReleasedIsOver'
  <2> SUFFICES ASSUME TypeOK, ReleasedIsOver, [Next]_vars
               PROVE  ReleasedIsOver'
    OBVIOUS
  <2> USE DEF TypeOK, ReleasedIsOver, Released
  <2>1. ASSUME NEW c \in Calls, Enqueue(c) PROVE ReleasedIsOver'
    BY <2>1 DEF Enqueue
  <2>2. ASSUME NEW c \in Calls, Start(c) PROVE ReleasedIsOver'
    BY <2>2 DEF Start
  <2>3. ASSUME NEW c \in Calls,
               \/ AwaitOutside(c) \/ OutsideSettles(c) \/ Spawn(c) \/ StrayRejects(c)
               \/ \E o \in Outcomes : TaskFires(c, o)
        PROVE  ReleasedIsOver'
    BY <2>3 DEF AwaitOutside, OutsideSettles, Spawn, StrayRejects, TaskFires
  <2>4. ASSUME NEW c \in Calls, NEW o \in Outcomes, Settle(c, o) PROVE ReleasedIsOver'
    BY <2>4 DEF Settle
  <2>5. ASSUME NEW c \in Calls, Release(c) PROVE ReleasedIsOver'
    BY <2>5 DEF Release, Resolve
  <2>6. ASSUME NEW c \in Calls, ReleaseStable(c) \/ ReleaseFailed(c) PROVE ReleasedIsOver'
    BY <2>6 DEF ReleaseStable, ReleaseFailed, Resolve
  <2>7. ASSUME NEW c \in Calls, Resume(c) PROVE ReleasedIsOver'
    BY <2>7 DEF Resume
  <2>8. CASE UNCHANGED vars
    BY <2>8 DEF vars
  <2>. QED
    BY <2>1, <2>2, <2>3, <2>4, <2>5, <2>6, <2>7, <2>8
       DEF Next, Run, RunNested
<1>. QED  BY <1>1, <1>2, TypeCorrect, PTL DEF Spec

(***************************************************************************)
(* The callbacks of a Lock never overlap, for any number of callers and    *)
(* any pattern of failures and nested calls.                               *)
(***************************************************************************)
THEOREM LockExcludes == Spec => []MutualExclusion
<1>1. TypeOK /\ ChainInv /\ ReleasedIsOver => MutualExclusion
  <2> SUFFICES ASSUME TypeOK, ChainInv, ReleasedIsOver,
                      ~zoned, NEW c \in Calls, NEW d \in Calls,
                      body[c] = "active", body[d] = "active", c # d
               PROVE  FALSE
    BY DEF MutualExclusion
  <2>1. ticket[c] \in Nat \ {0} /\ ticket[d] \in Nat \ {0} /\ ticket[c] # ticket[d]
    BY DEF TypeOK, ChainInv, Numbered, Ordered, Started
  <2>2. Before(c, d) \/ Before(d, c)
    BY <2>1 DEF Before
  <2>3. Released(c) \/ Released(d)
    BY <2>2 DEF ChainInv, Ordered
  <2>. QED  BY <2>3 DEF ReleasedIsOver
<1>. QED  BY <1>1, TypeCorrect, ChainInvariant, ReleasedIsOverHolds, PTL

-----------------------------------------------------------------------------
(***************************************************************************)
(* What a ZoneLock leaves behind when it resolves a run(): nothing, unless *)
(* its zone reported an error or the callback had not ended.               *)
(***************************************************************************)
LeavesNothing ==
    /\ \A c \in Calls : tasks[c] > 0 => body[c] # "before"
    /\ zoned => \A c \in Calls : Released(c) =>
                    \/ failed[c]
                    \/ result[c] = "early"
                    \/ ~Active(c)

LEMMA LeavesNothingHolds == Spec => []LeavesNothing
<1>1. TypeOK /\ Init => LeavesNothing
  BY DEF TypeOK, Init, LeavesNothing, Released
<1>2. TypeOK /\ TypeOK' /\ ChainInv /\ LeavesNothing /\ [Next]_vars => LeavesNothing'
  <2> SUFFICES ASSUME TypeOK, TypeOK', ChainInv, LeavesNothing, [Next]_vars
               PROVE  LeavesNothing'
    OBVIOUS
  <2> USE DEF TypeOK, LeavesNothing, Released, Active
  <2>1. ASSUME NEW c \in Calls, Enqueue(c) PROVE LeavesNothing'
    BY <2>1 DEF Enqueue
  <2>2. ASSUME NEW c \in Calls, Start(c) PROVE LeavesNothing'
    <3>1. body[c] = "before"
      BY <2>2 DEF Start, ChainInv, Ordered, Started
    <3>. QED  BY <2>2, <3>1 DEF Start
  <2>3. ASSUME NEW c \in Calls, AwaitOutside(c) \/ OutsideSettles(c) PROVE LeavesNothing'
    BY <2>3 DEF AwaitOutside, OutsideSettles
  <2>4. ASSUME NEW c \in Calls, Spawn(c) PROVE LeavesNothing'
    BY <2>4 DEF Spawn
  <2>5. ASSUME NEW c \in Calls, StrayRejects(c) \/ \E o \in Outcomes : TaskFires(c, o)
        PROVE  LeavesNothing'
    BY <2>5 DEF StrayRejects, TaskFires, Report
  <2>6. ASSUME NEW c \in Calls, NEW o \in Outcomes, Settle(c, o) PROVE LeavesNothing'
    BY <2>6 DEF Settle, Report
  <2>7. ASSUME NEW c \in Calls, Release(c) PROVE LeavesNothing'
    BY <2>7 DEF Release, Resolve
  <2>8. ASSUME NEW c \in Calls, ReleaseStable(c) PROVE LeavesNothing'
    BY <2>8 DEF ReleaseStable, Resolve
  <2>9. ASSUME NEW c \in Calls, ReleaseFailed(c) PROVE LeavesNothing'
    BY <2>9 DEF ReleaseFailed, Resolve
  <2>10. ASSUME NEW c \in Calls, Resume(c) PROVE LeavesNothing'
    BY <2>10 DEF Resume
  <2>11. CASE UNCHANGED vars
    BY <2>11 DEF vars
  <2>. QED
    BY <2>1, <2>2, <2>3, <2>4, <2>5, <2>6, <2>7, <2>8, <2>9, <2>10, <2>11
       DEF Next, Run, RunNested
<1>. QED  BY <1>1, <1>2, TypeCorrect, ChainInvariant, PTL DEF Spec

(***************************************************************************)
(* In a ZoneLock two callbacks overlap, timers included, only if the zone  *)
(* of the older one reported an error, of whatever ran in it, or its       *)
(* callback was suspended on something its zone does not track.            *)
(***************************************************************************)
THEOREM ZoneExcludes == Spec => []ZoneExclusion
<1>1. ChainInv /\ LeavesNothing => ZoneExclusion
  <2> SUFFICES ASSUME ChainInv, LeavesNothing, zoned,
                      NEW c \in Calls, NEW d \in Calls, Before(c, d), Active(c), Active(d)
               PROVE  failed[c] \/ result[c] = "early"
    BY DEF ZoneExclusion
  <2>1. Started(d)
    BY DEF Active, LeavesNothing, ChainInv, Ordered
  <2>2. Released(c)
    BY <2>1 DEF ChainInv, Ordered
  <2>. QED  BY <2>2 DEF LeavesNothing
<1>. QED  BY <1>1, ChainInvariant, LeavesNothingHolds, PTL

-----------------------------------------------------------------------------
(***************************************************************************)
(* The refinement.  That there is a number up to which calls have been     *)
(* served makes the queue of the abstract lock a sequence of tickets.      *)
(***************************************************************************)
AllGiven == \A n \in 1..issued : \E c \in Calls : ticket[c] = n

SomeServed == \E n \in Nat : IsServed(n)

QueueInv == AllGiven /\ SomeServed

LEMMA EnqueueKeepsServed ==
  ASSUME TypeOK, ChainInv, AllGiven, NEW n \in Nat, IsServed(n), NEW c \in Calls, Enqueue(c)
  PROVE  AllGiven' /\ IsServed(n)'
<1> USE DEF TypeOK
<1>1. /\ issued' = issued + 1
      /\ ticket' = [ticket EXCEPT ![c] = issued + 1]
      /\ pc' = [pc EXCEPT ![c] = "queued"]
      /\ ticket[c] = 0
  BY DEF Enqueue, ChainInv, Numbered
<1>2. AllGiven'
  <2> SUFFICES ASSUME NEW m \in 1..(issued + 1) PROVE \E d \in Calls : ticket'[d] = m
    BY <1>1 DEF AllGiven
  <2>1. CASE m = issued + 1
    BY <1>1, <2>1
  <2>2. CASE m # issued + 1
    <3>1. PICK d \in Calls : ticket[d] = m
      BY <2>2 DEF AllGiven
    <3>. QED  BY <1>1, <3>1
  <2>. QED  BY <2>1, <2>2
<1>3. IsServed(n)'
  BY <1>1 DEF IsServed
<1>. QED  BY <1>2, <1>3

\* The call that starts is the one after those that have been served.
LEMMA StartServesNext ==
  ASSUME TypeOK, ChainInv, NEW n \in Nat, IsServed(n), NEW c \in Calls, Start(c)
  PROVE  ticket[c] = n + 1 /\ IsServed(n + 1)'
<1> USE NamesAssumption DEF TypeOK
<1>1. /\ UNCHANGED <<ticket, issued>>
      /\ pc[c] = "queued" /\ pc' = [pc EXCEPT ![c] = "executing"]
      /\ ticket[c] > 0 /\ ticket[c] <= issued
      /\ pred[c] # None => Released(pred[c])
  BY DEF Start, ChainInv, Numbered
<1>2. n < ticket[c]
  BY <1>1 DEF IsServed
<1>3. ticket[c] = n + 1
  <2> SUFFICES ASSUME ticket[c] > n + 1 PROVE FALSE
    BY <1>2
  <2>1. pred[c] \in Calls /\ ticket[pred[c]] = ticket[c] - 1
    BY DEF ChainInv, Chained
  <2>2. pc[pred[c]] = "queued"
    BY <2>1 DEF IsServed
  <2>. QED  BY <1>1, <2>1, <2>2 DEF Released
<1>4. IsServed(n + 1)'
  <2>1. n + 1 \in 0..issued'
    BY <1>1, <1>3
  <2>2. ASSUME NEW d \in Calls, ticket'[d] # 0
        PROVE  pc'[d] = "queued" <=> n + 1 < ticket'[d]
    <3>1. CASE d = c
      BY <1>1, <1>3, <3>1
    <3>2. CASE d # c
      <4>1. ticket[d] # n + 1
        BY <1>1, <1>3, <2>2, <3>2 DEF ChainInv, Numbered
      <4>. QED  BY <1>1, <2>2, <3>2, <4>1 DEF IsServed
    <3>. QED  BY <3>1, <3>2
  <2>. QED  BY <2>1, <2>2 DEF IsServed
<1>. QED  BY <1>3, <1>4

\* Nothing else moves a call into the queue or out of it.
LEMMA ServedFrame ==
  ASSUME UNCHANGED <<ticket, issued>>, \A c \in Calls : pc'[c] = "queued" <=> pc[c] = "queued",
         NEW n \in Nat
  PROVE  IsServed(n)' <=> IsServed(n)
BY DEF IsServed

LEMMA QueueInvariant == Spec => []QueueInv
<1>1. Init => QueueInv
  BY DEF Init, QueueInv, AllGiven, SomeServed, IsServed
<1>2. TypeOK /\ ChainInv /\ QueueInv /\ [Next]_vars => QueueInv'
  <2> SUFFICES ASSUME TypeOK, ChainInv, QueueInv, [Next]_vars
               PROVE  QueueInv'
    OBVIOUS
  <2> PICK n \in Nat : IsServed(n)
    BY DEF QueueInv, SomeServed
  <2>1. ASSUME NEW c \in Calls, Enqueue(c) PROVE QueueInv'
    BY <2>1, EnqueueKeepsServed DEF QueueInv, SomeServed
  <2>2. ASSUME NEW c \in Calls, Start(c) PROVE QueueInv'
    <3>1. AllGiven'
      BY <2>2 DEF Start, QueueInv, AllGiven
    <3>2. IsServed(n + 1)' /\ n + 1 \in Nat
      BY <2>2, StartServesNext
    <3>. QED  BY <3>1, <3>2 DEF QueueInv, SomeServed
  <2>3. ASSUME UNCHANGED <<ticket, issued>>,
               \A c \in Calls : pc'[c] = "queued" <=> pc[c] = "queued"
        PROVE  QueueInv'
    <3>1. IsServed(n)'
      BY <2>3, ServedFrame
    <3>2. AllGiven'
      BY <2>3 DEF QueueInv, AllGiven
    <3>. QED  BY <3>1, <3>2 DEF QueueInv, SomeServed
  <2>4. ASSUME NEW c \in Calls, Resolve(c) PROVE QueueInv'
    BY <2>3, <2>4 DEF Resolve, TypeOK
  <2>5. ASSUME NEW c \in Calls, Resume(c) PROVE QueueInv'
    BY <2>3, <2>5 DEF Resume, TypeOK
  <2>6. CASE UNCHANGED <<pc, ticket, issued>>
    BY <2>3, <2>6
  <2>. QED
    BY <2>1, <2>2, <2>4, <2>5, <2>6
       DEF Next, Run, RunNested, AwaitOutside, OutsideSettles, Spawn, TaskFires,
           StrayRejects, Settle, Release, ReleaseStable, ReleaseFailed, vars
<1>. QED  BY <1>1, <1>2, TypeCorrect, ChainInvariant, PTL DEF Spec

\* The number is the one the mapping chooses.
LEMMA ServedIs == TypeOK /\ AllGiven => \A n \in Nat : IsServed(n) => Served = n
<1> SUFFICES ASSUME TypeOK, AllGiven, NEW n \in Nat, IsServed(n)
             PROVE  Served = n
  OBVIOUS
<1>1. n \in 0..issued
  BY DEF IsServed
<1>2. Served \in 0..issued /\ IsServed(Served)
  BY <1>1 DEF Served
<1>3. ASSUME NEW m \in 0..issued, NEW k \in 0..issued, IsServed(m), IsServed(k), m < k
      PROVE  FALSE
  <2>1. k \in 1..issued
    BY <1>3 DEF TypeOK
  <2>2. PICK c \in Calls : ticket[c] = k
    BY <2>1 DEF AllGiven
  <2>. QED  BY <1>3, <2>2 DEF IsServed, TypeOK
<1>. QED  BY <1>1, <1>2, <1>3 DEF TypeOK

LEMMA ServedIsNext == (TypeOK /\ AllGiven => \A n \in Nat : IsServed(n) => Served = n)'
BY ServedIs, PTL

\* A ticket names its call, for good.
LEMMA CallWithIs ==
  ASSUME Numbered, NEW c \in Calls, ticket[c] # 0
  PROVE  CallWith(ticket[c]) = c
BY DEF Numbered, CallWith

LEMMA CallWithStays ==
  ASSUME AllGiven, Numbered, Numbered', NEW n \in 1..issued,
         \A c \in Calls : ticket[c] # 0 => ticket'[c] = ticket[c]
  PROVE  CallWith(n)' = CallWith(n)
<1>1. PICK c \in Calls : ticket[c] = n
  BY DEF AllGiven
<1>2. ticket'[c] = n /\ n # 0
  BY <1>1
<1>3. CallWith(n) = c
  BY <1>1, <1>2, CallWithIs
<1>4. CallWith(n)' = c
  BY <1>2 DEF Numbered, CallWith
<1>. QED  BY <1>3, <1>4

QueueAfter(n) == [i \in 1..(issued - n) |-> CallWith(n + i)]

LEMMA QueueIs ==
  ASSUME TypeOK, AllGiven, NEW n \in Nat, IsServed(n)
  PROVE  QueuedInOrder = QueueAfter(n)
BY ServedIs DEF QueuedInOrder, QueueAfter

LEMMA QueueIsNext ==
  ASSUME TypeOK', AllGiven', NEW n \in Nat, IsServed(n)'
  PROVE  QueuedInOrder' = QueueAfter(n)'
BY ServedIsNext DEF QueuedInOrder, QueueAfter

\* Calling run() is a request.
LEMMA EnqueueRequests ==
  ASSUME TypeOK, TypeOK', ChainInv, ChainInv', QueueInv, NEW c \in Calls, Enqueue(c)
  PROVE  Mutex!Request(c)
<1> USE DEF TypeOK
<1>1. /\ issued' = issued + 1
      /\ ticket' = [ticket EXCEPT ![c] = issued + 1]
      /\ pc' = [pc EXCEPT ![c] = "queued"]
      /\ pc[c] = "idle" /\ ticket[c] = 0
  BY DEF Enqueue, ChainInv, Numbered
<1>2. c \notin Made /\ Made' = Made \cup {c}
  BY <1>1 DEF Made
<1>3. Holder' = Holder
  <2>1. Executing' = Executing
    BY <1>1 DEF Executing
  <2>. QED  BY <2>1 DEF Holder
<1>4. QueuedInOrder' = Append(QueuedInOrder, c)
  <2> PICK n \in Nat : IsServed(n)
    BY DEF QueueInv, SomeServed
  <2>1. IsServed(n)' /\ AllGiven' /\ n \in 0..issued
    BY EnqueueKeepsServed DEF QueueInv, IsServed
  <2>2. QueuedInOrder = QueueAfter(n) /\ QueuedInOrder' = QueueAfter(n)'
    BY <2>1, QueueIs, QueueIsNext DEF QueueInv
  <2>3. ASSUME NEW i \in 1..(issued - n) PROVE CallWith(n + i)' = CallWith(n + i)
    <3>1. n + i \in 1..issued
      BY <2>1
    <3>. QED  BY <1>1, <3>1, CallWithStays DEF QueueInv, ChainInv
  <2>4. ASSUME NEW m \in Nat, m = issued + 1 PROVE CallWith(m)' = c
    BY <1>1, <2>4 DEF ChainInv, Numbered, CallWith
  <2>5. QueueAfter(n)' = [i \in 1..(issued + 1 - n) |-> CallWith(n + i)']
    BY <1>1 DEF QueueAfter
  <2>6. Append(QueueAfter(n), c) = [i \in 1..(issued + 1 - n) |->
                                      IF i = issued + 1 - n THEN c ELSE CallWith(n + i)]
    BY <2>1 DEF QueueAfter
  <2>7. ASSUME NEW i \in 1..(issued + 1 - n)
        PROVE  CallWith(n + i)' = IF i = issued + 1 - n THEN c ELSE CallWith(n + i)
    <3>1. CASE i = issued + 1 - n
      <4>1. n + i = issued + 1
        BY <2>1, <3>1
      <4>. QED  BY <2>4, <3>1, <4>1
    <3>2. CASE i # issued + 1 - n
      <4>1. i \in 1..(issued - n)
        BY <2>1, <3>2
      <4>. QED  BY <2>3, <3>2, <4>1
    <3>. QED  BY <3>1, <3>2
  <2>. QED  BY <2>2, <2>5, <2>6, <2>7
<1>. QED  BY <1>2, <1>3, <1>4 DEF Mutex!Request

\* One run() is executing at most, so the holder is well defined.
LEMMA OneExecutes ==
  ASSUME TypeOK, ChainInv,
         NEW c \in Calls, NEW d \in Calls, pc[c] = "executing", pc[d] = "executing"
  PROVE  c = d
<1> SUFFICES ASSUME c # d PROVE FALSE
  OBVIOUS
<1>1. ticket[c] \in Nat \ {0} /\ ticket[d] \in Nat \ {0} /\ ticket[c] # ticket[d]
  BY DEF TypeOK, ChainInv, Numbered
<1>2. Before(c, d) \/ Before(d, c)
  BY <1>1 DEF Before
<1>. QED  BY <1>2 DEF ChainInv, Ordered, Started, Released

\* Starting a callback acquires the lock for the oldest waiting call.
LEMMA StartAcquires ==
  ASSUME TypeOK, TypeOK', ChainInv, ChainInv', QueueInv, NEW c \in Calls, Start(c)
  PROVE  Mutex!Acquire
<1> USE DEF TypeOK
<1>1. /\ UNCHANGED <<ticket, issued>>
      /\ pc[c] = "queued" /\ pc' = [pc EXCEPT ![c] = "executing"]
  BY DEF Start
<1> PICK n \in Nat : IsServed(n)
  BY DEF QueueInv, SomeServed
<1>3. ticket[c] = n + 1 /\ IsServed(n + 1)' /\ n + 1 \in 0..issued
  BY StartServesNext DEF ChainInv, Numbered
<1>4. Executing = {}
  <2> SUFFICES ASSUME NEW d \in Calls, pc[d] = "executing" PROVE FALSE
    BY DEF Executing
  <2>1. ticket[d] # 0 /\ ticket[d] <= n
    BY DEF IsServed, ChainInv, Numbered
  <2>2. Before(d, c)' /\ Started(c)' /\ d # c
    BY <1>1, <1>3, <2>1 DEF Before, Started
  <2>3. Released(d)'
    BY <2>2 DEF ChainInv, Ordered
  <2>. QED  BY <1>1, <2>2, <2>3 DEF Released
<1>5. Executing' = {c}
  BY <1>1, <1>4 DEF Executing
<1>6. Holder = None /\ Holder' = c
  BY <1>4, <1>5 DEF Holder
<1>7. Made' = Made
  BY <1>1 DEF Made
<1>8. AllGiven'
  BY <1>1 DEF QueueInv, AllGiven
<1>9. QueuedInOrder = QueueAfter(n) /\ QueuedInOrder' = QueueAfter(n + 1)'
  BY <1>3, <1>8, QueueIs, QueueIsNext DEF QueueInv
<1>10. CallWith(n + 1) = c
  BY <1>3, CallWithIs DEF ChainInv
<1>11. ASSUME NEW i \in 1..issued PROVE CallWith(i)' = CallWith(i)
  BY <1>1, CallWithStays DEF QueueInv, ChainInv
<1>12. QueuedInOrder # <<>> /\ Head(QueuedInOrder) = c
  <2>1. issued - n \in Nat /\ 1 \in 1..(issued - n)
    BY <1>3
  <2>2. Len(QueueAfter(n)) = issued - n /\ QueueAfter(n)[1] = c
    BY <1>10, <2>1 DEF QueueAfter
  <2>3. QueueAfter(n) # <<>>
    BY <2>1, <2>2
  <2>4. Head(QueueAfter(n)) = QueueAfter(n)[1]
    OBVIOUS
  <2>. QED  BY <1>9, <2>2, <2>3, <2>4
<1>13. QueuedInOrder' = Tail(QueuedInOrder)
  <2>1. issued - n \in Nat /\ issued - n >= 1
    BY <1>3
  <2>2. Tail(QueueAfter(n)) = [i \in 1..(issued - n - 1) |-> CallWith(n + (i + 1))]
    BY <2>1 DEF QueueAfter
  <2>3. QueueAfter(n + 1)' = [i \in 1..(issued - (n + 1)) |-> CallWith((n + 1) + i)']
    BY <1>1 DEF QueueAfter
  <2>4. ASSUME NEW i \in 1..(issued - n - 1)
        PROVE  CallWith((n + 1) + i)' = CallWith(n + (i + 1))
    <3>1. (n + 1) + i \in 1..issued /\ (n + 1) + i = n + (i + 1)
      BY <2>1
    <3>. QED  BY <1>11, <3>1
  <2>5. issued - (n + 1) = issued - n - 1
    BY <2>1
  <2>. QED  BY <1>9, <2>2, <2>3, <2>4, <2>5
<1>. QED  BY <1>6, <1>7, <1>12, <1>13 DEF Mutex!Acquire

\* What neither calls nor starts leaves the queue as it is.
LEMMA QueueStays ==
  ASSUME TypeOK, TypeOK', QueueInv, UNCHANGED <<ticket, issued>>,
         \A c \in Calls : pc'[c] = "queued" <=> pc[c] = "queued"
  PROVE  QueuedInOrder' = QueuedInOrder
<1> PICK n \in Nat : IsServed(n)
  BY DEF QueueInv, SomeServed
<1>2. IsServed(n)' /\ AllGiven'
  BY ServedFrame DEF QueueInv, AllGiven
<1>3. QueuedInOrder = QueueAfter(n) /\ QueuedInOrder' = QueueAfter(n)'
  BY <1>2, QueueIs, QueueIsNext DEF QueueInv
<1>. QED  BY <1>3 DEF QueueAfter, CallWith

\* Resolving the promise of the call frees the lock, whatever became of the callback.
LEMMA ResolveFrees ==
  ASSUME TypeOK, TypeOK', ChainInv, QueueInv, NEW c \in Calls, Resolve(c)
  PROVE  Mutex!Free
<1> USE DEF TypeOK
<1>1. /\ UNCHANGED <<ticket, issued>>
      /\ pc[c] = "executing" /\ pc' = [pc EXCEPT ![c] = "resolved"]
  BY DEF Resolve
<1>2. Executing = {c}
  BY <1>1, OneExecutes DEF Executing
<1>3. Executing' = {}
  BY <1>1, <1>2 DEF Executing
<1>4. Holder = c /\ Holder' = None
  BY <1>2, <1>3 DEF Holder
<1>5. Made' = Made
  BY <1>1 DEF Made
<1>6. QueuedInOrder' = QueuedInOrder
  BY <1>1, QueueStays
<1>. QED  BY <1>4, <1>5, <1>6, NamesAssumption DEF Mutex!Free

\* A resolved call that continues, and whatever callbacks do, is not seen by the mutex.
LEMMA ResumeStutters ==
  ASSUME TypeOK, TypeOK', QueueInv, NEW c \in Calls, Resume(c)
  PROVE  UNCHANGED Mutex!mutexVars
<1> USE DEF TypeOK
<1>1. /\ UNCHANGED <<ticket, issued>>
      /\ pc[c] = "resolved" /\ pc' = [pc EXCEPT ![c] = "done"]
  BY DEF Resume
<1>2. Executing' = Executing /\ Made' = Made
  BY <1>1 DEF Executing, Made
<1>3. QueuedInOrder' = QueuedInOrder
  BY <1>1, QueueStays
<1>. QED  BY <1>2, <1>3 DEF Mutex!mutexVars, Holder

LEMMA CallbackStutters ==
  ASSUME TypeOK, TypeOK', QueueInv, UNCHANGED <<pc, ticket, issued>>
  PROVE  UNCHANGED Mutex!mutexVars
<1>1. QueuedInOrder' = QueuedInOrder
  BY QueueStays
<1>. QED  BY <1>1 DEF Mutex!mutexVars, Holder, Executing, Made

(***************************************************************************)
(* Both locks implement a first-come first-served mutex: the chain of      *)
(* promises hands the lock to one call at a time, the oldest waiting one,  *)
(* and only after the previous one let go.                                 *)
(***************************************************************************)
THEOREM LockImplementsMutex == Spec => ImplementsFifoMutex
<1>1. TypeOK /\ AllGiven /\ Init => Mutex!Init
  <2> SUFFICES ASSUME TypeOK, AllGiven, Init PROVE Mutex!Init
    OBVIOUS
  <2>1. IsServed(0)
    BY DEF Init, IsServed
  <2>2. QueuedInOrder = <<>>
    BY <2>1, QueueIs DEF Init, QueueAfter
  <2>3. Made = {} /\ Executing = {}
    BY DEF Init, Made, Executing
  <2>. QED  BY <2>2, <2>3 DEF Mutex!Init, Holder
<1>2. TypeOK /\ TypeOK' /\ ChainInv /\ ChainInv' /\ QueueInv /\ [Next]_vars
        => [Mutex!Next]_(Mutex!mutexVars)
  <2> SUFFICES ASSUME TypeOK, TypeOK', ChainInv, ChainInv', QueueInv, [Next]_vars
               PROVE  Mutex!Next \/ UNCHANGED Mutex!mutexVars
    OBVIOUS
  <2>1. ASSUME NEW c \in Calls, Enqueue(c) PROVE Mutex!Next
    BY <2>1, EnqueueRequests DEF Mutex!Next
  <2>2. ASSUME NEW c \in Calls, Start(c) PROVE Mutex!Next
    BY <2>2, StartAcquires DEF Mutex!Next
  <2>3. ASSUME NEW c \in Calls, Resolve(c) PROVE Mutex!Next
    BY <2>3, ResolveFrees DEF Mutex!Next
  <2>4. ASSUME NEW c \in Calls, Resume(c) PROVE UNCHANGED Mutex!mutexVars
    BY <2>4, ResumeStutters
  <2>5. ASSUME UNCHANGED <<pc, ticket, issued>> PROVE UNCHANGED Mutex!mutexVars
    BY <2>5, CallbackStutters
  <2>6. ASSUME NEW c \in Calls, Release(c) \/ ReleaseStable(c) \/ ReleaseFailed(c)
        PROVE  Mutex!Next
    BY <2>3, <2>6 DEF Release, ReleaseStable, ReleaseFailed
  <2>7. ASSUME NEW c \in Calls,
               \/ AwaitOutside(c) \/ OutsideSettles(c) \/ Spawn(c) \/ StrayRejects(c)
               \/ \E o \in Outcomes : TaskFires(c, o) \/ Settle(c, o)
        PROVE  UNCHANGED <<pc, ticket, issued>>
    BY <2>7 DEF AwaitOutside, OutsideSettles, Spawn, StrayRejects, TaskFires, Settle
  <2>8. CASE UNCHANGED vars
    BY <2>5, <2>8 DEF vars
  <2>. QED
    BY <2>1, <2>2, <2>4, <2>5, <2>6, <2>7, <2>8 DEF Next, Run, RunNested
<1>. QED
  BY <1>1, <1>2, TypeCorrect, ChainInvariant, QueueInvariant, PTL
     DEF Spec, QueueInv, ImplementsFifoMutex, Mutex!Spec
=============================================================================
