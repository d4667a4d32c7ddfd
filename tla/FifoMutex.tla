------------------------------ MODULE FifoMutex ------------------------------
(***************************************************************************)
(* What Lock.run() promises its callers, with no promise chain in sight:   *)
(* calls are served one at a time, in the order in which they were made.   *)
(***************************************************************************)
EXTENDS Sequences

CONSTANTS Calls,   \* the invocations of run()
          None     \* "no call"

VARIABLES waiting,     \* the calls made and not yet served, oldest first
          holder,      \* the call whose callback owns the lock, or None
          made         \* every call made so far

mutexVars == <<waiting, holder, made>>

Init == /\ waiting = <<>>
        /\ holder = None
        /\ made = {}

Request(c) == /\ c \notin made
              /\ made' = made \cup {c}
              /\ waiting' = Append(waiting, c)
              /\ UNCHANGED holder

Acquire == /\ holder = None
           /\ waiting # <<>>
           /\ holder' = Head(waiting)
           /\ waiting' = Tail(waiting)
           /\ UNCHANGED made

Free == /\ holder # None
        /\ holder' = None
        /\ UNCHANGED <<waiting, made>>

Next == (\E c \in Calls : Request(c)) \/ Acquire \/ Free

Spec == Init /\ [][Next]_mutexVars
=============================================================================
