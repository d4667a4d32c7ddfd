--------------------------- MODULE PromiseLockFifo ---------------------------
(***************************************************************************)
(* The promise chain of Lock implements a first-come first-served mutex.   *)
(***************************************************************************)
EXTENDS PromiseLock, Sequences

\* The calls are served by their tickets: those up to n have been, the others wait.
IsServed(n) ==
    /\ n \in 0..issued
    /\ \A c \in Calls : ticket[c] # 0 => (pc[c] = "queued" <=> n < ticket[c])

\* Any number when calls were served out of their order.
Served == CHOOSE n \in 0..issued : (\E m \in 0..issued : IsServed(m)) => IsServed(n)

CallWith(n) == CHOOSE c \in Calls : ticket[c] = n

QueuedInOrder == [i \in 1..(issued - Served) |-> CallWith(Served + i)]

Executing == {c \in Calls : pc[c] = "executing"}

Holder == IF Executing = {} THEN None ELSE CHOOSE c \in Executing : TRUE

Made == {c \in Calls : pc[c] # "idle"}

Mutex == INSTANCE FifoMutex WITH waiting <- QueuedInOrder, holder <- Holder, made <- Made

\* A Lock hands itself over to exactly one call at a time, the oldest waiting
\* one, and only after the previous one let go.
ImplementsFifoMutex == Mutex!Spec
=============================================================================
