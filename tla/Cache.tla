-------------------------------- MODULE Cache --------------------------------
(***************************************************************************)
(* Cache of @alterior/common.  fetch() answers from the cache, or starts   *)
(* the caller's fetcher, or joins a fetch that is under way for the key.   *)
(* A fetch stores what it got and answers everybody who waits for it; one  *)
(* promise reaction later its key is free again.                           *)
(*                                                                         *)
(* A fetch enters the table of outstanding fetches only when its fetcher   *)
(* has come to its first await.  Until then nothing but the fetcher runs,  *)
(* which may itself store values and call fetch(), for its own key too.    *)
(* Values are abstracted to where they come from.                          *)
(***************************************************************************)
EXTENDS Naturals, FiniteSets

CONSTANTS Keys,
          NumCalls,    \* bound: invocations of fetch()
          None,
          MaxItems,
          Lifetimes,   \* the times to live that are used
          MaxTime,     \* bound: the clock stops here
          MaxTimers    \* bound: cleanup timers pending at once

\* Calls are numbered as they are made; an operation is named by the call that
\* started it.
Calls == 1..NumCalls

ASSUME CacheAssumption == /\ None \notin Calls
                          /\ NumCalls \in Nat /\ MaxItems \in Nat /\ MaxTime \in Nat /\ MaxTimers \in Nat
                          /\ None \notin Keys /\ Lifetimes \subseteq Nat

VARIABLES clock,
          held,          \* the keys of `entries`
          time,          \* when the entry of a key was stored
          expiresAt,
          timers,        \* cleanup timers that are set
          outstanding,   \* outstandingFetches: the operation under way for each key
          key,           \* the key each call asks for
          strategy,      \* its missStrategy
          operation,     \* progress of the operation the call started
          captured,      \* the expired entry was kept for the case that the fetcher fails
          outcome,       \* what the operation resolved to
          awaits,        \* the operation a call waits for
          answer,        \* what the call returned
          reentered      \* history: keys one of whose fetchers, while any of them is
                         \* under way, asked for the key before its first await

entryVars == <<held, time, expiresAt, timers>>
callVars == <<key, strategy, operation, captured, outcome, awaits, answer, reentered>>
vars == <<clock, entryVars, outstanding, callVars>>

Strategies == {"fulfill", "stale-revalidate"}

\* Where a value comes from: an entry not yet expired when it was read, an expired
\* one, a fetcher.
Origins == {"entry", "expired", "fetched", "undefined"}

UnderWay == {"starting", "running", "resolved"}

TypeOK ==
    /\ clock \in 0..MaxTime
    /\ held \subseteq Keys
    /\ time \in [Keys -> Nat] /\ expiresAt \in [Keys -> Nat]
    /\ timers \in 0..MaxTimers
    /\ outstanding \in [Keys -> Calls \cup {None}]
    /\ key \in [Calls -> Keys \cup {None}]
    /\ strategy \in [Calls -> Strategies \cup {"none"}]
    /\ operation \in [Calls -> {"none", "over"} \cup UnderWay]
    /\ captured \in [Calls -> BOOLEAN]
    /\ outcome \in [Calls -> Origins \cup {"none"}]
    /\ awaits \in [Calls -> Calls \cup {None}]
    /\ answer \in [Calls -> Origins \cup {"none"}]
    /\ reentered \subseteq Keys

Init ==
    /\ clock = 0
    /\ held = {} /\ timers = 0
    /\ time = [k \in Keys |-> 0] /\ expiresAt = [k \in Keys |-> 0]
    /\ outstanding = [k \in Keys |-> None]
    /\ key = [c \in Calls |-> None]
    /\ strategy = [c \in Calls |-> "none"]
    /\ operation = [c \in Calls |-> "none"]
    /\ captured = [c \in Calls |-> FALSE]
    /\ outcome = [c \in Calls |-> "none"]
    /\ awaits = [c \in Calls |-> None]
    /\ answer = [c \in Calls |-> "none"]
    /\ reentered = {}

\* No fetcher is in its synchronous part: timers and promise reactions may run.
Idle == \A c \in Calls : operation[c] # "starting"

Stale(k) == k \notin held \/ expiresAt[k] < clock

\* Variant: a cleanup is planned only when the limit is just reached.
InsertItemPlanningOnce(k, ttl) ==
    /\ held' = held \cup {k}
    /\ time' = [time EXCEPT ![k] = clock]
    /\ expiresAt' = [expiresAt EXCEPT ![k] = clock + ttl]
    /\ timers' = IF Cardinality(held') # MaxItems THEN timers ELSE timers + 1
    /\ timers' <= MaxTimers

\* insertItem(), with the timer sliceCleanup() sets.
InsertItem(k, ttl) ==
    /\ held' = held \cup {k}
    /\ time' = [time EXCEPT ![k] = clock]
    /\ expiresAt' = [expiresAt EXCEPT ![k] = clock + ttl]
    /\ timers' = IF Cardinality(held') < MaxItems THEN timers ELSE timers + 1
    /\ timers' <= MaxTimers

\* Code other than fetch() stores a value.
Insert(k, ttl) ==
    /\ InsertItem(k, ttl)
    /\ UNCHANGED <<clock, outstanding, callVars>>

\* The timer of sliceCleanup(): the entries stored longest ago go, until as many
\* are left as may be.
Cleanup ==
    /\ timers > 0 /\ Idle
    /\ timers' = timers - 1
    /\ held' \in SUBSET held
    /\ Cardinality(held') = (IF Cardinality(held) > MaxItems THEN MaxItems ELSE Cardinality(held))
    /\ \A k \in held', e \in held \ held' : time[e] <= time[k]
    /\ time' = [k \in Keys |-> IF k \in held' THEN time[k] ELSE 0]
    /\ expiresAt' = [k \in Keys |-> IF k \in held' THEN expiresAt[k] ELSE 0]
    /\ UNCHANGED <<clock, outstanding, callVars>>

\* fetch() is called, also by a fetcher that was just called.
Call(c, k, s) ==
    /\ key[c] = None /\ \A d \in 1..(c - 1) : key[d] # None
    /\ key' = [key EXCEPT ![c] = k]
    /\ strategy' = [strategy EXCEPT ![c] = s]
    /\ UNCHANGED <<clock, entryVars, outcome>>

\* Another fetch of the key is under way, whatever the cache holds meanwhile.
Join(c, k, s) ==
    /\ Call(c, k, s)
    /\ outstanding[k] # None
    /\ awaits' = [awaits EXCEPT ![c] = outstanding[k]]
    /\ UNCHANGED <<outstanding, operation, captured, answer, reentered>>

Hit(c, k, s) ==
    /\ Call(c, k, s)
    /\ outstanding[k] = None
    /\ ~Stale(k)
    /\ answer' = [answer EXCEPT ![c] = "entry"]
    /\ UNCHANGED <<outstanding, operation, captured, awaits, reentered>>

ServesExpired(k, s) == s = "stale-revalidate" /\ k \in held

StartFetcher(c, k, s) ==
    /\ operation' = [operation EXCEPT ![c] = "starting"]
    /\ captured' = [captured EXCEPT ![c] = ServesExpired(k, s)]
    /\ reentered' = IF \E d \in Calls : operation[d] = "starting" /\ key[d] = k
                    THEN reentered \cup {k} ELSE reentered
    /\ UNCHANGED <<outstanding, awaits, answer>>

\* Variant: a caller that will not wait starts its fetcher without asking.
MissUnguarded(c, k, s) ==
    /\ Call(c, k, s)
    /\ Stale(k)
    /\ outstanding[k] # None => ServesExpired(k, s)
    /\ StartFetcher(c, k, s)

\* A miss calls the fetcher, and keeps the expired entry it may serve.
Miss(c, k, s) ==
    /\ Call(c, k, s)
    /\ outstanding[k] = None
    /\ Stale(k)
    /\ StartFetcher(c, k, s)

\* The fetcher called last has come to its first await, or has thrown.  Its operation
\* enters the table, whatever is there by now, and fetch() waits for it or serves the
\* expired entry.
Register(c) ==
    /\ operation[c] = "starting"
    /\ \A d \in Calls : operation[d] = "starting" => d <= c
    /\ operation' = [operation EXCEPT ![c] = "running"]
    /\ outstanding' = [outstanding EXCEPT ![key[c]] = c]
    /\ IF captured[c]
       THEN answer' = [answer EXCEPT ![c] = "expired"] /\ UNCHANGED awaits
       ELSE awaits' = [awaits EXCEPT ![c] = c] /\ UNCHANGED answer
    /\ UNCHANGED <<clock, entryVars, key, strategy, captured, outcome, reentered>>

\* A miss of a caller that gave no fetcher.
MissWithoutFetcher(c, k, s) ==
    /\ Call(c, k, s)
    /\ outstanding[k] = None
    /\ Stale(k)
    /\ answer' = [answer EXCEPT ![c] = IF ServesExpired(k, s) THEN "expired" ELSE "undefined"]
    /\ UNCHANGED <<outstanding, operation, captured, awaits, reentered>>

Resolve(c, o) ==
    /\ operation[c] = "running" /\ Idle
    /\ operation' = [operation EXCEPT ![c] = "resolved"]
    /\ outcome' = [outcome EXCEPT ![c] = o]
    /\ UNCHANGED <<clock, outstanding, key, strategy, captured, awaits, answer, reentered>>

\* The fetcher delivers a value, which is stored, or undefined, which is not.
FetcherDelivers(c, ttl) == Resolve(c, "fetched") /\ InsertItem(key[c], ttl)
FetcherDeliversUndefined(c) == Resolve(c, "undefined") /\ UNCHANGED entryVars

\* Variant: a failed fetcher is answered from the cache as it is by then.
FetcherFailsRereading(c) ==
    /\ Resolve(c, IF key[c] \in held THEN "expired" ELSE "undefined")
    /\ UNCHANGED entryVars

\* Variant: the error is only reported.
FetcherFailsSilently(c) ==
    /\ operation[c] = "running" /\ Idle
    /\ operation' = [operation EXCEPT ![c] = "over"]
    /\ UNCHANGED <<clock, entryVars, outstanding, key, strategy, captured, outcome, awaits, answer,
                   reentered>>

\* The fetcher fails: the entry that was served expired is served again.
FetcherFails(c) ==
    /\ Resolve(c, IF captured[c] THEN "expired" ELSE "undefined")
    /\ UNCHANGED entryVars

\* The finally() reaction, registered before any caller waited.  It frees the key,
\* whichever operation has entered the table for it.
Forget(c) ==
    /\ operation[c] = "resolved" /\ Idle
    /\ operation' = [operation EXCEPT ![c] = "over"]
    /\ outstanding' = [outstanding EXCEPT ![key[c]] = None]
    /\ reentered' = IF \E d \in Calls : operation'[d] \in UnderWay /\ key[d] = key[c]
                    THEN reentered ELSE reentered \ {key[c]}
    /\ UNCHANGED <<clock, entryVars, key, strategy, captured, outcome, awaits, answer>>

\* A caller that waited goes on.
Return(c) ==
    /\ awaits[c] # None /\ answer[c] = "none" /\ Idle
    /\ operation[awaits[c]] = "over"
    /\ answer' = [answer EXCEPT ![c] = outcome[awaits[c]]]
    /\ UNCHANGED <<clock, entryVars, outstanding, key, strategy, operation, captured, outcome, awaits,
                   reentered>>

Tick ==
    /\ clock < MaxTime
    /\ clock' = clock + 1
    /\ UNCHANGED <<entryVars, outstanding, callVars>>

FetcherSettles(c) == \/ \E ttl \in Lifetimes : FetcherDelivers(c, ttl)
                     \/ FetcherDeliversUndefined(c)
                     \/ FetcherFails(c)

Next == \/ \E k \in Keys, ttl \in Lifetimes : Insert(k, ttl)
        \/ Cleanup
        \/ \E c \in Calls, k \in Keys, s \in Strategies :
              Join(c, k, s) \/ Hit(c, k, s) \/ Miss(c, k, s) \/ MissWithoutFetcher(c, k, s)
        \/ \E c \in Calls : Register(c) \/ FetcherSettles(c) \/ Forget(c) \/ Return(c)
        \/ Tick

\* Fetchers come to their first await, and answer or fail; timers and promise reactions run.
Fairness == /\ WF_vars(Cleanup)
            /\ \A c \in Calls : /\ WF_vars(Register(c))
                                /\ WF_vars(FetcherSettles(c))
                                /\ WF_vars(Forget(c))
                                /\ WF_vars(Return(c))

Spec == Init /\ [][Next]_vars /\ Fairness
-----------------------------------------------------------------------------
(***************************************************************************)
(* Properties                                                              *)
(***************************************************************************)
\* However many callers miss a key at once, one fetcher runs for it at a time, unless
\* one of them asked for its own key before its first await: from then until none is
\* left for the key, fetchers take the key from one another.
OneFetcherPerKey ==
    \A c, d \in Calls : /\ operation[c] \in {"starting", "running"}
                        /\ operation[d] \in {"starting", "running"}
                        /\ key[c] = key[d] /\ key[c] \notin reentered
                        => c = d

\* A caller that asks for 'fulfill' gets an expired value in one case only: it joined
\* the background fetch of a 'stale-revalidate' caller and that fetch failed.
ExpiredOnlyFromFailedRevalidation ==
    \A c \in Calls : strategy[c] = "fulfill" /\ answer[c] = "expired" =>
        /\ awaits[c] \notin {None, c}
        /\ strategy[awaits[c]] = "stale-revalidate"
        /\ outcome[awaits[c]] = "expired"

\* Whenever the cache holds more than it may, a cleanup is still to come.
OverLimitIsCleanedUp == Cardinality(held) > MaxItems => timers > 0

\* Every fetch() returns once fetchers settle, also when the fetcher it joined fails.
FetchesReturn == \A c \in Calls : key[c] # None ~> answer[c] # "none"
=============================================================================
