----------------------------- MODULE CacheProofs -----------------------------
(***************************************************************************)
(* Theorems about Cache, for any keys, number of calls, lifetimes and      *)
(* bounds.                                                                 *)
(***************************************************************************)
EXTENDS Cache, FiniteSetTheorems, TLAPS

(***************************************************************************)
(* Types.  An operation belongs to a call, whose key is known.             *)
(***************************************************************************)
KeyKnown == \A c \in Calls : operation[c] # "none" => key[c] \in Keys

TypeInv == TypeOK /\ KeyKnown

LEMMA InsertItemTypes ==
  ASSUME TypeOK, NEW k \in Keys, NEW ttl \in Lifetimes, InsertItem(k, ttl)
  PROVE  /\ held' \subseteq Keys /\ timers' \in 0..MaxTimers
         /\ time' \in [Keys -> Nat] /\ expiresAt' \in [Keys -> Nat]
<1>1. timers' \in Nat /\ clock \in Nat /\ clock + ttl \in Nat
  BY CacheAssumption DEF TypeOK, InsertItem
<1>. QED
  BY <1>1, CacheAssumption DEF TypeOK, InsertItem

LEMMA TypeStep == TypeInv /\ [Next]_vars => TypeInv'
<1> SUFFICES ASSUME TypeInv, [Next]_vars PROVE TypeInv'
  OBVIOUS
<1> USE CacheAssumption DEF TypeInv, TypeOK, KeyKnown, Strategies, Origins, UnderWay
<1>1. ASSUME NEW k \in Keys, NEW ttl \in Lifetimes, Insert(k, ttl) PROVE TypeInv'
  BY <1>1, InsertItemTypes DEF Insert, callVars
<1>2. ASSUME Cleanup PROVE TypeInv'
  <2>1. /\ held' \subseteq Keys /\ timers' \in 0..MaxTimers
        /\ time' \in [Keys -> Nat] /\ expiresAt' \in [Keys -> Nat]
    BY <1>2 DEF Cleanup
  <2>. QED  BY <1>2, <2>1 DEF Cleanup, callVars
<1>3. ASSUME NEW c \in Calls, NEW k \in Keys, NEW s \in Strategies, Join(c, k, s) PROVE TypeInv'
  BY <1>3 DEF Join, Call, entryVars
<1>4. ASSUME NEW c \in Calls, NEW k \in Keys, NEW s \in Strategies, Hit(c, k, s) PROVE TypeInv'
  BY <1>4 DEF Hit, Call, entryVars
<1>5. ASSUME NEW c \in Calls, NEW k \in Keys, NEW s \in Strategies, Miss(c, k, s) PROVE TypeInv'
  BY <1>5 DEF Miss, StartFetcher, Call, entryVars, ServesExpired
<1>6. ASSUME NEW c \in Calls, NEW k \in Keys, NEW s \in Strategies, MissWithoutFetcher(c, k, s)
      PROVE  TypeInv'
  BY <1>6 DEF MissWithoutFetcher, Call, entryVars
<1>7. ASSUME NEW c \in Calls, NEW o \in Origins, Resolve(c, o),
             \/ UNCHANGED entryVars
             \/ \E ttl \in Lifetimes : InsertItem(key[c], ttl)
      PROVE  TypeInv'
  <2>1. key[c] \in Keys
    BY <1>7 DEF Resolve
  <2>2. /\ held' \subseteq Keys /\ timers' \in 0..MaxTimers
        /\ time' \in [Keys -> Nat] /\ expiresAt' \in [Keys -> Nat]
    BY <1>7, <2>1, InsertItemTypes DEF entryVars
  <2>. QED  BY <1>7, <2>2 DEF Resolve
<1>8. ASSUME NEW c \in Calls, FetcherSettles(c) PROVE TypeInv'
  <2>1. ASSUME NEW ttl \in Lifetimes, FetcherDelivers(c, ttl) PROVE TypeInv'
    BY <1>7, <2>1 DEF FetcherDelivers
  <2>2. ASSUME FetcherDeliversUndefined(c) PROVE TypeInv'
    BY <1>7, <2>2 DEF FetcherDeliversUndefined
  <2>3. ASSUME FetcherFails(c) PROVE TypeInv'
    BY <1>7, <2>3 DEF FetcherFails
  <2>. QED  BY <1>8, <2>1, <2>2, <2>3 DEF FetcherSettles
<1>9. ASSUME NEW c \in Calls, Forget(c) PROVE TypeInv'
  BY <1>9 DEF Forget, entryVars
<1>10. ASSUME NEW c \in Calls, Return(c) PROVE TypeInv'
  BY <1>10 DEF Return, entryVars
<1>13. ASSUME NEW c \in Calls, Register(c) PROVE TypeInv'
  BY <1>13 DEF Register, entryVars
<1>11. ASSUME Tick PROVE TypeInv'
  BY <1>11 DEF Tick, entryVars, callVars
<1>12. CASE UNCHANGED vars
  BY <1>12 DEF vars, entryVars, callVars
<1>. QED
  BY <1>1, <1>2, <1>3, <1>4, <1>5, <1>6, <1>8, <1>9, <1>10, <1>11, <1>12, <1>13 DEF Next

LEMMA TypeInvariant == Spec => []TypeInv
<1>1. Init => TypeInv
  BY CacheAssumption DEF Init, TypeInv, TypeOK, KeyKnown
<1>. QED  BY <1>1, TypeStep, PTL DEF Spec

\* The entries, the table of fetches and the calls stay in the sets the code keeps
\* them in.
THEOREM CacheTypes == Spec => []TypeOK
<1>1. TypeInv => TypeOK
  BY DEF TypeInv
<1>. QED  BY <1>1, TypeInvariant, PTL

-----------------------------------------------------------------------------
(***************************************************************************)
(* Unless a fetcher of the key asked for it too early, a key has at most   *)
(* one operation under way, and the table names it from its registration   *)
(* until the key is freed: so no other one of the key can start.           *)
(***************************************************************************)
TableInv ==
    \A c \in Calls : operation[c] \in UnderWay /\ key[c] \notin reentered =>
        /\ operation[c] # "starting" => outstanding[key[c]] = c
        /\ \A d \in Calls : operation[d] \in UnderWay /\ key[d] = key[c] => d = c

LEMMA TableStep == TypeInv /\ TableInv /\ [Next]_vars => TableInv'
<1> SUFFICES ASSUME TypeInv, TableInv, [Next]_vars PROVE TableInv'
  OBVIOUS
<1> USE CacheAssumption DEF TypeInv, TypeOK, KeyKnown, TableInv, UnderWay
<1>1. ASSUME UNCHANGED <<operation, key, outstanding, reentered>> PROVE TableInv'
  BY <1>1
<1>2. ASSUME NEW c \in Calls, NEW k \in Keys, NEW s \in Strategies,
             Join(c, k, s) \/ Hit(c, k, s) \/ MissWithoutFetcher(c, k, s)
      PROVE  TableInv'
  BY <1>2 DEF Join, Hit, MissWithoutFetcher, Call
<1>3. ASSUME NEW c \in Calls, NEW k \in Keys, NEW s \in Strategies, Miss(c, k, s)
      PROVE  TableInv'
  <2>1. /\ key' = [key EXCEPT ![c] = k] /\ key[c] = None /\ outstanding[k] = None
        /\ operation' = [operation EXCEPT ![c] = "starting"] /\ UNCHANGED outstanding
        /\ reentered' = IF \E d \in Calls : operation[d] = "starting" /\ key[d] = k
                        THEN reentered \cup {k} ELSE reentered
    BY <1>3 DEF Miss, StartFetcher, Call
  <2>2. operation[c] = "none" /\ reentered \subseteq reentered'
    BY <2>1
  <2>3. \A d \in Calls : d # c => key'[d] = key[d] /\ operation'[d] = operation[d]
    BY <2>1
  <2>4. key'[c] = k /\ operation'[c] = "starting"
    BY <2>1
  <2>5. ASSUME k \notin reentered', NEW d \in Calls, d # c, operation[d] \in UnderWay, key[d] = k
        PROVE  FALSE
    <3>1. operation[d] = "starting" \/ outstanding[k] = d
      BY <2>2, <2>5
    <3>. QED  BY <2>1, <2>5, <3>1
  <2>6. ASSUME NEW d \in Calls, operation'[d] \in UnderWay, key'[d] \notin reentered'
        PROVE  /\ operation'[d] # "starting" => outstanding'[key'[d]] = d
               /\ \A e \in Calls : operation'[e] \in UnderWay /\ key'[e] = key'[d] => e = d
    <3>1. CASE d = c
      BY <2>3, <2>4, <2>5, <2>6, <3>1
    <3>2. CASE d # c
      <4>1. operation[d] \in UnderWay /\ key[d] \notin reentered /\ key[d] # k
        BY <2>2, <2>3, <2>5, <2>6, <3>2
      <4>2. \A e \in Calls : operation'[e] \in UnderWay /\ key'[e] = key[d]
                                => operation[e] \in UnderWay /\ key[e] = key[d]
        BY <2>3, <2>4, <4>1
      <4>. QED  BY <2>1, <2>3, <3>2, <4>1, <4>2
    <3>. QED  BY <3>1, <3>2
  <2>. QED  BY <2>6
<1>4. ASSUME NEW c \in Calls, FetcherSettles(c) PROVE TableInv'
  BY <1>4 DEF FetcherSettles, FetcherDelivers, FetcherDeliversUndefined, FetcherFails, Resolve
<1>5. ASSUME NEW c \in Calls, Forget(c) PROVE TableInv'
  <2>1. /\ operation[c] = "resolved" /\ operation' = [operation EXCEPT ![c] = "over"]
        /\ outstanding' = [outstanding EXCEPT ![key[c]] = None] /\ UNCHANGED key
        /\ reentered' = IF \E d \in Calls : operation'[d] \in UnderWay /\ key[d] = key[c]
                        THEN reentered ELSE reentered \ {key[c]}
    BY <1>5 DEF Forget
  <2>2. ASSUME NEW d \in Calls, operation'[d] \in UnderWay, key[d] \notin reentered'
        PROVE  /\ operation'[d] # "starting" => outstanding'[key[d]] = d
               /\ \A e \in Calls : operation'[e] \in UnderWay /\ key[e] = key[d] => e = d
    <3>1. d # c /\ operation[d] \in UnderWay /\ operation'[d] = operation[d]
      BY <2>1, <2>2
    <3>2. key[d] \notin reentered
      BY <2>1, <2>2
    <3>3. key[d] # key[c]
      BY <2>1, <3>1, <3>2
    <3>4. \A e \in Calls : operation'[e] \in UnderWay => operation[e] \in UnderWay
      BY <2>1
    <3>. QED  BY <2>1, <3>1, <3>2, <3>3, <3>4
  <2>. QED  BY <2>1, <2>2
<1>6. ASSUME NEW c \in Calls, Register(c) PROVE TableInv'
  <2>1. /\ operation[c] = "starting" /\ operation' = [operation EXCEPT ![c] = "running"]
        /\ outstanding' = [outstanding EXCEPT ![key[c]] = c] /\ UNCHANGED <<key, reentered>>
    BY <1>6 DEF Register
  <2>2. ASSUME NEW d \in Calls, operation'[d] \in UnderWay, key[d] \notin reentered
        PROVE  /\ operation'[d] # "starting" => outstanding'[key[d]] = d
               /\ \A e \in Calls : operation'[e] \in UnderWay /\ key[e] = key[d] => e = d
    <3>1. \A e \in Calls : operation'[e] \in UnderWay => operation[e] \in UnderWay
      BY <2>1
    <3>2. d # c => key[d] # key[c] /\ operation'[d] = operation[d]
      BY <2>1, <2>2, <3>1
    <3>. QED  BY <2>1, <2>2, <3>1, <3>2
  <2>. QED  BY <2>1, <2>2
<1>. QED
  BY <1>1, <1>2, <1>3, <1>4, <1>5, <1>6 DEF Next, Insert, Cleanup, Return, Tick, vars, callVars

\* However many callers miss a key at once, at most one fetcher runs for it, until one
\* of them asks for its own key before its first await.
THEOREM OneFetcherHolds == Spec => []OneFetcherPerKey
<1>1. Init => TableInv
  BY DEF Init, TableInv, UnderWay
<1>2. TableInv => OneFetcherPerKey
  BY DEF TableInv, OneFetcherPerKey, UnderWay
<1>. QED  BY <1>1, <1>2, TableStep, TypeInvariant, PTL DEF Spec

-----------------------------------------------------------------------------
(***************************************************************************)
(* Only a 'stale-revalidate' caller keeps an expired entry, and only its   *)
(* operation can resolve to it.                                            *)
(***************************************************************************)
Uncalled(c) == /\ strategy[c] = "none" /\ operation[c] = "none" /\ ~captured[c]
               /\ outcome[c] = "none" /\ awaits[c] = None /\ answer[c] = "none"

ExpiredInv ==
    /\ \A c \in Calls : key[c] = None => Uncalled(c)
    /\ \A c \in Calls : /\ captured[c] => strategy[c] = "stale-revalidate"
                        /\ outcome[c] = "expired" => captured[c]
                        /\ operation[c] \in {"starting", "running"} => outcome[c] = "none"
                        /\ operation[c] = "starting" => awaits[c] = None /\ answer[c] = "none"
    /\ ExpiredOnlyFromFailedRevalidation

LEMMA ExpiredStep == TypeInv /\ ExpiredInv /\ [Next]_vars => ExpiredInv'
<1> SUFFICES ASSUME TypeInv, ExpiredInv, [Next]_vars PROVE ExpiredInv'
  OBVIOUS
<1> USE CacheAssumption DEF TypeInv, TypeOK, ExpiredInv, Uncalled, ExpiredOnlyFromFailedRevalidation
<1>1. ASSUME UNCHANGED callVars PROVE ExpiredInv'
  BY <1>1 DEF callVars
<1>2. ASSUME NEW c \in Calls, NEW k \in Keys, NEW s \in Strategies, Call(c, k, s),
             UNCHANGED outcome,
             captured' = captured \/ captured' = [captured EXCEPT ![c] = ServesExpired(k, s)],
             \/ operation' = operation
             \/ operation' = [operation EXCEPT ![c] = "starting"] /\ UNCHANGED <<awaits, answer>>,
             \/ \E o \in Calls : awaits' = [awaits EXCEPT ![c] = o] /\ UNCHANGED answer
             \/ UNCHANGED <<awaits, answer>>
             \/ UNCHANGED awaits /\ \E a \in Origins : /\ answer' = [answer EXCEPT ![c] = a]
                                                       /\ a = "expired" => s # "fulfill"
      PROVE  ExpiredInv'
  <2>1. /\ key' = [key EXCEPT ![c] = k] /\ strategy' = [strategy EXCEPT ![c] = s]
        /\ Uncalled(c) /\ k # None
    BY <1>2 DEF Call
  <2>2. \A d \in Calls : d # c => /\ key'[d] = key[d] /\ strategy'[d] = strategy[d]
                                  /\ captured'[d] = captured[d] /\ operation'[d] = operation[d]
                                  /\ awaits'[d] = awaits[d] /\ answer'[d] = answer[d]
    BY <1>2, <2>1
  <2>3. captured'[c] => strategy'[c] = "stale-revalidate"
    BY <1>2, <2>1 DEF ServesExpired
  <2>4. answer'[c] = "expired" => s # "fulfill"
    BY <1>2, <2>1
  <2>5. operation'[c] = "starting" => awaits'[c] = None /\ answer'[c] = "none"
    BY <1>2, <2>1
  <2>. QED  BY <1>2, <2>1, <2>2, <2>3, <2>4, <2>5
<1>3. ASSUME NEW c \in Calls, NEW k \in Keys, NEW s \in Strategies, Join(c, k, s)
      PROVE  ExpiredInv'
  BY <1>2, <1>3 DEF Join, Call
<1>4. ASSUME NEW c \in Calls, NEW k \in Keys, NEW s \in Strategies,
             Hit(c, k, s) \/ MissWithoutFetcher(c, k, s)
      PROVE  ExpiredInv'
  BY <1>2, <1>4 DEF Hit, MissWithoutFetcher, Call, ServesExpired, Origins
<1>5. ASSUME NEW c \in Calls, NEW k \in Keys, NEW s \in Strategies, Miss(c, k, s)
      PROVE  ExpiredInv'
  BY <1>2, <1>5 DEF Miss, StartFetcher, Call, ServesExpired, Origins
<1>6. ASSUME NEW c \in Calls, FetcherSettles(c) PROVE ExpiredInv'
  <2>1. PICK o \in Origins : Resolve(c, o) /\ (o = "expired" => captured[c])
    BY <1>6 DEF FetcherSettles, FetcherDelivers, FetcherDeliversUndefined, FetcherFails, Origins
  <2>2. operation[c] = "running"
    BY <2>1 DEF Resolve
  <2>. QED  BY <2>1, <2>2 DEF Resolve
<1>7. ASSUME NEW c \in Calls, Forget(c) PROVE ExpiredInv'
  BY <1>7 DEF Forget
<1>9. ASSUME NEW c \in Calls, Register(c) PROVE ExpiredInv'
  <2>1. /\ operation[c] = "starting" /\ operation' = [operation EXCEPT ![c] = "running"]
        /\ UNCHANGED <<key, strategy, captured, outcome>>
        /\ \/ captured[c] /\ answer' = [answer EXCEPT ![c] = "expired"] /\ UNCHANGED awaits
           \/ ~captured[c] /\ awaits' = [awaits EXCEPT ![c] = c] /\ UNCHANGED answer
    BY <1>9 DEF Register
  <2>2. key[c] # None
    BY <2>1
  <2>3. answer[c] = "none"
    BY <2>1
  <2>. QED  BY <2>1, <2>2, <2>3
<1>8. ASSUME NEW c \in Calls, Return(c) PROVE ExpiredInv'
  BY <1>8 DEF Return
<1>. QED
  BY <1>1, <1>3, <1>4, <1>5, <1>6, <1>7, <1>8, <1>9 DEF Next, Insert, Cleanup, Tick, vars

\* A caller that asks for 'fulfill' gets an expired value only from a background
\* fetch it joined and that failed.
THEOREM ExpiredIsExplained == Spec => []ExpiredOnlyFromFailedRevalidation
<1>1. Init => ExpiredInv
  BY DEF Init, ExpiredInv, Uncalled, ExpiredOnlyFromFailedRevalidation
<1>2. ExpiredInv => ExpiredOnlyFromFailedRevalidation
  BY DEF ExpiredInv
<1>. QED  BY <1>1, <1>2, ExpiredStep, TypeInvariant, PTL DEF Spec

-----------------------------------------------------------------------------
(***************************************************************************)
(* Every insertion that may take the cache over its limit sets a timer,    *)
(* and every timer brings it back to the limit.                            *)
(***************************************************************************)
LimitInv == IsFiniteSet(held) /\ OverLimitIsCleanedUp

LEMMA InsertItemKeepsLimit ==
  ASSUME TypeOK, LimitInv, NEW k, NEW ttl, InsertItem(k, ttl)
  PROVE  LimitInv'
<1>1. IsFiniteSet(held')
  BY FS_AddElement DEF LimitInv, InsertItem
<1>2. Cardinality(held') \in Nat
  BY <1>1, FS_CardinalityType
<1>. QED
  BY <1>1, <1>2, CacheAssumption DEF TypeOK, InsertItem, LimitInv, OverLimitIsCleanedUp

LEMMA LimitStep == TypeOK /\ LimitInv /\ [Next]_vars => LimitInv'
<1> SUFFICES ASSUME TypeOK, LimitInv, [Next]_vars PROVE LimitInv'
  OBVIOUS
<1>1. ASSUME UNCHANGED <<held, timers>> PROVE LimitInv'
  BY <1>1 DEF LimitInv, OverLimitIsCleanedUp
<1>2. ASSUME NEW k \in Keys, NEW ttl \in Lifetimes, Insert(k, ttl) PROVE LimitInv'
  BY <1>2, InsertItemKeepsLimit DEF Insert
<1>3. ASSUME Cleanup PROVE LimitInv'
  <2>1. IsFiniteSet(held') /\ Cardinality(held) \in Nat
    BY <1>3, FS_Subset, FS_CardinalityType DEF Cleanup, LimitInv
  <2>2. Cardinality(held') <= MaxItems
    BY <1>3, <2>1, CacheAssumption DEF Cleanup
  <2>. QED  BY <2>1, <2>2, FS_CardinalityType, CacheAssumption DEF LimitInv, OverLimitIsCleanedUp
<1>4. ASSUME NEW c \in Calls, FetcherSettles(c) PROVE LimitInv'
  BY <1>1, <1>4, InsertItemKeepsLimit
     DEF FetcherSettles, FetcherDelivers, FetcherDeliversUndefined, FetcherFails, entryVars
<1>. QED
  BY <1>1, <1>2, <1>3, <1>4
     DEF Next, Join, Hit, Miss, StartFetcher, MissWithoutFetcher, Call, Register, Forget, Return, Tick, vars, entryVars

\* Whenever the cache holds more than it may, a timer that evicts is set.
THEOREM CleanupIsComing == Spec => []OverLimitIsCleanedUp
<1>1. Init => LimitInv
  BY FS_EmptySet, CacheAssumption DEF Init, LimitInv, OverLimitIsCleanedUp
<1>2. LimitInv => OverLimitIsCleanedUp
  BY DEF LimitInv
<1>. QED  BY <1>1, <1>2, LimitStep, CacheTypes, PTL DEF Spec
=============================================================================
