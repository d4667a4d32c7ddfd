------------------------- MODULE RuntimeLoadProofs -------------------------
(***************************************************************************)
(* Proofs about RuntimeLoad.  Of the walk through the imports: the         *)
(* modules visited are those listed and those being walked, and whatever a *)
(* module behind the walk imports has been visited or is still ahead of    *)
(* it.  Of the injectors: no object exists whose construction is in        *)
(* progress, and each construction waits for the one above it.  Neither    *)
(* recursion is endless.                                                   *)
(***************************************************************************)
EXTENDS RuntimeLoad, SequenceTheorems, FiniteSetTheorems, WellFoundedInduction, TLAPS
---------------------------------------------------------------------------
(***************************************************************************)
(* A construction.  What is in progress is a chain: each part of it waits  *)
(* for the one above, none of the objects under construction exists, and   *)
(* what a factory has gone past is there.  So no object is made a second   *)
(* time, even though a cycle may start the construction of one a second    *)
(* time.                                                                   *)
(***************************************************************************)
\* All that a part has gone past is there.
Sound(f) ==
    /\ f.kind # "get" => f.asked.key \in Provided(f.injector)
    /\ f.factory # 0 => f.factory \in DOMAIN Plan(f)
    /\ \A g \in DOMAIN Plan(f) : \A d \in DOMAIN Plan(f)[g] :
          (g < f.factory \/ (g = f.factory /\ d < f.next))
          => Satisfied(f.injector, Plan(f)[g][d])

Waits(f, above) ==
    /\ f.next <= Len(DependenciesOf(f))
    /\ above.asked = DependenciesOf(f)[f.next]
    /\ above.injector \in Holders(f.injector, above.asked)

NotBuilt(f) == f.asked.key \notin built[f.injector]

IsChain(s) ==
    \A n \in DOMAIN s :
        /\ Sound(s[n])
        /\ n = 1 => s[n].kind # "provide"
        /\ n > 1 => s[n].kind = "provide" /\ NotBuilt(s[n])
        /\ n < Len(s) => Waits(s[n], s[n + 1])

Chain == IsChain(frames)

MadeIsBuilt ==
    \A i \in Injectors, k \in Keys : makings[i][k] = IF k \in built[i] THEN 1 ELSE 0

BuiltIsProvided == \A i \in Injectors : built[i] \subseteq Provided(i)

InjectorInv ==
    /\ InjectorTypeOK
    /\ BuiltIsProvided
    /\ BuiltOnDependencies
    /\ MadeIsBuilt
    /\ Chain

\* The invariant gives what the runs check.
LEMMA InjectorInvMeans == InjectorInv => MadeOnce /\ BuiltOnDependencies
BY DEF InjectorInv, MadeIsBuilt, MadeOnce

LEMMA InjectorInvInit == InjectorInit => InjectorInv
<1> SUFFICES ASSUME InjectorInit PROVE InjectorInv
  OBVIOUS
<1>1. InjectorTypeOK
  <2>1. \A i \in Injectors : Provided(i) = {}
    BY DEF InjectorInit, Provided
  <2>2. /\ DOMAIN providers = Injectors /\ \A i \in Injectors : DOMAIN providers[i] = Keys
        /\ built \in [Injectors -> SUBSET Keys] /\ counter \in [Injectors -> Nat]
        /\ makings \in [Injectors -> [Keys -> Nat]]
    BY DEF InjectorInit
  <2>3. frames \in Seq(InjectorFrame) /\ frames = <<>>
    BY DEF InjectorInit
  <2>4. outcome = "none" /\ outcome \in Outcomes
    BY DEF InjectorInit, Outcomes
  <2>5. gets \in 0..MaxGets
    BY InjectorAssumption DEF InjectorInit
  <2>6. failed \in BOOLEAN
    BY DEF InjectorInit
  <2> QED BY <2>1, <2>2, <2>3, <2>4, <2>5, <2>6 DEF InjectorTypeOK
<1>2. BuiltIsProvided /\ BuiltOnDependencies /\ MadeIsBuilt /\ Chain
  BY DEF InjectorInit, BuiltIsProvided, BuiltOnDependencies, MadeIsBuilt, Chain, IsChain
<1> QED BY <1>1, <1>2 DEF InjectorInv

\* The plan of what is in progress is a provider, and its dependencies a sequence.
LEMMA PlanIsProvider ==
    ASSUME InjectorTypeOK, NEW f \in InjectorFrame, Sound(f)
    PROVE  /\ IsProvider(Plan(f))
           /\ DependenciesOf(f) \in Seq(Dependency)
           /\ f.injector \in Injectors /\ f.asked \in Dependency /\ f.asked.key \in Keys
           /\ f.factory \in Nat /\ f.next \in Nat \ {0}
<1>1. /\ f.injector \in Injectors /\ f.asked \in Dependency
      /\ f.factory \in Nat /\ f.next \in Nat \ {0}
  BY DEF InjectorFrame
<1>2. f.asked.key \in Keys
  BY <1>1 DEF Dependency
<1>3. IsProvider(Plan(f))
  <2>1. CASE f.kind = "get"
    BY <1>1, <2>1 DEF Plan, IsProvider
  <2>2. CASE f.kind # "get"
    BY <1>1, <2>2 DEF Plan, Sound, InjectorTypeOK
  <2> QED BY <2>1, <2>2
<1>4. DependenciesOf(f) \in Seq(Dependency)
  BY <1>3 DEF DependenciesOf, Sound, IsProvider
<1> QED BY <1>1, <1>2, <1>3, <1>4

\* One injector answers, one of those that could and that provides the key.
LEMMA HolderProvides ==
    ASSUME NEW i \in Injectors, NEW dep \in Dependency, NEW at \in Holders(i, dep)
    PROVE  /\ at \in Injectors /\ dep.key \in Provided(at) /\ at <= i
           /\ \A h \in Holders(i, dep) : h = at
BY InjectorAssumption DEF Holders, Candidates, Injectors, Dependency

\* What is there stays there as more is built.
LEMMA SatisfiedStays ==
    ASSUME UNCHANGED providers, \A i \in Injectors : built[i] \subseteq built'[i],
           NEW i \in Injectors, NEW dep \in Dependency, Satisfied(i, dep)
    PROVE  Satisfied(i, dep)'
<1>1. Holders(i, dep)' = Holders(i, dep)
  BY DEF Holders, Candidates, Provided
<1> QED BY <1>1, HolderProvides DEF Satisfied

LEMMA SoundStays ==
    ASSUME InjectorTypeOK, UNCHANGED providers,
           \A i \in Injectors : built[i] \subseteq built'[i],
           NEW f \in InjectorFrame, Sound(f)
    PROVE  Sound(f)'
<1>1. Plan(f)' = Plan(f) /\ \A i : Provided(i)' = Provided(i)
  BY DEF Plan, Provided
<1>2. IsProvider(Plan(f)) /\ f.injector \in Injectors
  BY PlanIsProvider
<1>3. \A g \in DOMAIN Plan(f) : \A d \in DOMAIN Plan(f)[g] : Plan(f)[g][d] \in Dependency
  BY <1>2 DEF IsProvider
<1> QED BY <1>1, <1>2, <1>3, SatisfiedStays DEF Sound

LEMMA WaitsStays ==
    ASSUME UNCHANGED providers, NEW f, NEW g, Waits(f, g)
    PROVE  Waits(f, g)'
BY DEF Waits, DependenciesOf, Plan, Holders, Candidates, Provided

\* Nothing is in progress any more, as after an error.
LEMMA IdleKeeps ==
    ASSUME InjectorInv, UNCHANGED <<providers, built, makings>>, frames' = <<>>,
           InjectorTypeOK'
    PROVE  InjectorInv'
<1>1. BuiltIsProvided' /\ MadeIsBuilt' /\ Chain'
  BY DEF InjectorInv, BuiltIsProvided, MadeIsBuilt, Chain, IsChain, Provided
<1>2. BuiltOnDependencies'
  BY DEF InjectorInv, BuiltOnDependencies, SatisfiedFactory, Satisfied, Holders, Candidates, Provided
<1> QED BY <1>1, <1>2 DEF InjectorInv

\* The part that runs: it has gone past what is before its position.
LEMMA CurrentFrame ==
    ASSUME InjectorInv, frames # <<>>
    PROVE  /\ frames \in Seq(InjectorFrame) /\ Len(frames) \in Nat \ {0}
           /\ Current = frames[Len(frames)] /\ Current \in InjectorFrame /\ Sound(Current)
           /\ DOMAIN frames = 1..Len(frames)
           /\ \A n \in 1..Len(frames) : frames[n] \in InjectorFrame
BY DEF InjectorInv, InjectorTypeOK, Current, Chain, IsChain

LEMMA ChainIs == ASSUME NEW s, frames' = s, IsChain(s)' PROVE Chain'
BY DEF Chain

\* What was a chain is one after a step that builds none of its objects.
LEMMA ChainStays ==
    ASSUME UNCHANGED <<providers, built>>, NEW s, IsChain(s), frames' = s
    PROVE  Chain'
<1>1. \A f : Sound(f)' = Sound(f) /\ NotBuilt(f)' = NotBuilt(f)
  BY DEF Sound, NotBuilt, Plan, Provided, Satisfied, Holders, Candidates
<1>2. \A f, g : Waits(f, g)' = Waits(f, g)
  BY DEF Waits, DependenciesOf, Plan, Holders, Candidates, Provided
<1>3. IsChain(s)'
  BY <1>1, <1>2 DEF IsChain
<1> QED BY <1>3, ChainIs


\* The part that runs goes on to something sound.
LEMMA GoingOnKeeps ==
    ASSUME InjectorInv, frames # <<>>,
           UNCHANGED <<providers, built, counter, outcome, gets, failed, makings>>,
           NEW g \in InjectorFrame, Sound(g),
           g.kind = Current.kind, g.injector = Current.injector, g.asked = Current.asked,
           frames' = [frames EXCEPT ![Len(frames)] = g]
    PROVE  InjectorInv'
<1>1. PICK n \in Nat \ {0}, f \in InjectorFrame :
        n = Len(frames) /\ f = Current /\ f = frames[n] /\ Sound(f)
  BY CurrentFrame
<1>2. /\ frames \in Seq(InjectorFrame) /\ DOMAIN frames = 1..n
      /\ \A m \in 1..n : frames[m] \in InjectorFrame
  BY <1>1, CurrentFrame
<1>3. PICK s : s = frames'
  OBVIOUS
<1>4. /\ s \in Seq(InjectorFrame) /\ Len(s) = n /\ DOMAIN s = 1..n /\ s # <<>>
      /\ s[n] = g /\ \A m \in 1..n-1 : s[m] = frames[m]
  BY <1>1, <1>2, <1>3
<1>5. BuiltIsProvided' /\ BuiltOnDependencies' /\ MadeIsBuilt'
  BY DEF InjectorInv, BuiltIsProvided, BuiltOnDependencies, MadeIsBuilt, Provided,
         SatisfiedFactory, Satisfied, Holders, Candidates
<1>6. InjectorTypeOK'
  BY <1>3, <1>4 DEF InjectorInv, InjectorTypeOK, Provided
<1>7. IsChain(s)
  <2>1. IsChain(frames)
    BY DEF InjectorInv, Chain
  <2> SUFFICES ASSUME NEW m \in 1..n
               PROVE  /\ Sound(s[m])
                      /\ m = 1 => s[m].kind # "provide"
                      /\ m > 1 => s[m].kind = "provide" /\ NotBuilt(s[m])
                      /\ m < n => Waits(s[m], s[m + 1])
    BY <1>4 DEF IsChain
  <2>2. CASE m = n
    BY <1>1, <1>2, <1>4, <2>1, <2>2 DEF IsChain, NotBuilt
  <2>3. CASE m < n - 1
    BY <1>1, <1>2, <1>4, <2>1, <2>3 DEF IsChain
  <2>4. CASE m = n - 1
    <3>1. s[m] = frames[m] /\ s[m + 1] = g /\ frames[m + 1] = f /\ m \in DOMAIN frames
      BY <1>1, <1>2, <1>4, <2>4
    <3>2. Waits(frames[m], f)
      BY <1>1, <2>1, <2>4, <3>1 DEF IsChain
    <3>3. Waits(frames[m], g)
      BY <1>1, <3>2 DEF Waits
    <3> QED BY <1>1, <2>1, <2>4, <3>1, <3>3 DEF IsChain
  <2> QED BY <1>1, <2>2, <2>3, <2>4
<1>8. Chain'
  BY <1>3, <1>7, ChainStays
<1> QED BY <1>5, <1>6, <1>8 DEF InjectorInv

LEMMA FoundKeeps == ASSUME InjectorInv, Found PROVE InjectorInv'
<1>1. /\ frames # <<>> /\ UNCHANGED <<providers, built, counter, outcome, gets, failed, makings>>
      /\ frames' = NextDependency
  BY DEF Found, Wanting, Idle
<1>2. PICK f \in InjectorFrame : f = Current /\ f = frames[Len(frames)] /\ Sound(f)
  BY <1>1, CurrentFrame
<1>3. /\ f.next <= Len(DependenciesOf(f)) /\ f.next \in Nat \ {0}
      /\ Satisfied(f.injector, DependenciesOf(f)[f.next])
  BY <1>2, PlanIsProvider DEF Found, Wanting, Wanted, Answering, Satisfied, InjectorInv
<1> DEFINE g == [f EXCEPT !.next = @ + 1]
<1>4. /\ g \in InjectorFrame /\ g.next = f.next + 1 /\ g.kind = f.kind
      /\ g.injector = f.injector /\ g.asked = f.asked /\ g.factory = f.factory
  BY <1>3 DEF InjectorFrame
<1>5. frames' = [frames EXCEPT ![Len(frames)] = g]
  BY <1>1, <1>2 DEF NextDependency
<1> HIDE DEF g
<1>6. Sound(g)
  <2>1. Plan(g) = Plan(f)
    BY <1>4 DEF Plan
  <2>2. f.factory # 0 => DependenciesOf(f) = Plan(f)[f.factory]
    BY DEF DependenciesOf
  <2>3. IsProvider(Plan(f)) /\ f.factory \in Nat
    BY <1>2, PlanIsProvider DEF InjectorInv
  <2>4. ASSUME NEW h \in DOMAIN Plan(f), NEW d \in DOMAIN Plan(f)[h],
               h < f.factory \/ (h = f.factory /\ d < f.next + 1)
        PROVE  Satisfied(f.injector, Plan(f)[h][d])
    <3>1. Plan(f)[h] \in Seq(Dependency) /\ h \in Nat \ {0} /\ d \in Nat
      BY <2>3 DEF IsProvider
    <3>2. CASE h < f.factory \/ (h = f.factory /\ d < f.next)
      BY <1>2, <2>4, <3>2 DEF Sound
    <3>3. CASE h = f.factory /\ d = f.next
      BY <1>3, <2>2, <3>1, <3>3
    <3> QED BY <1>3, <2>4, <3>1, <3>2, <3>3
  <2> QED BY <1>2, <1>4, <2>1, <2>4 DEF Sound
<1> QED BY <1>1, <1>2, <1>4, <1>5, <1>6, GoingOnKeeps

\* A factory is past when the position is past its dependencies.
LEMMA ReadyIsSatisfied ==
    ASSUME InjectorInv, Ready
    PROVE  \A h \in DOMAIN Plan(Current) : \A d \in DOMAIN Plan(Current)[h] :
               h <= Current.factory => Satisfied(Current.injector, Plan(Current)[h][d])
<1>1. PICK f \in InjectorFrame : f = Current /\ Sound(f) /\ f.next > Len(DependenciesOf(f))
  BY CurrentFrame DEF Ready, Idle
<1>2. IsProvider(Plan(f)) /\ f.factory \in Nat /\ f.next \in Nat \ {0}
  BY <1>1, PlanIsProvider DEF InjectorInv
<1> SUFFICES ASSUME NEW h \in DOMAIN Plan(f), NEW d \in DOMAIN Plan(f)[h], h <= f.factory
             PROVE  Satisfied(f.injector, Plan(f)[h][d])
  BY <1>1
<1>3. Plan(f)[h] \in Seq(Dependency) /\ h \in Nat \ {0} /\ d \in 1..Len(Plan(f)[h])
  BY <1>2 DEF IsProvider
<1>4. h = f.factory => d < f.next
  BY <1>1, <1>2, <1>3 DEF DependenciesOf
<1> QED BY <1>1, <1>2, <1>3, <1>4 DEF Sound

LEMMA NextFactoryKeeps == ASSUME InjectorInv, NextFactory PROVE InjectorInv'
<1>1. PICK m \in Remaining :
        /\ \A h \in Remaining : m <= h
        /\ frames' = [frames EXCEPT ![Len(frames)].factory = m, ![Len(frames)].next = 1]
  BY DEF NextFactory
<1>2. /\ frames # <<>> /\ Ready
      /\ UNCHANGED <<providers, built, counter, outcome, gets, failed, makings>>
  BY DEF NextFactory, Ready, Idle
<1>3. PICK f \in InjectorFrame : /\ f = Current /\ f = frames[Len(frames)] /\ Sound(f)
                                 /\ frames \in Seq(InjectorFrame) /\ Len(frames) \in Nat \ {0}
  BY <1>2, CurrentFrame
<1>4. IsProvider(Plan(f)) /\ f.factory \in Nat
  BY <1>3, PlanIsProvider DEF InjectorInv
<1>5. m \in DOMAIN Plan(f) /\ m > f.factory /\ m \in Nat \ {0}
  BY <1>3, <1>4 DEF Remaining, IsProvider
<1> DEFINE f1 == [f EXCEPT !.factory = m]
           g == [f1 EXCEPT !.next = 1]
<1>6. /\ g \in InjectorFrame /\ g.next = 1 /\ g.kind = f.kind
      /\ g.injector = f.injector /\ g.asked = f.asked /\ g.factory = m
  <2>1. /\ f1 \in InjectorFrame /\ f1.kind = f.kind
        /\ f1.injector = f.injector /\ f1.asked = f.asked /\ f1.factory = m
    BY <1>5 DEF InjectorFrame
  <2> HIDE DEF f1
  <2> QED BY <2>1 DEF InjectorFrame
<1>7. frames' = [frames EXCEPT ![Len(frames)] = g]
  BY <1>1, <1>3
<1> HIDE DEF g, f1
<1>8. Sound(g)
  <2>1. Plan(g) = Plan(f)
    BY <1>6 DEF Plan
  <2>2. ASSUME NEW h \in DOMAIN Plan(f), NEW d \in DOMAIN Plan(f)[h],
               h < m \/ (h = m /\ d < 1)
        PROVE  Satisfied(f.injector, Plan(f)[h][d])
    <3>1. Plan(f)[h] \in Seq(Dependency) /\ h \in Nat \ {0} /\ d \in Nat \ {0}
      BY <1>4 DEF IsProvider
    <3>2. h < m
      BY <2>2, <3>1
    <3>3. h \notin Remaining
      BY <1>1, <1>5, <3>1, <3>2
    <3>4. h <= f.factory
      BY <1>3, <1>4, <3>1, <3>3 DEF Remaining
    <3> QED BY <1>2, <1>3, <3>4, ReadyIsSatisfied
  <2> QED BY <1>3, <1>5, <1>6, <2>1, <2>2 DEF Sound
<1> QED BY <1>2, <1>3, <1>6, <1>7, <1>8, GoingOnKeeps

LEMMA NotProvidedKeeps == ASSUME InjectorInv, NotProvided PROVE InjectorInv'
<1>1. InjectorTypeOK'
  BY EmptySeq DEF InjectorInv, InjectorTypeOK, NotProvided, Fail, Provided, Outcomes
<1> QED BY <1>1, IdleKeeps DEF NotProvided, Fail

LEMMA FactoryThrowsKeeps == ASSUME InjectorInv, FactoryThrows PROVE InjectorInv'
<1>1. InjectorTypeOK'
  BY EmptySeq DEF InjectorInv, InjectorTypeOK, FactoryThrows, Fail, Provided, Outcomes
<1> QED BY <1>1, IdleKeeps DEF FactoryThrows, Fail

\* An operation begins when nothing is in progress.
LEMMA BeginKeeps ==
    ASSUME InjectorInv, NEW kind \in {"get", "instantiate"}, NEW i \in Injectors,
           NEW dep \in Dependency, kind # "get" => dep.key \in Provided(i), Begin(kind, i, dep)
    PROVE  InjectorInv'
<1> DEFINE f == Frame0(kind, i, dep)
<1>1. /\ UNCHANGED <<providers, built, counter, failed, makings>>
      /\ frames' = <<f>> /\ outcome' = "running" /\ gets < MaxGets /\ gets' = gets + 1
  BY DEF Begin
<1>2. /\ f \in InjectorFrame /\ f.kind = kind /\ f.injector = i /\ f.asked = dep
      /\ f.factory = 0 /\ f.next = 1
  BY DEF Frame0, InjectorFrame
<1> HIDE DEF f
<1>3. Plan(f) = IF kind = "get" THEN <<<<dep>>>> ELSE providers[i][dep.key]
  BY <1>2 DEF Plan
<1>4. \A g \in DOMAIN Plan(f) : g \in Nat \ {0}
  BY <1>3 DEF InjectorInv, InjectorTypeOK, IsProvider
<1>5. Sound(f)
  BY <1>2, <1>4 DEF Sound
<1>6. IsChain(<<f>>)
  BY <1>2, <1>5 DEF IsChain
<1>7. Chain'
  BY <1>1, <1>6, ChainStays
<1>8. /\ BuiltIsProvided' /\ BuiltOnDependencies' /\ MadeIsBuilt'
  BY <1>1 DEF InjectorInv, BuiltIsProvided, BuiltOnDependencies, MadeIsBuilt, Provided,
              SatisfiedFactory, Satisfied, Holders, Candidates
<1>9. frames' \in Seq(InjectorFrame) /\ frames' # <<>>
  BY <1>1, <1>2
<1>10. gets' \in 0..MaxGets
  BY <1>1, InjectorAssumption DEF InjectorInv, InjectorTypeOK
<1>11. InjectorTypeOK'
  BY <1>1, <1>9, <1>10 DEF InjectorInv, InjectorTypeOK, Provided, Outcomes
<1> QED BY <1>7, <1>8, <1>11 DEF InjectorInv

LEMMA ConstructKeeps == ASSUME InjectorInv, Construct PROVE InjectorInv'
<1>1. PICK at \in Answering :
        /\ Wanting /\ Wanted.key \notin built[at] /\ New(at, Cardinality(Provided(at)))
  BY DEF Construct
<1>2. frames # <<>> /\ UNCHANGED <<providers, built, gets, failed, makings>>
  BY <1>1 DEF New, Wanting, Idle
<1>3. PICK n \in Nat \ {0}, f \in InjectorFrame :
        n = Len(frames) /\ f = Current /\ f = frames[n] /\ Sound(f)
  BY <1>2, CurrentFrame
<1>4. PICK dep \in Dependency :
        /\ dep = Wanted /\ dep = DependenciesOf(f)[f.next] /\ f.next <= Len(DependenciesOf(f))
        /\ at \in Holders(f.injector, dep) /\ f.injector \in Injectors
  <2>1. DependenciesOf(f) \in Seq(Dependency) /\ f.next \in Nat \ {0} /\ f.injector \in Injectors
    BY <1>3, PlanIsProvider DEF InjectorInv
  <2>2. f.next <= Len(DependenciesOf(f)) /\ Wanted = DependenciesOf(f)[f.next]
        /\ Answering = Holders(f.injector, Wanted)
    BY <1>1, <1>3 DEF Wanting, Wanted, Answering
  <2> QED BY <1>1, <2>1, <2>2
<1>5. at \in Injectors /\ dep.key \in Provided(at)
  BY <1>4, HolderProvides
<1>6. counter' \in [Injectors -> Nat]
  BY <1>1, <1>5 DEF New, InjectorInv, InjectorTypeOK
<1>7. CASE counter[at] > Cardinality(Provided(at))
  <2>1. frames' = <<>> /\ outcome' = "cyclic"
    BY <1>1, <1>7 DEF New, Fail
  <2>2. InjectorTypeOK'
    BY <1>2, <1>6, <2>1, EmptySeq DEF InjectorInv, InjectorTypeOK, Provided, Outcomes
  <2> QED BY <1>2, <2>1, <2>2, IdleKeeps
<1>8. CASE ~(counter[at] > Cardinality(Provided(at)))
  <2> DEFINE g == Frame0("provide", at, dep)
  <2>1. frames' = Append(frames, g) /\ outcome' = outcome
    BY <1>1, <1>4, <1>8 DEF New
  <2>2. /\ g \in InjectorFrame /\ g.kind = "provide" /\ g.injector = at /\ g.asked = dep
        /\ g.factory = 0 /\ g.next = 1
    BY <1>5 DEF Frame0, InjectorFrame
  <2> HIDE DEF g
  <2>3. PICK s : s = frames'
    OBVIOUS
  <2>4. frames \in Seq(InjectorFrame) /\ DOMAIN frames = 1..n
    BY <1>2, <1>3, CurrentFrame
  <2>5. /\ s \in Seq(InjectorFrame) /\ DOMAIN s = 1..n+1 /\ Len(s) = n + 1 /\ s # <<>>
        /\ s[n + 1] = g /\ \A m \in 1..n : s[m] = frames[m]
    BY <1>3, <2>1, <2>2, <2>3, <2>4
  <2>6. Sound(g)
    <3>1. Plan(g) = providers[at][dep.key]
      BY <2>2 DEF Plan
    <3>2. \A h \in DOMAIN Plan(g) : h \in Nat \ {0}
      BY <1>5, <3>1 DEF InjectorInv, InjectorTypeOK, IsProvider
    <3> QED BY <1>5, <2>2, <3>2 DEF Sound
  <2>7. Waits(f, g) /\ NotBuilt(g)
    BY <1>1, <1>4, <2>2 DEF Waits, NotBuilt
  <2>8. IsChain(s)
    <3>1. IsChain(frames)
      BY DEF InjectorInv, Chain
    <3> SUFFICES ASSUME NEW m \in 1..n+1
                 PROVE  /\ Sound(s[m])
                        /\ m = 1 => s[m].kind # "provide"
                        /\ m > 1 => s[m].kind = "provide" /\ NotBuilt(s[m])
                        /\ m < n + 1 => Waits(s[m], s[m + 1])
      BY <2>5 DEF IsChain
    <3>2. CASE m = n + 1
      BY <1>3, <2>2, <2>5, <2>6, <2>7, <3>2
    <3>3. CASE m = n
      BY <1>3, <2>4, <2>5, <2>7, <3>1, <3>3 DEF IsChain
    <3>4. CASE m < n
      BY <1>3, <2>4, <2>5, <3>1, <3>4 DEF IsChain
    <3> QED BY <1>3, <3>2, <3>3, <3>4
  <2>9. Chain'
    BY <1>2, <2>3, <2>8, ChainStays
  <2>10. BuiltIsProvided' /\ BuiltOnDependencies' /\ MadeIsBuilt'
    BY <1>2 DEF InjectorInv, BuiltIsProvided, BuiltOnDependencies, MadeIsBuilt, Provided,
                SatisfiedFactory, Satisfied, Holders, Candidates
  <2>11. InjectorTypeOK'
    BY <1>2, <1>6, <2>1, <2>3, <2>5 DEF InjectorInv, InjectorTypeOK, Provided
  <2> QED BY <2>9, <2>10, <2>11 DEF InjectorInv
<1> QED BY <1>7, <1>8

\* get() or instantiateResolved() returns.
LEMMA ReturnKeeps == ASSUME InjectorInv, Finish, Current.kind # "provide" PROVE InjectorInv'
<1>1. frames' = <<>> /\ outcome' = "value"
      /\ UNCHANGED <<built, makings, providers, counter, gets, failed>>
  BY DEF Finish
<1>2. InjectorTypeOK'
  BY <1>1, EmptySeq DEF InjectorInv, InjectorTypeOK, Provided, Outcomes
<1> QED BY <1>1, <1>2, IdleKeeps

\* An object is finished: nothing below it in the chain was making the same object, for
\* that would be waiting for something that exists by now.
LEMMA KeepObjectKeeps == ASSUME InjectorInv, Finish, Current.kind = "provide" PROVE InjectorInv'
<1>1. /\ frames # <<>> /\ Ready /\ Remaining = {}
      /\ UNCHANGED <<providers, counter, gets, failed, outcome>>
  BY DEF Finish, Ready, Idle
<1>2. PICK n \in Nat \ {0}, f \in InjectorFrame :
        /\ n = Len(frames) /\ f = Current /\ f = frames[n] /\ Sound(f)
        /\ frames \in Seq(InjectorFrame) /\ DOMAIN frames = 1..n
        /\ \A m \in 1..n : frames[m] \in InjectorFrame
  BY <1>1, CurrentFrame
<1>3. IsChain(frames)
  BY DEF InjectorInv, Chain
<1>4. n > 1 /\ NotBuilt(f)
  BY <1>2, <1>3 DEF IsChain
<1>5. PICK e \in InjectorFrame : e = frames[n - 1] /\ Sound(e) /\ Waits(e, f)
  <2>1. n - 1 \in 1..n /\ n - 1 < Len(frames) /\ (n - 1) + 1 = n
    BY <1>2, <1>4
  <2> QED BY <1>2, <1>3, <2>1 DEF IsChain
<1>6. PICK i \in Injectors, k \in Keys :
        /\ i = f.injector /\ k = f.asked.key /\ f.asked \in Dependency
        /\ k \in Provided(i) /\ Plan(f) = providers[i][k] /\ k \notin built[i]
  BY <1>2, <1>4, PlanIsProvider DEF InjectorInv, Sound, Plan, NotBuilt
<1>7. \A h \in DOMAIN Plan(f) : \A d \in DOMAIN Plan(f)[h] : Satisfied(i, Plan(f)[h][d])
  <2>1. ASSUME NEW h \in DOMAIN Plan(f) PROVE h <= f.factory
    BY <1>1, <1>2, <2>1, PlanIsProvider DEF Remaining, InjectorInv, IsProvider
  <2> QED BY <1>1, <1>2, <1>6, <2>1, ReadyIsSatisfied
<1>8. /\ built' = [built EXCEPT ![i] = @ \cup {k}]
      /\ makings' = [makings EXCEPT ![i][k] = @ + 1]
  BY <1>2, <1>6 DEF Finish
<1>9. /\ built' \in [Injectors -> SUBSET Keys] /\ makings' \in [Injectors -> [Keys -> Nat]]
      /\ \A j \in Injectors : built[j] \subseteq built'[j]
      /\ \A j \in Injectors : built'[j] = IF j = i THEN built[j] \cup {k} ELSE built[j]
  <2>1. built \in [Injectors -> SUBSET Keys] /\ makings \in [Injectors -> [Keys -> Nat]]
    BY DEF InjectorInv, InjectorTypeOK
  <2>2. \A j \in Injectors : built'[j] = IF j = i THEN built[j] \cup {k} ELSE built[j]
    BY <1>8, <2>1
  <2>3. built' \in [Injectors -> SUBSET Keys]
    BY <1>8, <2>1
  <2>4. [makings[i] EXCEPT ![k] = @ + 1] \in [Keys -> Nat]
    BY <2>1
  <2>5. makings' \in [Injectors -> [Keys -> Nat]]
    BY <1>8, <2>1, <2>4
  <2> QED BY <2>2, <2>3, <2>5
<1>10. BuiltIsProvided'
  <2>1. \A j \in Injectors : Provided(j)' = Provided(j)
    BY <1>1 DEF Provided
  <2> QED BY <1>6, <1>9, <2>1 DEF InjectorInv, BuiltIsProvided
<1>11. MadeIsBuilt'
  <2>1. MadeIsBuilt /\ makings \in [Injectors -> [Keys -> Nat]]
    BY DEF InjectorInv, InjectorTypeOK
  <2>2. \A j \in Injectors, h \in Keys :
           makings'[j][h] = IF j = i /\ h = k THEN makings[j][h] + 1 ELSE makings[j][h]
    BY <1>8, <2>1
  <2>3. makings[i][k] = 0
    BY <1>6, <2>1 DEF MadeIsBuilt
  <2> QED BY <1>6, <1>9, <2>1, <2>2, <2>3 DEF MadeIsBuilt
<1>12. BuiltOnDependencies'
  <2> SUFFICES ASSUME NEW j \in Injectors, NEW h \in built'[j],
                      NEW g \in DOMAIN providers[j][h], NEW d \in DOMAIN providers[j][h][g]
               PROVE  Satisfied(j, providers[j][h][g][d])'
    BY <1>1 DEF BuiltOnDependencies, SatisfiedFactory
  <2>1. h \in Provided(j)
    BY <1>6, <1>9 DEF InjectorInv, BuiltIsProvided
  <2>2. providers[j][h][g][d] \in Dependency
    BY <2>1 DEF InjectorInv, InjectorTypeOK, IsProvider
  <2>3. Satisfied(j, providers[j][h][g][d])
    <3>1. CASE j = i /\ h = k
      BY <1>6, <1>7, <3>1
    <3>2. CASE h \in built[j]
      BY <3>2 DEF InjectorInv, BuiltOnDependencies, SatisfiedFactory
    <3> QED BY <1>9, <3>1, <3>2
  <2>4. PICK dep \in Dependency : dep = providers[j][h][g][d]
    BY <2>2
  <2>5. Satisfied(j, dep)'
    BY <1>1, <1>9, <2>3, <2>4, SatisfiedStays
  <2>6. dep = (providers[j][h][g][d])'
    BY <1>1, <2>4
  <2> QED BY <2>5, <2>6 DEF Satisfied, Holders, Candidates, Provided
<1> DEFINE g == [e EXCEPT !.next = @ + 1]
<1>13. /\ g \in InjectorFrame /\ g.next = e.next + 1 /\ g.kind = e.kind
       /\ g.injector = e.injector /\ g.asked = e.asked /\ g.factory = e.factory
       /\ e.next \in Nat \ {0}
  BY DEF InjectorFrame
<1>14. PICK s : s = frames'
  OBVIOUS
<1>15. /\ s \in Seq(InjectorFrame) /\ Len(s) = n - 1 /\ DOMAIN s = 1..n-1 /\ s # <<>>
       /\ s[n - 1] = g /\ \A m \in 1..n-2 : s[m] = frames[m]
  <2> DEFINE r == SubSeq(frames, 1, n - 1)
  <2>1. r \in Seq(InjectorFrame) /\ Len(r) = n - 1 /\ \A m \in 1..n-1 : r[m] = frames[m]
    BY <1>2, <1>4
  <2>2. s = [r EXCEPT ![n - 1].next = @ + 1]
    BY <1>2, <1>14 DEF Finish
  <2> HIDE DEF r
  <2>3. r[n - 1] = e /\ n - 1 \in 1..n-1
    BY <1>4, <1>5, <2>1
  <2>4. s = [r EXCEPT ![n - 1] = g]
    BY <2>2, <2>3
  <2> HIDE DEF g
  <2>5. s \in Seq(InjectorFrame) /\ Len(s) = n - 1 /\ DOMAIN s = 1..n-1
        /\ s[n - 1] = g /\ \A m \in 1..n-2 : s[m] = r[m]
    BY <1>4, <1>13, <2>1, <2>4
  <2>6. \A m \in 1..n-2 : m \in 1..n-1
    BY <1>4
  <2> QED BY <1>4, <2>1, <2>5, <2>6, EmptySeq
<1> HIDE DEF g
<1>16. InjectorTypeOK'
  <2>1. \A j \in Injectors : Provided(j)' = Provided(j)
    BY <1>1 DEF Provided
  <2> QED BY <1>1, <1>9, <1>14, <1>15, <2>1 DEF InjectorInv, InjectorTypeOK
<1>17. ASSUME NEW m \in 2..n-1
       PROVE  frames[m].asked.key \notin built'[frames[m].injector]
  <2>1. PICK b \in InjectorFrame, c \in InjectorFrame :
          /\ b = frames[m] /\ c = frames[m + 1] /\ Sound(b) /\ b.kind = "provide"
          /\ NotBuilt(b) /\ NotBuilt(c) /\ Waits(b, c)
    <3>1. m \in 1..n /\ m + 1 \in 1..n /\ m > 1 /\ m + 1 > 1 /\ m < n
      BY <1>4
    <3> QED BY <1>2, <1>3, <3>1 DEF IsChain
  <2>2. /\ b.injector \in Injectors /\ b.factory \in Nat /\ b.next \in Nat \ {0}
        /\ DependenciesOf(b) \in Seq(Dependency)
    BY <2>1, PlanIsProvider DEF InjectorInv
  <2>3. ASSUME b.injector = i, b.asked.key = k PROVE FALSE
    <3>1. Plan(b) = Plan(f)
      BY <1>6, <2>1, <2>3 DEF Plan
    <3>2. b.factory # 0
      BY <2>1, <2>2 DEF Waits, DependenciesOf
    <3>3. b.factory \in DOMAIN Plan(f) /\ DependenciesOf(b) = Plan(f)[b.factory]
      BY <2>1, <3>1, <3>2 DEF Sound, DependenciesOf
    <3>4. b.next \in DOMAIN DependenciesOf(b)
      BY <2>1, <2>2 DEF Waits
    <3>5. Satisfied(i, c.asked)
      BY <1>7, <2>1, <3>3, <3>4 DEF Waits
    <3>6. c.injector \in Holders(i, c.asked)
      BY <2>1, <2>3 DEF Waits
    <3> QED BY <2>1, <3>5, <3>6 DEF Satisfied, NotBuilt
  <2>4. b.asked.key \notin built'[b.injector]
    BY <1>9, <2>1, <2>2, <2>3 DEF NotBuilt
  <2> QED BY <2>1, <2>4
<1>18. Sound(g)'
  <2>1. Sound(e)'
    BY <1>1, <1>5, <1>9, SoundStays DEF InjectorInv
  <2>2. /\ e.injector \in Injectors /\ e.factory \in Nat
        /\ IsProvider(Plan(e)) /\ DependenciesOf(e) \in Seq(Dependency)
    BY <1>5, PlanIsProvider DEF InjectorInv
  <2>3. Satisfied(e.injector, f.asked)'
    <3>1. Holders(e.injector, f.asked)' = Holders(e.injector, f.asked)
      BY <1>1 DEF Holders, Candidates, Provided
    <3>2. \A at \in Holders(e.injector, f.asked) : at = i
      BY <1>5, <1>6, <2>2, HolderProvides DEF Waits
    <3>3. Holders(e.injector, f.asked) # {} /\ f.asked.key \in built'[i]
      BY <1>5, <1>6, <1>9 DEF Waits
    <3> QED BY <3>1, <3>2, <3>3 DEF Satisfied
  <2>4. Plan(g)' = Plan(e) /\ Plan(e)' = Plan(e) /\ \A j : Provided(j)' = Provided(j)
    BY <1>1, <1>13 DEF Plan, Provided
  <2>5. f.asked = Plan(e)[e.factory][e.next] /\ e.factory # 0
    BY <1>5, <1>13, <2>2 DEF Waits, DependenciesOf
  <2>6. ASSUME NEW h \in DOMAIN Plan(e), NEW d \in DOMAIN Plan(e)[h],
               h < e.factory \/ (h = e.factory /\ d < e.next + 1)
        PROVE  Satisfied(e.injector, Plan(e)[h][d])'
    <3>1. Plan(e)[h] \in Seq(Dependency) /\ h \in Nat \ {0} /\ d \in Nat
      BY <2>2 DEF IsProvider
    <3>2. PICK p : p = Plan(e)
      OBVIOUS
    <3>3. Satisfied(e.injector, p[h][d])'
      <4>1. CASE h < e.factory \/ (h = e.factory /\ d < e.next)
        BY <2>1, <2>4, <2>6, <3>2, <4>1 DEF Sound
      <4>2. CASE h = e.factory /\ d = e.next
        BY <2>3, <2>5, <3>2, <4>2
      <4> QED BY <1>13, <2>6, <3>1, <4>1, <4>2
    <3> QED BY <2>4, <3>2, <3>3
  <2> QED BY <1>13, <2>1, <2>4, <2>6 DEF Sound
<1>19. IsChain(s)'
  <2> SUFFICES ASSUME NEW m \in 1..n-1
               PROVE  /\ Sound(s[m])'
                      /\ m = 1 => s[m].kind # "provide"
                      /\ m > 1 => s[m].kind = "provide" /\ NotBuilt(s[m])'
                      /\ m < n - 1 => Waits(s[m], s[m + 1])'
    BY <1>15 DEF IsChain
  <2>1. PICK b \in InjectorFrame : /\ b = frames[m] /\ Sound(b)
                                   /\ m = 1 => b.kind # "provide"
                                   /\ m > 1 => b.kind = "provide"
                                   /\ m < n - 1 => Waits(b, frames[m + 1])
    BY <1>2, <1>3 DEF IsChain
  <2>2. Sound(b)'
    BY <1>1, <1>9, <2>1, SoundStays DEF InjectorInv
  <2>3. m > 1 => NotBuilt(b)'
    BY <1>17, <2>1 DEF NotBuilt
  <2>4. CASE m = n - 1
    BY <1>5, <1>13, <1>15, <1>18, <2>1, <2>3, <2>4 DEF NotBuilt
  <2>5. CASE m # n - 1
    <3>1. s[m] = b /\ m + 1 \in 1..n-1 /\ m \in 1..n-2
      BY <1>4, <1>15, <2>1, <2>5
    <3>2. PICK c \in InjectorFrame : c = frames[m + 1] /\ Waits(b, c)
      BY <1>2, <2>1, <2>5, <3>1
    <3>3. Waits(b, c)'
      BY <1>1, <3>2, WaitsStays
    <3>4. Waits(b, s[m + 1])'
      <4>1. CASE m + 1 \in 1..n-2
        BY <1>15, <3>2, <3>3, <4>1
      <4>2. CASE m + 1 = n - 1
        <5>1. c = e /\ s[m + 1] = g
          BY <1>5, <1>15, <3>2, <4>2
        <5> QED BY <1>13, <3>3, <5>1 DEF Waits
      <4> QED BY <3>1, <4>1, <4>2
    <3> QED BY <2>1, <2>2, <2>3, <3>1, <3>4
  <2> QED BY <2>4, <2>5
<1>20. Chain'
  BY <1>14, <1>19, ChainIs
<1> QED BY <1>10, <1>11, <1>12, <1>16, <1>20 DEF InjectorInv

\* Every step of a construction keeps the invariant.
LEMMA InjectorStepKeeps == ASSUME InjectorInv, InjectorStep PROVE InjectorInv'
BY FoundKeeps, NotProvidedKeeps, ConstructKeeps, NextFactoryKeeps, ReturnKeeps, KeepObjectKeeps,
   FactoryThrowsKeeps DEF InjectorStep

---------------------------------------------------------------------------
(***************************************************************************)
(* The walk through the imports                                            *)
(***************************************************************************)
OnPath == {path[i].module : i \in DOMAIN path}
ArrayOf(m) == imports[ImportsOf[m]]

\* The imports a module has behind the position of its walk have been visited.
BehindVisited ==
    \A i \in DOMAIN path : \A k \in DOMAIN ArrayOf(path[i].module) :
        k < path[i].position => ArrayOf(path[i].module)[k] \in visited

\* What a listed module imports has been visited, or it was added to its array since,
\* and some walk of that array has not come to it yet.
ListedAreWalked ==
    \A m \in Listed : \A k \in DOMAIN ArrayOf(m) :
        \/ ArrayOf(m)[k] \in visited
        \/ \E i \in DOMAIN path : /\ ImportsOf[path[i].module] = ImportsOf[m]
                                  /\ path[i].position <= k

\* The modules of the path lead to each other.
PathLeadsOn ==
    \A S \in SUBSET Modules : Closed(S) =>
        \A i, j \in DOMAIN path : i <= j /\ path[i].module \in S => path[j].module \in S

\* No walk is further than one past the end of its array.
PositionsInside ==
    \A i \in DOMAIN path : path[i].position <= Len(ArrayOf(path[i].module)) + 1

GraphInv ==
    /\ GraphTypeOK
    /\ PositionsInside
    /\ visited = Listed \cup OnPath
    /\ \A i, j \in DOMAIN path : path[i].module = path[j].module => i = j
    /\ OnPath \cap Listed = {}
    /\ NoneListedTwice
    /\ BehindVisited
    /\ ListedAreWalked
    /\ PathLeadsOn
    /\ resolution = "new" => path = <<>> /\ definitions = <<>>
    /\ resolution = "resolved" => path = <<>>
    /\ resolution # "new" => Entry \in visited

\* Resolving starts, and with it the invariant.
LEMMA GraphInvInit == GraphInit => GraphInv
BY ModuleAssumption
   DEF GraphInit, GraphInv, GraphTypeOK, OnPath, Listed, NoneListedTwice, BehindVisited,
       ListedAreWalked, PathLeadsOn, PositionsInside, Frame

\* Entering a module leaves what the arrays held, and adds to its own array at most.
LEMMA ArraysGrow ==
    ASSUME GraphTypeOK, NEW m \in Modules, NEW callers, Enter(m, callers)
    PROVE  /\ imports' \in [Arrays -> Seq(Modules \cup {Missing})]
           /\ \A x \in Modules :
                /\ Len(ArrayOf(x)) <= Len(ArrayOf(x)')
                /\ \A k \in DOMAIN ArrayOf(x) : ArrayOf(x)'[k] = ArrayOf(x)[k]
                /\ \A k \in DOMAIN ArrayOf(x)' :
                      \/ k \in DOMAIN ArrayOf(x)
                      \/ (ImportsOf[x] = ImportsOf[m] /\ k = Len(ArrayOf(x)) + 1)
<1>1. CASE Configures[m] = None
  BY <1>1, ModuleAssumption DEF Enter, GraphTypeOK, ArrayOf
<1>2. CASE Configures[m] # None
  <2>1. Configures[m] \in Modules /\ ImportsOf[m] \in Arrays
    BY <1>2, ModuleAssumption
  <2>2. imports' = [imports EXCEPT ![ImportsOf[m]] = Append(@, Configures[m])]
    BY <1>2 DEF Enter
  <2>3. imports[ImportsOf[m]] \in Seq(Modules \cup {Missing})
    BY <2>1 DEF GraphTypeOK
  <2>4. ASSUME NEW x \in Modules, ImportsOf[x] = ImportsOf[m]
        PROVE  ArrayOf(x)' = Append(ArrayOf(x), Configures[m])
    BY <2>1, <2>2, <2>4, ModuleAssumption DEF ArrayOf, GraphTypeOK
  <2>5. ASSUME NEW x \in Modules, ImportsOf[x] # ImportsOf[m]
        PROVE  ArrayOf(x)' = ArrayOf(x)
    BY <2>1, <2>2, <2>5, ModuleAssumption DEF ArrayOf, GraphTypeOK
  <2>6. \A x \in Modules : ArrayOf(x) \in Seq(Modules \cup {Missing})
    BY ModuleAssumption DEF ArrayOf, GraphTypeOK
  <2>7. imports' \in [Arrays -> Seq(Modules \cup {Missing})]
    BY <2>1, <2>2, <2>3 DEF GraphTypeOK
  <2>8. ASSUME NEW x \in Modules
        PROVE  /\ Len(ArrayOf(x)) <= Len(ArrayOf(x)')
               /\ \A k \in DOMAIN ArrayOf(x) : ArrayOf(x)'[k] = ArrayOf(x)[k]
               /\ \A k \in DOMAIN ArrayOf(x)' :
                     \/ k \in DOMAIN ArrayOf(x)
                     \/ (ImportsOf[x] = ImportsOf[m] /\ k = Len(ArrayOf(x)) + 1)
    <3>1. CASE ImportsOf[x] = ImportsOf[m]
      BY <2>1, <2>4, <2>6, <3>1
    <3>2. CASE ImportsOf[x] # ImportsOf[m]
      BY <2>5, <2>6, <3>2
    <3> QED BY <3>1, <3>2
  <2> QED BY <2>7, <2>8
<1> QED BY <1>1, <1>2

\* A set that is closed under the imports of arrays that have grown was closed before.
LEMMA ClosedBefore ==
    ASSUME GraphTypeOK, NEW m \in Modules, NEW callers, Enter(m, callers),
           NEW S \in SUBSET Modules, Closed(S)'
    PROVE  Closed(S)
<1>1. \A x \in Modules : /\ Len(ArrayOf(x)) <= Len(ArrayOf(x)')
                         /\ \A k \in DOMAIN ArrayOf(x) : ArrayOf(x)'[k] = ArrayOf(x)[k]
  BY ArraysGrow
<1>2. \A x \in Modules : ArrayOf(x) \in Seq(Modules \cup {Missing})
                         /\ ArrayOf(x)' \in Seq(Modules \cup {Missing})
  BY ArraysGrow, ModuleAssumption DEF ArrayOf, GraphTypeOK
<1>3. ASSUME NEW x \in Modules PROVE ToImports(x) \subseteq ToImports(x)'
  <2>1. ToImports(x) = {ArrayOf(x)[k] : k \in DOMAIN ArrayOf(x)}
    BY DEF ToImports, ArrayOf
  <2>2. ToImports(x)' = {ArrayOf(x)'[k] : k \in DOMAIN ArrayOf(x)'}
    BY DEF ToImports, ArrayOf
  <2>3. DOMAIN ArrayOf(x) \subseteq DOMAIN ArrayOf(x)'
    BY <1>1, <1>2, <1>3
  <2> QED BY <1>1, <2>1, <2>2, <2>3
<1> QED BY <1>3 DEF Closed

\* The walk goes on: only the position of the last module of the path changes.
LEMMA AdvancedPath ==
    ASSUME path \in Seq(Frame), path # <<>>
    PROVE  /\ Len(path) \in Nat \ {0} /\ Top \in Frame
           /\ Advanced \in Seq(Frame) /\ Len(Advanced) = Len(path)
           /\ Advanced[Len(path)] = [module |-> Top.module, position |-> Top.position + 1]
           /\ \A i \in 1..Len(path) - 1 : Advanced[i] = path[i]
<1>1. Len(path) \in Nat \ {0} /\ Top \in Frame /\ Top = path[Len(path)]
  BY DEF Top
<1> DEFINE on == [module |-> Top.module, position |-> Top.position + 1]
<1>2. on \in Frame
  BY <1>1 DEF Frame
<1>3. [Top EXCEPT !.position = @ + 1] = on
  BY <1>1 DEF Frame
<1>4. Advanced = [path EXCEPT ![Len(path)] = on]
  BY <1>1, <1>3 DEF Advanced
<1> HIDE DEF on
<1>5. Advanced \in Seq(Frame) /\ Len(Advanced) = Len(path) /\ Advanced[Len(path)] = on
      /\ \A i \in 1..Len(path) - 1 : Advanced[i] = path[i]
  BY <1>1, <1>2, <1>4
<1> QED BY <1>1, <1>5 DEF on

\* What an array holds after a step.
After(x) == imports'[ImportsOf[x]]

\* Entering an import that has not been visited keeps the invariant.
LEMMA EnterImportKeeps == ASSUME GraphInv, EnterImport PROVE GraphInv'
<1>1. path # <<>> /\ path \in Seq(Frame) /\ resolution = "running"
  BY DEF GraphInv, GraphTypeOK, EnterImport, Importing
<1>2. PICK n \in Nat \ {0}, t \in Frame, m \in Modules :
        /\ n = Len(path) /\ t = Top /\ m = Imported
        /\ t.position <= Len(ArrayOf(t.module)) /\ m = ArrayOf(t.module)[t.position]
  <2>1. Top \in Frame /\ Len(path) \in Nat \ {0}
    BY <1>1 DEF Top
  <2>2. ArrayOf(Top.module) \in Seq(Modules \cup {Missing}) /\ ArrayOf(Top.module) = TopImports
    BY <2>1, ModuleAssumption DEF ArrayOf, TopImports, GraphInv, GraphTypeOK, Frame
  <2>3. Top.position \in Nat \ {0} /\ Top.position <= Len(TopImports)
    BY <2>1 DEF EnterImport, Importing, Frame
  <2>4. Imported \in Modules
    BY <2>2, <2>3 DEF Imported, EnterImport
  <2> QED BY <2>1, <2>2, <2>3, <2>4 DEF Imported
<1>3. /\ m \notin visited /\ Enter(m, Advanced)
      /\ UNCHANGED <<definitions, resolution>>
      /\ t = path[n] /\ t.module \in Modules /\ t.position \in Nat \ {0}
  BY <1>2 DEF EnterImport, Top, Frame
<1>4. /\ path' \in Seq(Frame) /\ Len(path') = n + 1
      /\ path'[n + 1] = [module |-> m, position |-> 1]
      /\ path'[n] = [module |-> t.module, position |-> t.position + 1]
      /\ \A i \in 1..n-1 : path'[i] = path[i]
  <2>1. Advanced \in Seq(Frame) /\ Len(Advanced) = n
        /\ Advanced[n] = [module |-> t.module, position |-> t.position + 1]
        /\ \A i \in 1..n-1 : Advanced[i] = path[i]
    BY <1>1, <1>2, AdvancedPath
  <2>2. [module |-> m, position |-> 1] \in Frame
    BY <1>2 DEF Frame
  <2>3. path' = Append(Advanced, [module |-> m, position |-> 1])
    BY <1>3 DEF Enter
  <2> QED BY <2>1, <2>2, <2>3
<1>5. /\ \A i \in 1..n : /\ path'[i].module = path[i].module
                         /\ path[i].module \in Modules /\ path[i].position \in Nat \ {0}
      /\ \A i \in 1..n-1 : path'[i].position = path[i].position
      /\ path'[n].position = t.position + 1
      /\ path'[n + 1].module = m /\ path'[n + 1].position = 1
      /\ DOMAIN path = 1..n /\ DOMAIN path' = 1..n+1
  <2>1. DOMAIN path = 1..n /\ \A i \in 1..n : path[i] \in Frame
    BY <1>1, <1>2
  <2>2. \A f \in Frame : f.module \in Modules /\ f.position \in Nat \ {0}
    BY DEF Frame
  <2>3. path'[n].module = t.module /\ path'[n].position = t.position + 1
    BY <1>4
  <2>4. \A i \in 1..n : path'[i].module = path[i].module
    <3> SUFFICES ASSUME NEW i \in 1..n PROVE path'[i].module = path[i].module
      OBVIOUS
    <3>1. CASE i = n
      BY <1>3, <2>3, <3>1
    <3>2. CASE i # n
      BY <1>2, <1>4, <3>2
    <3> QED BY <3>1, <3>2
  <2>5. path'[n + 1].module = m /\ path'[n + 1].position = 1 /\ DOMAIN path' = 1..n+1
    BY <1>2, <1>4
  <2> QED BY <1>4, <2>1, <2>2, <2>3, <2>4, <2>5
<1>6. OnPath' = OnPath \cup {m} /\ Listed' = Listed /\ visited' = visited \cup {m}
  <2>1. visited' = visited \cup {m} /\ Listed' = Listed
    BY <1>3 DEF Enter, Listed
  <2>2. OnPath' = {path'[i].module : i \in 1..n+1} /\ OnPath = {path[i].module : i \in 1..n}
    BY <1>5 DEF OnPath
  <2>3. 1..n+1 = 1..n \cup {n + 1}
    BY <1>2
  <2>4. OnPath' \subseteq OnPath \cup {m}
    BY <1>5, <2>2, <2>3
  <2>5. OnPath \subseteq OnPath'
    BY <1>5, <2>2, <2>3
  <2>6. m \in OnPath'
    BY <1>5, <2>2, <2>3
  <2> QED BY <2>1, <2>4, <2>5, <2>6
<1>7. /\ imports' \in [Arrays -> Seq(Modules \cup {Missing})]
      /\ \A x \in Modules :
            /\ ArrayOf(x) \in Seq(Modules \cup {Missing})
            /\ After(x) \in Seq(Modules \cup {Missing})
            /\ Len(ArrayOf(x)) <= Len(After(x))
            /\ \A k \in DOMAIN ArrayOf(x) : After(x)[k] = ArrayOf(x)[k]
            /\ \A k \in DOMAIN After(x) :
                  \/ k \in DOMAIN ArrayOf(x)
                  \/ (ImportsOf[x] = ImportsOf[m] /\ k = Len(ArrayOf(x)) + 1)
  <2>1. \A x \in Modules : ArrayOf(x) \in Seq(Modules \cup {Missing})
    BY ModuleAssumption DEF ArrayOf, GraphInv, GraphTypeOK
  <2>2. imports' \in [Arrays -> Seq(Modules \cup {Missing})]
    BY <1>3, ArraysGrow DEF GraphInv
  <2>3. \A x \in Modules : After(x) \in Seq(Modules \cup {Missing})
    BY <2>2, ModuleAssumption DEF After
  <2>4. \A x \in Modules : ArrayOf(x)' = After(x)
    BY DEF After, ArrayOf
  <2> QED BY <1>3, <2>1, <2>2, <2>3, <2>4, ArraysGrow DEF GraphInv
<1>8. GraphTypeOK'
  BY <1>1, <1>3, <1>4, <1>6, <1>7 DEF GraphTypeOK, GraphInv
<1>9. PositionsInside'
  <2>1. SUFFICES ASSUME NEW i \in 1..n+1
                 PROVE  path'[i].position <= Len(After(path'[i].module)) + 1
    BY <1>5 DEF PositionsInside, ArrayOf, After
  <2>2. CASE i = n + 1
    BY <1>2, <1>5, <1>7, <2>2
  <2>3. CASE i \in 1..n-1
    <3>1. PICK y \in Modules : y = path[i].module /\ y = path'[i].module
      BY <1>2, <1>5, <2>3
    <3>2. path[i].position <= Len(ArrayOf(y)) + 1 /\ path'[i].position = path[i].position
      <4>1. i \in DOMAIN path /\ path'[i].position = path[i].position
        BY <1>2, <1>5, <2>3
      <4>2. path[i].position <= Len(ArrayOf(path[i].module)) + 1
        BY <4>1 DEF GraphInv, PositionsInside
      <4> QED BY <3>1, <4>1, <4>2
    <3>3. Len(ArrayOf(y)) \in Nat /\ Len(After(y)) \in Nat /\ Len(ArrayOf(y)) <= Len(After(y))
          /\ path[i].position \in Nat
      BY <1>2, <1>5, <1>7, <2>3
    <3> QED BY <3>1, <3>2, <3>3
  <2>4. CASE i = n
    BY <1>2, <1>3, <1>5, <1>7, <2>4
  <2> QED BY <1>2, <2>1, <2>2, <2>3, <2>4
<1>10. BehindVisited'
  <2>1. SUFFICES ASSUME NEW i \in 1..n+1, NEW k \in DOMAIN After(path'[i].module),
                        k < path'[i].position
                 PROVE  After(path'[i].module)[k] \in visited \cup {m}
    BY <1>5, <1>6 DEF BehindVisited, ArrayOf, After
  <2>2. CASE i = n + 1
    BY <1>2, <1>5, <1>7, <2>1, <2>2
  <2>3. CASE i \in 1..n-1
    <3>1. PICK y \in Modules : y = path[i].module /\ y = path'[i].module
      BY <1>2, <1>5, <2>3
    <3>2. path[i].position <= Len(ArrayOf(y)) + 1 /\ k < path[i].position
      BY <1>2, <1>5, <2>1, <2>3, <3>1 DEF GraphInv, PositionsInside
    <3>3. k \in DOMAIN ArrayOf(y) /\ After(y)[k] = ArrayOf(y)[k]
      <4>1. k \in DOMAIN After(y) /\ Len(ArrayOf(y)) \in Nat /\ path[i].position \in Nat
        BY <1>2, <1>5, <1>7, <2>1, <2>3, <3>1
      <4>2. k \in Nat
        BY <1>7, <4>1
      <4> QED BY <1>7, <3>2, <4>1, <4>2
    <3>4. i \in DOMAIN path
      BY <1>2, <1>5, <2>3
    <3> QED BY <3>1, <3>2, <3>3, <3>4 DEF GraphInv, BehindVisited
  <2>4. CASE i = n
    <3>1. path'[i].module = t.module /\ path[n].module = t.module /\ path[n].position = t.position
          /\ k < t.position + 1 /\ n \in DOMAIN path
      BY <1>2, <1>3, <1>5, <2>1, <2>4
    <3>2. k \in Nat /\ k \in DOMAIN ArrayOf(t.module) /\ After(t.module)[k] = ArrayOf(t.module)[k]
      <4>1. k \in DOMAIN After(t.module)
        BY <2>1, <3>1
      <4>2. k \in Nat \ {0} /\ Len(ArrayOf(t.module)) \in Nat
        BY <1>3, <1>7, <4>1
      <4>3. k \in DOMAIN ArrayOf(t.module)
        BY <1>2, <1>3, <1>7, <3>1, <4>2
      <4> QED BY <1>3, <1>7, <4>2, <4>3
    <3>3. CASE k < t.position
      BY <3>1, <3>2, <3>3 DEF GraphInv, BehindVisited
    <3>4. CASE k = t.position
      BY <1>2, <3>1, <3>2, <3>4
    <3> QED BY <1>3, <3>1, <3>2, <3>3, <3>4
  <2> QED BY <1>2, <2>1, <2>2, <2>3, <2>4
<1>11. ListedAreWalked'
  <2>1. SUFFICES ASSUME NEW x \in Listed, NEW k \in DOMAIN After(x)
                 PROVE  \/ After(x)[k] \in visited \cup {m}
                        \/ \E i \in 1..n+1 : /\ ImportsOf[path'[i].module] = ImportsOf[x]
                                             /\ path'[i].position <= k
    <3>1. ListedAreWalked' =
            (\A x \in Listed' : \A k \in DOMAIN After(x) :
                \/ After(x)[k] \in visited'
                \/ \E i \in DOMAIN path' : /\ ImportsOf[path'[i].module] = ImportsOf[x]
                                            /\ path'[i].position <= k)
      BY DEF ListedAreWalked, ArrayOf, After
    <3> QED BY <1>5, <1>6, <3>1
  <2>2. x \in Modules
    BY DEF Listed, GraphInv, GraphTypeOK
  <2>3. CASE k \notin DOMAIN ArrayOf(x)
    <3>1. ImportsOf[x] = ImportsOf[m] /\ k = Len(ArrayOf(x)) + 1 /\ Len(ArrayOf(x)) \in Nat
      BY <1>7, <2>2, <2>3
    <3>2. path'[n + 1].position <= k /\ ImportsOf[path'[n + 1].module] = ImportsOf[x]
      BY <1>5, <3>1
    <3>3. n + 1 \in 1..n+1
      BY <1>2
    <3> QED BY <3>2, <3>3
  <2>4. CASE k \in DOMAIN ArrayOf(x) /\ ArrayOf(x)[k] \in visited
    BY <1>7, <2>2, <2>4
  <2>5. CASE k \in DOMAIN ArrayOf(x) /\ ArrayOf(x)[k] \notin visited
    <3>1. PICK i \in 1..n : ImportsOf[path[i].module] = ImportsOf[x] /\ path[i].position <= k
      BY <1>5, <2>5 DEF GraphInv, ListedAreWalked
    <3>2. CASE i < n \/ path[i].position < k
      <4>1. k \in Nat /\ i \in 1..n+1 /\ ImportsOf[path'[i].module] = ImportsOf[x]
        <5>1. k \in Nat
          BY <1>7, <2>2, <2>5
        <5>2. i \in 1..n+1 /\ path'[i].module = path[i].module
          BY <1>2, <1>5
        <5> QED BY <3>1, <5>1, <5>2
      <4>2. path'[i].position <= k
        <5>1. CASE i < n
          BY <1>2, <1>5, <3>1, <5>1
        <5>2. CASE i = n /\ path[i].position < k
          BY <1>2, <1>3, <1>5, <4>1, <5>2
        <5> QED BY <1>2, <3>2, <5>1, <5>2
      <4> QED BY <4>1, <4>2
    <3>3. CASE i = n /\ path[i].position = k
      <4>1. ArrayOf(x) = ArrayOf(t.module)
        BY <1>3, <3>1, <3>3 DEF ArrayOf
      <4> QED BY <1>2, <1>3, <1>7, <2>2, <2>5, <3>3, <4>1
    <3> QED BY <1>2, <1>5, <1>7, <2>2, <2>5, <3>1, <3>2, <3>3
  <2> QED BY <2>3, <2>4, <2>5
<1>12. PathLeadsOn'
  <2>1. SUFFICES ASSUME NEW S \in SUBSET Modules, Closed(S)',
                        NEW i \in 1..n+1, NEW j \in 1..n+1, i <= j, path'[i].module \in S
                 PROVE  path'[j].module \in S
    BY <1>5 DEF PathLeadsOn, Closed, ToImports
  <2>2. Closed(S)
    BY <1>3, <2>1, ClosedBefore DEF GraphInv
  <2>3. CASE j <= n
    BY <1>2, <1>5, <2>1, <2>2, <2>3 DEF GraphInv, PathLeadsOn
  <2>4. CASE i <= n /\ j = n + 1
    <3>1. t.module \in S
      BY <1>2, <1>3, <1>5, <2>1, <2>2, <2>4 DEF GraphInv, PathLeadsOn
    <3>2. m \in ToImports(t.module)
      BY <1>2, <1>3, <1>7 DEF ToImports, ArrayOf
    <3> QED BY <1>2, <1>5, <2>2, <2>4, <3>1, <3>2 DEF Closed
  <2> QED BY <1>2, <2>1, <2>3, <2>4
<1>13. \A i, j \in DOMAIN path' : path'[i].module = path'[j].module => i = j
  <2>1. \A i \in 1..n : path[i].module \in visited
    BY <1>5 DEF GraphInv, OnPath
  <2> QED BY <1>2, <1>3, <1>5, <2>1 DEF GraphInv
<1>14. /\ visited' = Listed' \cup OnPath' /\ OnPath' \cap Listed' = {}
       /\ NoneListedTwice' /\ resolution' = "running" /\ Entry \in visited'
  BY <1>1, <1>3, <1>6 DEF GraphInv, NoneListedTwice
<1> QED BY <1>8, <1>9, <1>10, <1>11, <1>12, <1>13, <1>14 DEF GraphInv

\* So does going past an import that has been visited.
LEMMA SkipVisitedKeeps == ASSUME GraphInv, SkipVisited PROVE GraphInv'
<1>1. /\ path # <<>> /\ path \in Seq(Frame) /\ path' = Advanced
      /\ UNCHANGED <<imports, visited, definitions, resolution>> /\ resolution = "running"
  BY DEF GraphInv, GraphTypeOK, SkipVisited, Importing
<1>2. PICK n \in Nat \ {0}, t \in Frame :
        /\ n = Len(path) /\ t = Top /\ t = path[n]
        /\ t.position <= Len(ArrayOf(t.module)) /\ ArrayOf(t.module)[t.position] \in visited
  <2>1. Top \in Frame /\ Len(path) \in Nat \ {0} /\ Top = path[Len(path)]
    BY <1>1 DEF Top
  <2>2. ArrayOf(Top.module) = TopImports
    BY DEF ArrayOf, TopImports
  <2> QED BY <2>1, <2>2 DEF Imported, SkipVisited, Importing
<1>3. \A x \in Modules : ArrayOf(x) \in Seq(Modules \cup {Missing})
  BY ModuleAssumption DEF ArrayOf, GraphInv, GraphTypeOK
<1>4. /\ path' \in Seq(Frame) /\ DOMAIN path = 1..n /\ DOMAIN path' = 1..n
      /\ path'[n].module = t.module /\ path'[n].position = t.position + 1
      /\ \A i \in 1..n-1 : path'[i] = path[i]
      /\ \A i \in 1..n : path[i] \in Frame
  BY <1>1, <1>2, AdvancedPath
<1>5. \A i \in 1..n : /\ path'[i].module = path[i].module
                      /\ path[i].module \in Modules /\ path[i].position \in Nat \ {0}
  <2> SUFFICES ASSUME NEW i \in 1..n
               PROVE  /\ path'[i].module = path[i].module
                      /\ path[i].module \in Modules /\ path[i].position \in Nat \ {0}
    OBVIOUS
  <2>1. path[i].module \in Modules /\ path[i].position \in Nat \ {0}
    BY <1>4 DEF Frame
  <2>2. CASE i = n
    BY <1>2, <1>4, <2>1, <2>2
  <2>3. CASE i # n
    BY <1>2, <1>4, <2>1, <2>3
  <2> QED BY <2>2, <2>3
<1>6. OnPath' = OnPath /\ Listed' = Listed
  BY <1>1, <1>4, <1>5 DEF OnPath, Listed
<1>7. \A x : ArrayOf(x)' = ArrayOf(x)
  BY <1>1 DEF ArrayOf
<1>8. \A i \in 1..n : \/ i # n /\ path'[i].position = path[i].position
                      \/ i = n /\ path'[i].position = t.position + 1
                               /\ path[i].position = t.position /\ path[i].module = t.module
  BY <1>2, <1>4
<1>9. t.module \in Modules /\ t.position \in Nat \ {0} /\ Len(ArrayOf(t.module)) \in Nat
  BY <1>3 DEF Frame
<1>10. PositionsInside'
  <2> SUFFICES ASSUME NEW i \in 1..n
               PROVE  path'[i].position <= Len(ArrayOf(path[i].module)) + 1
    <3>1. PositionsInside' =
            (\A i \in DOMAIN path' : path'[i].position <= Len(imports'[ImportsOf[path'[i].module]]) + 1)
      BY DEF PositionsInside, ArrayOf
    <3> QED BY <1>1, <1>4, <1>5, <3>1 DEF ArrayOf
  <2>1. CASE i # n
    BY <1>4, <1>8, <2>1 DEF GraphInv, PositionsInside
  <2>2. CASE i = n
    BY <1>2, <1>8, <1>9, <2>2
  <2> QED BY <2>1, <2>2
<1>11. BehindVisited'
  <2>1. SUFFICES ASSUME NEW i \in 1..n, NEW k \in DOMAIN ArrayOf(path[i].module),
                        k < path'[i].position
                 PROVE  ArrayOf(path[i].module)[k] \in visited
    <3>1. BehindVisited' =
            (\A i \in DOMAIN path' : \A k \in DOMAIN imports'[ImportsOf[path'[i].module]] :
                k < path'[i].position => imports'[ImportsOf[path'[i].module]][k] \in visited')
      BY DEF BehindVisited, ArrayOf
    <3> QED BY <1>1, <1>4, <1>5, <3>1 DEF ArrayOf
  <2>2. CASE i # n
    BY <1>4, <1>8, <2>1, <2>2 DEF GraphInv, BehindVisited
  <2>3. CASE i = n
    <3>1. k \in Nat
      BY <1>3, <1>5
    <3>2. /\ path'[i].position = t.position + 1 /\ path[i].position = t.position
          /\ path[i].module = t.module
      BY <1>8, <2>3
    <3>3. CASE k < t.position
      BY <1>4, <3>2, <3>3 DEF GraphInv, BehindVisited
    <3>4. CASE k = t.position
      BY <1>2, <3>2, <3>4
    <3> QED BY <1>9, <2>1, <3>1, <3>2, <3>3, <3>4
  <2> QED BY <2>2, <2>3
<1>12. ListedAreWalked'
  <2>1. SUFFICES ASSUME NEW x \in Listed, NEW k \in DOMAIN ArrayOf(x), ArrayOf(x)[k] \notin visited
                 PROVE  \E i \in 1..n : /\ ImportsOf[path[i].module] = ImportsOf[x]
                                        /\ path'[i].position <= k
    <3>1. ListedAreWalked' =
            (\A x \in Listed' : \A k \in DOMAIN imports'[ImportsOf[x]] :
                \/ imports'[ImportsOf[x]][k] \in visited'
                \/ \E i \in DOMAIN path' : /\ ImportsOf[path'[i].module] = ImportsOf[x]
                                            /\ path'[i].position <= k)
      BY DEF ListedAreWalked, ArrayOf
    <3> QED BY <1>1, <1>4, <1>5, <1>6, <3>1 DEF ArrayOf
  <2>2. PICK i \in 1..n : ImportsOf[path[i].module] = ImportsOf[x] /\ path[i].position <= k
    BY <1>4, <2>1 DEF GraphInv, ListedAreWalked
  <2>3. CASE i # n
    BY <1>8, <2>2, <2>3
  <2>4. CASE i = n
    <3>1. x \in Modules
      BY DEF Listed, GraphInv, GraphTypeOK
    <3>2. k \in Nat
      BY <1>3, <3>1
    <3>3. ArrayOf(x) = ArrayOf(t.module)
      BY <1>8, <2>2, <2>4 DEF ArrayOf
    <3>4. k # t.position
      BY <1>2, <2>1, <3>3
    <3> QED BY <1>8, <1>9, <2>2, <2>4, <3>2, <3>4
  <2> QED BY <2>3, <2>4
<1>13. PathLeadsOn'
  <2>1. \A S \in SUBSET Modules : Closed(S)' = Closed(S)
    BY <1>1 DEF Closed, ToImports
  <2>2. SUFFICES ASSUME NEW S \in SUBSET Modules, Closed(S)', NEW i \in 1..n, NEW j \in 1..n,
                        i <= j, path'[i].module \in S
                 PROVE  path'[j].module \in S
    BY <1>4 DEF PathLeadsOn
  <2> QED BY <1>4, <1>5, <2>1, <2>2 DEF GraphInv, PathLeadsOn
<1>14. \A i, j \in DOMAIN path' : path'[i].module = path'[j].module => i = j
  BY <1>4, <1>5 DEF GraphInv
<1>15. GraphTypeOK' /\ path' # <<>>
  BY <1>1, <1>2, <1>4 DEF GraphInv, GraphTypeOK
<1> QED BY <1>1, <1>6, <1>10, <1>11, <1>12, <1>13, <1>14, <1>15 DEF GraphInv, NoneListedTwice

\* And the start, and an import that is missing, where nothing is walked any more.
LEMMA ResolveEntryKeeps == ASSUME GraphInv, ResolveEntry PROVE GraphInv'
<1>1. /\ path = <<>> /\ definitions = <<>> /\ visited = {} /\ resolution' = "running"
      /\ Enter(Entry, <<>>) /\ definitions' = definitions /\ Entry \in Modules
  BY ModuleAssumption DEF GraphInv, ResolveEntry, OnPath, Listed
<1>2. visited' = {Entry} /\ path' = <<[module |-> Entry, position |-> 1]>>
  BY <1>1 DEF Enter
<1>3. /\ imports' \in [Arrays -> Seq(Modules \cup {Missing})]
      /\ After(Entry) \in Seq(Modules \cup {Missing})
  <2>1. imports' \in [Arrays -> Seq(Modules \cup {Missing})]
    BY <1>1, ArraysGrow DEF GraphInv
  <2> QED BY <1>1, <2>1, ModuleAssumption DEF After
<1>4. [module |-> Entry, position |-> 1] \in Frame
  BY <1>1 DEF Frame
<1>5. /\ path' \in Seq(Frame) /\ DOMAIN path' = {1} /\ path' # <<>>
      /\ path'[1].module = Entry /\ path'[1].position = 1
  BY <1>2, <1>4
<1>6. OnPath' = {Entry} /\ Listed' = {}
  BY <1>1, <1>5 DEF OnPath, Listed
<1>7. GraphTypeOK'
  BY <1>1, <1>2, <1>3, <1>5 DEF GraphTypeOK, GraphInv
<1>8. PositionsInside' /\ BehindVisited'
  <2>1. Len(After(Entry)) \in Nat /\ \A k \in DOMAIN After(Entry) : ~(k < 1)
    BY <1>3
  <2>2. PositionsInside' =
          (\A i \in DOMAIN path' : path'[i].position <= Len(After(path'[i].module)) + 1)
    BY DEF PositionsInside, ArrayOf, After
  <2>3. BehindVisited' =
          (\A i \in DOMAIN path' : \A k \in DOMAIN After(path'[i].module) :
              k < path'[i].position => After(path'[i].module)[k] \in visited')
    BY DEF BehindVisited, ArrayOf, After
  <2> QED BY <1>5, <2>1, <2>2, <2>3
<1>9. ListedAreWalked' /\ PathLeadsOn' /\ NoneListedTwice'
  BY <1>1, <1>5, <1>6 DEF ListedAreWalked, PathLeadsOn, NoneListedTwice
<1> QED BY <1>1, <1>2, <1>5, <1>6, <1>7, <1>8, <1>9 DEF GraphInv

LEMMA ImportMissingKeeps == ASSUME GraphInv, ImportMissing PROVE GraphInv'
<1>1. /\ UNCHANGED <<imports, visited, path, definitions>>
      /\ resolution = "running" /\ resolution' = "failed"
  BY DEF ImportMissing, Importing
<1>2. OnPath' = OnPath /\ Listed' = Listed /\ \A x : ArrayOf(x)' = ArrayOf(x)
  BY <1>1 DEF OnPath, Listed, ArrayOf
<1>3. GraphTypeOK' /\ NoneListedTwice'
  BY <1>1 DEF GraphInv, GraphTypeOK, NoneListedTwice
<1>4. PositionsInside' /\ BehindVisited' /\ ListedAreWalked'
  BY <1>1, <1>2 DEF GraphInv, PositionsInside, BehindVisited, ListedAreWalked, ArrayOf, Listed
<1>5. PathLeadsOn'
  BY <1>1 DEF GraphInv, PathLeadsOn, Closed, ToImports
<1> QED BY <1>1, <1>2, <1>3, <1>4, <1>5 DEF GraphInv

\* Listing a module whose imports have been walked keeps the invariant.
LEMMA DefineKeeps == ASSUME GraphInv, Define PROVE GraphInv'
<1>1. /\ path # <<>> /\ path \in Seq(Frame) /\ definitions \in Seq(Modules)
      /\ UNCHANGED <<imports, visited>> /\ resolution = "running"
  BY DEF GraphInv, GraphTypeOK, Define
<1>2. PICK n \in Nat \ {0}, t \in Frame :
        /\ n = Len(path) /\ t = path[n] /\ t.position > Len(ArrayOf(t.module))
        /\ definitions' = Append(definitions, t.module) /\ path' = SubSeq(path, 1, n - 1)
        /\ resolution' = IF n = 1 THEN "resolved" ELSE "running"
  <2>1. Top \in Frame /\ Len(path) \in Nat \ {0} /\ Top = path[Len(path)]
    BY <1>1 DEF Top
  <2> QED BY <2>1 DEF Define, TopImports, ArrayOf
<1>3. /\ path' \in Seq(Frame) /\ DOMAIN path = 1..n /\ DOMAIN path' = 1..n-1
      /\ \A i \in 1..n-1 : path'[i] = path[i] /\ i \in 1..n
      /\ path' = <<>> <=> n = 1
  <2>1. n - 1 \in 0..Len(path) /\ DOMAIN path = 1..n /\ \A i \in 1..n-1 : i \in 1..n
    BY <1>1, <1>2
  <2>2. path' = SubSeq(path, 1, n - 1)
    BY <1>2
  <2>3. path' \in Seq(Frame) /\ Len(path') = n - 1
    BY <1>1, <2>1, <2>2
  <2>4. \A i \in 1..n-1 : path'[i] = path[i]
    BY <1>1, <1>2, <2>2, <2>3
  <2>5. path' = <<>> <=> n = 1
    BY <1>2, <2>3, EmptySeq
  <2>6. DOMAIN path' = 1..n-1
    BY <2>3
  <2> QED BY <2>1, <2>3, <2>4, <2>5, <2>6
<1>4. t.module \in Modules /\ t.position \in Nat \ {0}
      /\ t.module \notin Listed /\ t.module \in visited
      /\ ArrayOf(t.module) \in Seq(Modules \cup {Missing})
  <2>1. n \in DOMAIN path
    BY <1>2, <1>3
  <2>2. t.module \in OnPath /\ t.module \in Modules /\ t.position \in Nat \ {0}
    BY <1>2, <2>1 DEF OnPath, Frame
  <2> QED BY <2>2, ModuleAssumption DEF GraphInv, ArrayOf, GraphTypeOK
<1>5. /\ definitions' \in Seq(Modules) /\ Len(definitions') = Len(definitions) + 1
      /\ definitions'[Len(definitions) + 1] = t.module
      /\ \A i \in 1..Len(definitions) : definitions'[i] = definitions[i]
      /\ Len(definitions) \in Nat /\ DOMAIN definitions = 1..Len(definitions)
      /\ DOMAIN definitions' = 1..Len(definitions)+1
  BY <1>1, <1>2, <1>4
<1>6. Listed' = Listed \cup {t.module}
  <2>1. 1..Len(definitions)+1 = 1..Len(definitions) \cup {Len(definitions) + 1}
    BY <1>5
  <2>2. Listed' = {definitions'[i] : i \in 1..Len(definitions)+1}
        /\ Listed = {definitions[i] : i \in 1..Len(definitions)}
    BY <1>5 DEF Listed
  <2>3. Listed' \subseteq Listed \cup {t.module}
    BY <1>5, <2>1, <2>2
  <2>4. Listed \subseteq Listed' /\ t.module \in Listed'
    BY <1>5, <2>1, <2>2
  <2> QED BY <2>3, <2>4
<1>7. OnPath' = OnPath \ {t.module}
  <2>1. OnPath' = {path'[i].module : i \in 1..n-1} /\ OnPath = {path[i].module : i \in 1..n}
    BY <1>3 DEF OnPath
  <2>2. \A i \in 1..n-1 : path[i].module # t.module
    <3> SUFFICES ASSUME NEW i \in 1..n-1, path[i].module = path[n].module PROVE FALSE
      BY <1>2
    <3>1. i \in DOMAIN path /\ n \in DOMAIN path /\ i # n
      BY <1>2, <1>3
    <3> QED BY <3>1 DEF GraphInv
  <2>3. \A i \in 1..n : i \in 1..n-1 \/ i = n
    BY <1>2
  <2> QED BY <1>2, <1>3, <2>1, <2>2, <2>3
<1>8. visited' = Listed' \cup OnPath' /\ OnPath' \cap Listed' = {}
  BY <1>1, <1>4, <1>6, <1>7 DEF GraphInv
<1>9. NoneListedTwice'
  <2>1. \A i \in 1..Len(definitions) : definitions[i] # t.module
    BY <1>4, <1>5 DEF Listed
  <2> QED BY <1>5, <2>1 DEF GraphInv, NoneListedTwice
<1>10. \A x : ArrayOf(x)' = ArrayOf(x)
  BY <1>1 DEF ArrayOf
<1>11. PositionsInside' /\ BehindVisited'
  BY <1>1, <1>3 DEF GraphInv, PositionsInside, BehindVisited, ArrayOf
<1>12. ListedAreWalked'
  <2>1. SUFFICES ASSUME NEW x \in Listed \cup {t.module}, NEW k \in DOMAIN ArrayOf(x),
                        ArrayOf(x)[k] \notin visited
                 PROVE  \E i \in 1..n-1 : /\ ImportsOf[path[i].module] = ImportsOf[x]
                                          /\ path[i].position <= k
    <3>1. ListedAreWalked' =
            (\A x \in Listed' : \A k \in DOMAIN imports'[ImportsOf[x]] :
                \/ imports'[ImportsOf[x]][k] \in visited'
                \/ \E i \in DOMAIN path' : /\ ImportsOf[path'[i].module] = ImportsOf[x]
                                            /\ path'[i].position <= k)
      BY DEF ListedAreWalked, ArrayOf
    <3> QED BY <1>1, <1>3, <1>6, <3>1 DEF ArrayOf
  <2>2. ASSUME NEW y \in DOMAIN ArrayOf(t.module) PROVE ArrayOf(t.module)[y] \in visited
    <3>1. n \in DOMAIN path /\ path[n].module = t.module /\ y < path[n].position
      BY <1>2, <1>3, <1>4, <2>2
    <3> QED BY <2>2, <3>1 DEF GraphInv, BehindVisited
  <2>3. x \in Listed
    BY <2>1, <2>2
  <2>4. PICK i \in 1..n : ImportsOf[path[i].module] = ImportsOf[x] /\ path[i].position <= k
    BY <1>3, <2>1, <2>3 DEF GraphInv, ListedAreWalked
  <2>5. i # n
    <3>1. ASSUME i = n PROVE FALSE
      <4>1. ArrayOf(x) = ArrayOf(t.module)
        BY <1>2, <2>4, <3>1 DEF ArrayOf
      <4> QED BY <2>1, <2>2, <4>1
    <3> QED BY <3>1
  <2>6. i \in 1..n-1
    BY <1>2, <2>5
  <2> QED BY <2>4, <2>6
<1>13. PathLeadsOn'
  <2>1. \A S \in SUBSET Modules : Closed(S)' = Closed(S)
    BY <1>1 DEF Closed, ToImports
  <2>2. SUFFICES ASSUME NEW S \in SUBSET Modules, Closed(S)', NEW i \in 1..n-1, NEW j \in 1..n-1,
                        i <= j, path'[i].module \in S
                 PROVE  path'[j].module \in S
    BY <1>3 DEF PathLeadsOn
  <2> QED BY <1>3, <2>1, <2>2 DEF GraphInv, PathLeadsOn
<1>14. \A i, j \in DOMAIN path' : path'[i].module = path'[j].module => i = j
  BY <1>3 DEF GraphInv
<1>15. GraphTypeOK'
  BY <1>1, <1>2, <1>3, <1>5 DEF GraphInv, GraphTypeOK
<1> QED BY <1>1, <1>2, <1>3, <1>8, <1>9, <1>11, <1>12, <1>13, <1>14, <1>15 DEF GraphInv

\* As long as no module is resolved, the invariant stays.
LEMMA GraphInvUnchanged == ASSUME GraphInv, UNCHANGED graphVars PROVE GraphInv'
<1>1. UNCHANGED imports /\ UNCHANGED visited /\ UNCHANGED path /\ UNCHANGED definitions
      /\ UNCHANGED resolution
  BY DEF graphVars
<1>2. OnPath' = OnPath /\ Listed' = Listed
  BY <1>1 DEF OnPath, Listed
<1>3. GraphTypeOK' /\ NoneListedTwice'
  BY <1>1 DEF GraphInv, GraphTypeOK, NoneListedTwice
<1>4. PositionsInside' /\ BehindVisited' /\ ListedAreWalked'
  BY <1>1, <1>2 DEF GraphInv, PositionsInside, BehindVisited, ListedAreWalked, ArrayOf, Listed
<1>5. PathLeadsOn'
  <2>1. \A S \in SUBSET Modules : Closed(S)' = Closed(S)
    BY <1>1 DEF Closed, ToImports
  <2> QED BY <1>1, <2>1 DEF GraphInv, PathLeadsOn
<1> QED BY <1>1, <1>2, <1>3, <1>4, <1>5 DEF GraphInv

\* The rest of the application leaves the walk alone.
LEMMA GraphInvStep == GraphInv /\ [Next]_vars => GraphInv'
<1> SUFFICES ASSUME GraphInv, [Next]_vars PROVE GraphInv'
  OBVIOUS
<1>1. CASE ResolveStep
  BY <1>1, ResolveEntryKeeps, EnterImportKeeps, SkipVisitedKeeps, ImportMissingKeeps,
     DefineKeeps DEF ResolveStep
<1>2. CASE UNCHANGED graphVars
  BY <1>2, GraphInvUnchanged
<1> QED
  BY <1>1, <1>2 DEF Next, vars, Resolve, Load, LoadAgain, GetModule, LoadEnds, Use, Constructing

\* Whatever imports what, every module the entry module leads to is listed, once; also
\* when configured modules add to arrays that others share.
THEOREM ResolvingIsComplete == Spec => []EachModuleOnce
<1>1. Init => GraphInv
  BY GraphInvInit DEF Init
<1>2. GraphInv => EachModuleOnce
  <2> SUFFICES ASSUME GraphInv, resolution = "resolved" PROVE Entry \in Listed /\ Closed(Listed)
    BY DEF EachModuleOnce, GraphInv
  <2>1. path = <<>> /\ visited = Listed /\ Entry \in Listed
    BY DEF GraphInv, OnPath
  <2>2. ASSUME NEW m \in Listed PROVE ToImports(m) \subseteq Listed
    BY <2>1, <2>2 DEF ToImports, ArrayOf, GraphInv, ListedAreWalked
  <2> QED BY <2>1, <2>2 DEF Closed
<1> QED BY <1>1, <1>2, GraphInvStep, PTL DEF Spec

\* A module is listed after what it imports, unless that imports the module in turn.
THEOREM ResolvingIsOrdered == Spec => ImportsComeFirst
<1> DEFINE m == definitions'[Len(definitions')]
           Ordered == Len(definitions') > Len(definitions) =>
                        \A x \in ToImports(m) \cap Modules : x \in Listed \/ Reaches(x, m)
<1>1. GraphInv /\ [Next]_vars => [Ordered]_graphVars
  <2> SUFFICES ASSUME GraphInv, [Next]_vars, graphVars' # graphVars,
                      Len(definitions') > Len(definitions)
               PROVE  \A x \in ToImports(m) \cap Modules : x \in Listed \/ Reaches(x, m)
    OBVIOUS
  <2>1. definitions \in Seq(Modules) /\ definitions' # definitions
    BY DEF GraphInv, GraphTypeOK
  <2>2. Define
    BY <2>1 DEF Next, vars, Resolve, ResolveStep, ResolveEntry, EnterImport, SkipVisited,
                ImportMissing, Load, LoadAgain, GetModule, LoadEnds, Use, Constructing, graphVars
  <2>3. /\ path # <<>> /\ path \in Seq(Frame) /\ Len(path) \in Nat \ {0}
        /\ Top = path[Len(path)] /\ Top \in Frame /\ Len(path) \in DOMAIN path
    BY <2>2 DEF GraphInv, GraphTypeOK, Define, Top
  <2>4. m = Top.module /\ Top.module \in Modules /\ Top.position \in Nat \ {0}
    BY <2>1, <2>2, <2>3 DEF Define, Frame
  <2>5. ASSUME NEW x \in ToImports(m) \cap Modules, x \notin Listed PROVE Reaches(x, m)
    <3>1. PICK k \in DOMAIN ArrayOf(m) : x = ArrayOf(m)[k]
      BY <2>5 DEF ToImports, ArrayOf
    <3>2. ArrayOf(m) \in Seq(Modules \cup {Missing}) /\ ArrayOf(m) = TopImports
      BY <2>4, ModuleAssumption DEF GraphInv, GraphTypeOK, ArrayOf, TopImports
    <3>3. k < Top.position
      BY <2>2, <2>4, <3>1, <3>2 DEF Define
    <3>4. x \in visited
      BY <2>3, <2>4, <3>1, <3>3 DEF GraphInv, BehindVisited
    <3>5. PICK i \in DOMAIN path : x = path[i].module
      BY <2>5, <3>4 DEF GraphInv, OnPath
    <3>6. i <= Len(path)
      BY <2>3
    <3> QED BY <2>3, <2>4, <3>5, <3>6 DEF GraphInv, PathLeadsOn, Reaches
  <2> QED BY <2>5
<1>2. Init => GraphInv
  BY GraphInvInit DEF Init
<1>3. [][Next]_vars /\ []GraphInv => ImportsComeFirst
  BY <1>1, PTL DEF ImportsComeFirst
<1> QED BY <1>2, <1>3, GraphInvStep, PTL DEF Spec

\* What listed modules import by themselves has been visited, and has been listed by the
\* time the next module is, unless it leads to that module.
OwnAreVisited == \A m \in Listed : OwnImports(m) \cap Modules \subseteq visited

ListedInOrder ==
    \A i \in DOMAIN definitions : \A j \in 1..i :
        \A y \in OwnImports(definitions[j]) \cap Modules :
            (\E k \in 1..i : definitions[k] = y) \/ Reaches(y, definitions[i])

OrderInv == GraphInv /\ OwnAreVisited /\ ListedInOrder

\* Entering a module adds at most what it configures, which is no import of others' own.
LEMMA OwnImportsStay ==
    ASSUME GraphTypeOK, NEW m \in Modules, NEW callers, Enter(m, callers),
           NEW x \in Modules, x # m
    PROVE  OwnImports(x)' \subseteq OwnImports(x)
<1>1. ArrayOf(x) \in Seq(Modules \cup {Missing}) /\ ArrayOf(x)' \in Seq(Modules \cup {Missing})
  BY ArraysGrow, ModuleAssumption DEF ArrayOf, GraphTypeOK
<1> DEFINE others == {Configures[c] : c \in {z \in Modules \ {x} : ImportsOf[z] = ImportsOf[x]}}
<1>2. OwnImports(x) = ToImports(x) \ others /\ OwnImports(x)' = ToImports(x)' \ others
  BY DEF OwnImports
<1>3. ToImports(x) = {ArrayOf(x)[k] : k \in DOMAIN ArrayOf(x)}
      /\ ToImports(x)' = {ArrayOf(x)'[k] : k \in DOMAIN ArrayOf(x)'}
  BY DEF ToImports, ArrayOf
<1>4. ASSUME NEW k \in DOMAIN ArrayOf(x)', ArrayOf(x)'[k] \notin others
      PROVE  ArrayOf(x)'[k] \in ToImports(x)
  <2>1. CASE k \in DOMAIN ArrayOf(x)
    BY <1>3, <2>1, ArraysGrow
  <2>2. CASE k \notin DOMAIN ArrayOf(x)
    <3>1. ImportsOf[x] = ImportsOf[m] /\ k = Len(ArrayOf(x)) + 1
      BY <1>4, <2>2, ArraysGrow
    <3>2. Configures[m] \in others
      BY <3>1
    <3>3. imports' # imports
      <4> SUFFICES ASSUME imports' = imports PROVE FALSE
        OBVIOUS
      <4>1. ArrayOf(x)' = ArrayOf(x)
        BY DEF ArrayOf
      <4> QED BY <1>4, <2>2, <4>1
    <3>4. imports' = [imports EXCEPT ![ImportsOf[m]] = Append(@, Configures[m])]
      BY <3>3 DEF Enter
    <3>5. ArrayOf(x)' = Append(ArrayOf(x), Configures[m])
      BY <3>1, <3>4, ModuleAssumption DEF ArrayOf, GraphTypeOK
    <3> QED BY <1>1, <1>4, <3>1, <3>2, <3>5
  <2> QED BY <2>1, <2>2
<1> QED BY <1>2, <1>3, <1>4

\* And modules that led to each other still do.
LEMMA ReachesStays ==
    ASSUME GraphTypeOK, NEW m \in Modules, NEW callers, Enter(m, callers),
           NEW x, NEW y, Reaches(x, y)
    PROVE  Reaches(x, y)'
BY ClosedBefore DEF Reaches

LEMMA EnterKeepsOrder ==
    ASSUME OrderInv, NEW m \in Modules, m \notin visited, NEW callers, Enter(m, callers),
           definitions' = definitions
    PROVE  OwnAreVisited' /\ ListedInOrder'
<1>1. GraphTypeOK /\ definitions \in Seq(Modules) /\ Listed' = Listed /\ m \notin Listed
      /\ visited' = visited \cup {m}
  BY DEF OrderInv, GraphInv, GraphTypeOK, Listed, Enter
<1>2. ASSUME NEW x \in Listed PROVE OwnImports(x)' \subseteq OwnImports(x)
  <2>1. x \in Modules /\ x # m
    BY <1>1 DEF Listed
  <2> QED BY <1>1, <2>1, OwnImportsStay
<1>3. OwnAreVisited'
  BY <1>1, <1>2 DEF OrderInv, OwnAreVisited
<1>4. ASSUME NEW i \in DOMAIN definitions, NEW j \in 1..i,
             NEW y \in OwnImports(definitions[j])' \cap Modules
      PROVE  (\E k \in 1..i : definitions[k] = y) \/ Reaches(y, definitions[i])'
  <2>1. PICK x, z : x = definitions[j] /\ z = definitions[i] /\ x \in Listed
    BY <1>1 DEF Listed
  <2>2. y \in OwnImports(x)
    <3>1. y \in OwnImports(x)'
      BY <1>1, <1>4, <2>1 DEF OwnImports, ToImports
    <3> QED BY <1>2, <2>1, <3>1
  <2>3. (\E k \in 1..i : definitions[k] = y) \/ Reaches(y, z)
    BY <1>4, <2>1, <2>2 DEF OrderInv, ListedInOrder
  <2>4. Reaches(y, z) => Reaches(y, z)'
    BY <1>1, ReachesStays
  <2>5. Reaches(y, z)' => Reaches(y, definitions[i])'
    BY <2>1, <1>1 DEF Reaches
  <2> QED BY <2>3, <2>4, <2>5
<1>5. ListedInOrder'
  BY <1>4, SMTT(60) DEF ListedInOrder, OwnImports, ToImports
<1> QED BY <1>3, <1>5

\* A module is listed: whatever the listed modules import by themselves has been visited,
\* so it is listed, or it is on the path that leads to this module.
LEMMA DefineKeepsOrder == ASSUME OrderInv, Define PROVE OwnAreVisited' /\ ListedInOrder'
<1>1. /\ path # <<>> /\ path \in Seq(Frame) /\ definitions \in Seq(Modules)
      /\ UNCHANGED <<imports, visited>> /\ GraphInv
  BY DEF OrderInv, GraphInv, GraphTypeOK, Define
<1>2. PICK n \in Nat \ {0}, t \in Frame, m \in Modules :
        /\ n = Len(path) /\ t = path[n] /\ m = t.module /\ t.position > Len(ArrayOf(m))
        /\ definitions' = Append(definitions, m)
  <2>1. Top \in Frame /\ Len(path) \in Nat \ {0} /\ Top = path[Len(path)]
    BY <1>1 DEF Top
  <2>2. Top.module \in Modules
    BY <2>1 DEF Frame
  <2> QED BY <2>1, <2>2 DEF Define, TopImports, ArrayOf
<1>3. PICK l \in Nat :
        /\ l = Len(definitions) /\ DOMAIN definitions = 1..l /\ DOMAIN definitions' = 1..l+1
        /\ definitions'[l + 1] = m /\ \A i \in 1..l : definitions'[i] = definitions[i]
  BY <1>1, <1>2
<1>4. Listed = {definitions[i] : i \in 1..l} /\ Listed' = Listed \cup {m}
  <2>1. Listed = {definitions[i] : i \in 1..l} /\ Listed' = {definitions'[i] : i \in 1..l+1}
    BY <1>3 DEF Listed
  <2>2. \A i \in 1..l+1 : i \in 1..l \/ i = l + 1
    BY <1>3
  <2>3. l + 1 \in 1..l+1 /\ \A i \in 1..l : i \in 1..l+1
    BY <1>3
  <2> QED BY <1>3, <2>1, <2>2, <2>3
<1>5. \A x : OwnImports(x)' = OwnImports(x)
  BY <1>1 DEF OwnImports, ToImports
<1>6. \A S \in SUBSET Modules : Closed(S)' = Closed(S)
  BY <1>1 DEF Closed, ToImports
<1>7. \A x, y : Reaches(x, y)' <=> Reaches(x, y)
  BY <1>6 DEF Reaches
<1>8. ToImports(m) \subseteq visited
  <2>1. ArrayOf(m) \in Seq(Modules \cup {Missing}) /\ n \in DOMAIN path /\ t.position \in Nat
    BY <1>1, <1>2, ModuleAssumption DEF GraphInv, GraphTypeOK, ArrayOf, Frame
  <2>2. \A k \in DOMAIN ArrayOf(m) : k < t.position
    BY <1>2, <2>1
  <2>3. \A k \in DOMAIN ArrayOf(m) : ArrayOf(m)[k] \in visited
    BY <1>1, <1>2, <2>1, <2>2 DEF GraphInv, BehindVisited
  <2> QED BY <2>3 DEF ToImports, ArrayOf
<1>9. OwnAreVisited'
  BY <1>1, <1>4, <1>5, <1>8 DEF OrderInv, OwnAreVisited, OwnImports
<1>10. ASSUME NEW x \in Listed \cup {m}, NEW y \in OwnImports(x) \cap Modules
       PROVE  y \in Listed \/ Reaches(y, m)
  <2>1. y \in visited
    BY <1>8, <1>10 DEF OrderInv, OwnAreVisited, OwnImports
  <2>2. ASSUME y \notin Listed PROVE Reaches(y, m)
    <3>1. PICK i \in DOMAIN path : y = path[i].module
      BY <2>1, <2>2, <1>1 DEF GraphInv, OnPath
    <3>2. i <= n /\ n \in DOMAIN path
      BY <1>1, <1>2, <3>1
    <3> QED BY <1>1, <1>2, <3>1, <3>2 DEF GraphInv, PathLeadsOn, Reaches
  <2> QED BY <2>2
<1>11. ASSUME NEW i \in 1..l+1, NEW j \in 1..i, NEW y \in OwnImports(definitions'[j]) \cap Modules
       PROVE  (\E k \in 1..i : definitions'[k] = y) \/ Reaches(y, definitions'[i])
  <2>1. CASE i = l + 1
    <3>1. definitions'[j] \in Listed \cup {m}
      BY <1>3, <1>4, <2>1
    <3>2. y \in Listed \/ Reaches(y, m)
      BY <1>10, <1>11, <3>1
    <3>3. y \in Listed => \E k \in 1..i : definitions'[k] = y
      BY <1>3, <1>4, <2>1
    <3> QED BY <1>3, <2>1, <3>2, <3>3
  <2>2. CASE i \in 1..l
    <3>1. j \in 1..l /\ \A k \in 1..i : k \in 1..l
      BY <1>3, <2>2
    <3>2. definitions'[j] = definitions[j] /\ definitions'[i] = definitions[i]
      BY <1>3, <2>2, <3>1
    <3>3. (\E k \in 1..i : definitions[k] = y) \/ Reaches(y, definitions[i])
      BY <1>3, <1>11, <2>2, <3>2 DEF OrderInv, ListedInOrder
    <3> QED BY <1>3, <3>1, <3>2, <3>3
  <2> QED BY <1>3, <2>1, <2>2
<1>12. ListedInOrder'
  <2> DEFINE Imp(f, x) == {f[ImportsOf[x]][k] : k \in DOMAIN f[ImportsOf[x]]}
             OwnOf(f, x) == Imp(f, x) \ {Configures[c] :
                            c \in {z \in Modules \ {x} : ImportsOf[z] = ImportsOf[x]}}
             Leads(f, x, y) == \A S \in SUBSET Modules :
                            x \in S /\ (\A z \in S : Imp(f, z) \cap Modules \subseteq S) => y \in S
             InOrder(f, d) == \A i \in DOMAIN d : \A j \in 1..i : \A y \in OwnOf(f, d[j]) \cap Modules :
                            (\E k \in 1..i : d[k] = y) \/ Leads(f, y, d[i])
  <2>1. ListedInOrder' = InOrder(imports', definitions')
    BY DEF ListedInOrder, OwnImports, ToImports, Reaches, Closed
  <2>2. \A x, y : OwnImports(x) = OwnOf(imports, x) /\ (Reaches(x, y) <=> Leads(imports, x, y))
    BY DEF OwnImports, ToImports, Reaches, Closed
  <2> HIDE DEF OwnOf, Leads
  <2>3. InOrder(imports, definitions')
    BY <1>3, <1>11, <2>2
  <2> QED BY <1>1, <2>1, <2>3
<1> QED BY <1>9, <1>12

LEMMA OrderInvStep == OrderInv /\ [Next]_vars => OrderInv'
<1> SUFFICES ASSUME OrderInv, [Next]_vars PROVE OrderInv'
  OBVIOUS
<1>1. GraphInv'
  BY GraphInvStep DEF OrderInv
<1>2. CASE ResolveEntry
  <2>1. Entry \in Modules /\ Entry \notin visited /\ Enter(Entry, <<>>) /\ definitions' = definitions
    BY <1>2, ModuleAssumption DEF OrderInv, GraphInv, ResolveEntry, Listed, OnPath
  <2> QED BY <1>1, <2>1, EnterKeepsOrder DEF OrderInv
<1>3. CASE EnterImport
  <2>1. path # <<>> /\ Top \in Frame
    BY <1>3 DEF OrderInv, GraphInv, GraphTypeOK, EnterImport, Importing, Top
  <2>2. TopImports \in Seq(Modules \cup {Missing}) /\ Top.position \in Nat \ {0}
    BY <2>1, ModuleAssumption DEF TopImports, OrderInv, GraphInv, GraphTypeOK, Frame
  <2>3. Imported \in Modules /\ Imported \notin visited /\ Enter(Imported, Advanced)
        /\ definitions' = definitions
    BY <1>3, <2>2 DEF EnterImport, Importing, Imported
  <2> QED BY <1>1, <2>3, EnterKeepsOrder DEF OrderInv
<1>4. CASE Define
  BY <1>1, <1>4, DefineKeepsOrder DEF OrderInv
<1>5. CASE UNCHANGED <<imports, visited, definitions>>
  <2>1. Listed' = Listed /\ \A x : OwnImports(x)' = OwnImports(x)
    BY <1>5 DEF Listed, OwnImports, ToImports
  <2>2. OwnAreVisited'
    BY <1>5, <2>1 DEF OrderInv, OwnAreVisited
  <2>3. ListedInOrder'
    BY <1>5 DEF OrderInv, ListedInOrder, OwnImports, ToImports, Reaches, Closed
  <2> QED BY <1>1, <2>2, <2>3 DEF OrderInv
<1> QED
  BY <1>2, <1>3, <1>4, <1>5
     DEF Next, vars, graphVars, Resolve, ResolveStep, SkipVisited, ImportMissing, Load, LoadAgain,
         GetModule, LoadEnds, Use, Constructing
---------------------------------------------------------------------------
(***************************************************************************)
(* The injectors of an application                                         *)
(***************************************************************************)
\* Nothing is constructed before the injectors are made, or between two calls of load().
LoadInv ==
    /\ GraphInv
    /\ InjectorInv
    /\ wiring \in Wirings
    /\ loading \in {"waiting", "loading", "loaded", "failed"}
    /\ instances \in 0..Len(definitions)
    /\ loading \in {"waiting", "failed"} => frames = <<>>
    /\ loading = "waiting" => \A i \in Injectors : built[i] = {}

LEMMA LoadInvInit == Init => LoadInv
<1> SUFFICES ASSUME Init PROVE LoadInv
  OBVIOUS
<1>1. GraphInv /\ InjectorInv
  BY GraphInvInit, InjectorInvInit DEF Init
<1>2. /\ frames = <<>> /\ \A i \in Injectors : built[i] = {}
  BY DEF Init, InjectorInit
<1>3. 0 \in 0..Len(definitions)
  BY <1>1 DEF GraphInv, GraphTypeOK
<1> QED BY <1>1, <1>2, <1>3 DEF LoadInv, Init

LEMMA InjectorUnchanged == ASSUME InjectorInv, UNCHANGED injectorVars PROVE InjectorInv'
<1>1. PICK s : s = frames
  OBVIOUS
<1>2. /\ UNCHANGED providers /\ UNCHANGED built /\ UNCHANGED counter /\ UNCHANGED frames
      /\ UNCHANGED outcome /\ UNCHANGED gets /\ UNCHANGED failed /\ UNCHANGED makings
  BY DEF injectorVars
<1>3. Chain'
  BY <1>1, <1>2, ChainStays DEF InjectorInv, Chain
<1>4. BuiltIsProvided' /\ BuiltOnDependencies' /\ MadeIsBuilt'
  BY <1>2 DEF InjectorInv, BuiltIsProvided, BuiltOnDependencies, MadeIsBuilt, Provided,
              SatisfiedFactory, Satisfied, Holders, Candidates
<1>5. InjectorTypeOK'
  BY <1>2 DEF InjectorInv, InjectorTypeOK, Provided
<1> QED BY <1>3, <1>4, <1>5 DEF InjectorInv

LEMMA TwoInjectors == Injectors = {1, 2} /\ Primary = 1 /\ Own = 2
BY WiringAssumption DEF Injectors, Primary, Own

\* What the modules contribute makes providers.
LEMMA MergedIsProvider ==
    ASSUME LoadInv, NEW s \in Services, Merged(s) # NoProvider
    PROVE  IsProvider(Merged(s))
<1>1. definitions \in Seq(Modules)
  BY DEF LoadInv, GraphInv, GraphTypeOK
<1>2. Effective(s) \subseteq Contributors(s)
  BY DEF Effective
<1>3. ASSUME NEW i \in Contributors(s)
      PROVE  i \in Nat \ {0} /\ wiring.provides[definitions[i]][s] \in Seq(Dependency)
  BY <1>1, WiringAssumption DEF Contributors, LoadInv
<1>4. Merged(s) = [i \in Effective(s) |-> wiring.provides[definitions[i]][s]]
  BY DEF Merged
<1> QED BY <1>2, <1>3, <1>4 DEF IsProvider

LEMMA LoadKeeps == ASSUME LoadInv, Load PROVE LoadInv'
<1>1. /\ loading = "waiting" /\ loading' = "loading"
      /\ UNCHANGED graphVars /\ UNCHANGED <<built, counter, frames, outcome, gets, failed, makings>>
      /\ UNCHANGED <<wiring, instances>>
      /\ frames = <<>> /\ \A i \in Injectors : built[i] = {}
      /\ providers' = [i \in Injectors |-> IF i = Primary THEN PrimaryProviders ELSE OwnProviders]
  BY DEF Load, LoadInv
<1>2. GraphInv' /\ definitions' = definitions
  BY <1>1, GraphInvUnchanged DEF LoadInv, graphVars
<1>3. ASSUME NEW k \in Keys, PrimaryProviders[k] # NoProvider PROVE IsProvider(PrimaryProviders[k])
  BY <1>3, MergedIsProvider DEF PrimaryProviders
<1>4. ASSUME NEW k \in Keys, OwnProviders[k] # NoProvider PROVE IsProvider(OwnProviders[k])
  <2>1. k \in Listed /\ OwnProviders[k] = <<wiring.needs[k]>>
    BY <1>4 DEF OwnProviders
  <2>2. k \in Modules
    BY <2>1 DEF Listed, LoadInv, GraphInv, GraphTypeOK
  <2>3. wiring.needs[k] \in Seq(Dependency)
    BY <2>2, WiringAssumption DEF LoadInv
  <2> QED BY <2>1, <2>3 DEF IsProvider
<1>5. /\ DOMAIN providers' = Injectors /\ \A i \in Injectors : DOMAIN providers'[i] = Keys
      /\ \A i \in Injectors : \A k \in Keys :
            providers'[i][k] # NoProvider => IsProvider(providers'[i][k])
  BY <1>1, <1>3, <1>4 DEF PrimaryProviders, OwnProviders
<1>6. InjectorTypeOK'
  BY <1>1, <1>5 DEF LoadInv, InjectorInv, InjectorTypeOK, Provided
<1>7. BuiltIsProvided' /\ BuiltOnDependencies' /\ MadeIsBuilt' /\ Chain'
  BY <1>1 DEF LoadInv, InjectorInv, BuiltIsProvided, BuiltOnDependencies, MadeIsBuilt, Chain, IsChain
<1> QED BY <1>1, <1>2, <1>6, <1>7 DEF LoadInv, InjectorInv

LEMMA LoadAgainKeeps == ASSUME LoadInv, LoadAgain PROVE LoadInv'
<1>1. /\ frames = <<>> /\ frames' = frames /\ loading' = "loading" /\ instances' = 0
      /\ UNCHANGED graphVars /\ UNCHANGED <<providers, gets, failed, wiring>> /\ outcome' = "none"
      /\ built' = [built EXCEPT ![Own] = {}] /\ counter' = [counter EXCEPT ![Own] = 0]
      /\ makings' = [makings EXCEPT ![Own] = [k \in Keys |-> 0]]
  BY DEF LoadAgain, LoadInv
<1>2. GraphInv' /\ definitions' = definitions /\ definitions \in Seq(Modules)
  BY <1>1, GraphInvUnchanged DEF LoadInv, graphVars, GraphInv, GraphTypeOK
<1>3. /\ built' \in [Injectors -> SUBSET Keys] /\ counter' \in [Injectors -> Nat]
      /\ built'[1] = built[1] /\ built'[2] = {}
  BY <1>1, TwoInjectors DEF LoadInv, InjectorInv, InjectorTypeOK
<1>4. /\ makings' \in [Injectors -> [Keys -> Nat]]
      /\ makings'[1] = makings[1] /\ makings'[2] = [k \in Keys |-> 0]
  BY <1>1, TwoInjectors DEF LoadInv, InjectorInv, InjectorTypeOK
<1>5. InjectorTypeOK'
  BY <1>1, <1>3, <1>4 DEF LoadInv, InjectorInv, InjectorTypeOK, Provided, Outcomes
<1>6. \A i \in Injectors : Provided(i)' = Provided(i)
  BY <1>1 DEF Provided
<1>7. BuiltIsProvided' /\ MadeIsBuilt' /\ Chain'
  BY <1>1, <1>3, <1>4, <1>6, TwoInjectors
     DEF LoadInv, InjectorInv, BuiltIsProvided, MadeIsBuilt, Chain, IsChain
<1>8. BuiltOnDependencies'
  <2> SUFFICES ASSUME NEW k \in built[1], NEW g \in DOMAIN providers[1][k],
                      NEW d \in DOMAIN providers[1][k][g]
               PROVE  Satisfied(1, providers[1][k][g][d])'
    BY <1>1, <1>3, TwoInjectors DEF BuiltOnDependencies, SatisfiedFactory
  <2>1. k \in Provided(1)
    BY TwoInjectors DEF LoadInv, InjectorInv, BuiltIsProvided
  <2>2. PICK dep \in Dependency : dep = providers[1][k][g][d]
    BY <2>1, TwoInjectors DEF LoadInv, InjectorInv, InjectorTypeOK, IsProvider
  <2>3. Satisfied(1, dep)
    BY <2>2, TwoInjectors DEF LoadInv, InjectorInv, BuiltOnDependencies, SatisfiedFactory
  <2>4. Holders(1, dep)' = Holders(1, dep)
    BY <1>1 DEF Holders, Candidates, Provided
  <2>5. \A at \in Holders(1, dep) : at = 1
    BY TwoInjectors, HolderProvides
  <2>6. Satisfied(1, dep)'
    BY <1>3, <2>3, <2>4, <2>5 DEF Satisfied
  <2> QED BY <1>1, <2>2, <2>6
<1> QED BY <1>1, <1>2, <1>5, <1>7, <1>8 DEF LoadInv, InjectorInv

\* Every request asks an injector for a key it may know.
LEMMA RequestIsDependency ==
    \A k \in Keys, o \in BOOLEAN, f \in {"any", "self", "parent"} : Request(k, o, f) \in Dependency
BY DEF Request, Dependency

LEMMA LoadInvStep == LoadInv /\ [Next]_vars => LoadInv'
<1> SUFFICES ASSUME LoadInv, [Next]_vars PROVE LoadInv'
  OBVIOUS
<1>1. CASE Load
  BY <1>1, LoadKeeps
<1>2. CASE LoadAgain
  BY <1>2, LoadAgainKeeps
<1>3. GraphInv' /\ definitions \in Seq(Modules) /\ Len(definitions) \in Nat
  BY GraphInvStep DEF LoadInv, GraphInv, GraphTypeOK
<1>4. CASE GetModule
  <2>1. PICK dep \in Dependency : Begin("get", Own, dep)
    <3>1. definitions[instances + 1] \in Modules
      BY <1>3, <1>4 DEF GetModule, LoadInv
    <3>2. definitions[instances + 1] \in Keys
      BY <3>1, WiringAssumption
    <3> QED BY <1>4, <3>2, RequestIsDependency DEF GetModule, Get
  <2>2. InjectorInv'
    BY <2>1, BeginKeeps, TwoInjectors DEF LoadInv
  <2>3. instances' \in 0..Len(definitions') /\ UNCHANGED <<definitions, wiring, loading>>
        /\ loading = "loading"
    BY <1>3, <1>4 DEF GetModule, LoadInv, graphVars
  <2> QED BY <1>3, <2>2, <2>3 DEF LoadInv
<1>5. CASE Use
  <2>1. PICK i \in Injectors, k \in Keys :
           \/ Get(i, Request(k, FALSE, "any"))
           \/ Get(i, Request(k, TRUE, "self"))
           \/ Instantiate(i, k)
    BY <1>5 DEF Use
  <2>2. InjectorInv'
    <3>1. /\ Request(k, FALSE, "any") \in Dependency /\ Request(k, TRUE, "self") \in Dependency
          /\ Request(k, FALSE, "self") \in Dependency /\ Request(k, FALSE, "self").key = k
      BY RequestIsDependency DEF Request
    <3> QED BY <2>1, <3>1, BeginKeeps DEF LoadInv, Get, Instantiate
  <2>3. UNCHANGED <<definitions, wiring, loading, instances>> /\ loading = "loaded"
    BY <1>5 DEF Use, graphVars
  <2> QED BY <1>3, <2>2, <2>3 DEF LoadInv
<1>6. CASE Constructing
  <2>1. InjectorInv' /\ frames # <<>> /\ UNCHANGED <<definitions, wiring, loading, instances>>
    BY <1>6, InjectorStepKeeps
       DEF LoadInv, Constructing, graphVars, InjectorStep, Found, NotProvided, Construct,
           NextFactory, Finish, FactoryThrows, Wanting, Ready, Idle
  <2> QED BY <1>3, <2>1 DEF LoadInv
<1>7. CASE Resolve
  <2>1. InjectorInv' /\ UNCHANGED <<frames, built, wiring, loading, instances>>
    BY <1>7, InjectorUnchanged DEF LoadInv, Resolve, injectorVars
  <2>2. Len(definitions) <= Len(definitions') /\ Len(definitions') \in Nat
    BY <1>3, <1>7 DEF Resolve, ResolveStep, ResolveEntry, EnterImport, SkipVisited, ImportMissing,
                      Define, GraphInv, GraphTypeOK
  <2> QED BY <1>3, <2>1, <2>2 DEF LoadInv
<1>8. CASE LoadEnds
  <2>1. InjectorInv' /\ UNCHANGED <<frames, built, wiring, instances, definitions>>
        /\ frames = <<>> /\ loading' \in {"loaded", "failed"}
    BY <1>8, InjectorUnchanged DEF LoadInv, LoadEnds, injectorVars, graphVars, Idle
  <2> QED BY <1>3, <2>1 DEF LoadInv
<1>9. CASE UNCHANGED vars
  <2>1. InjectorInv' /\ UNCHANGED <<frames, built, wiring, loading, instances, definitions>>
    BY <1>9, InjectorUnchanged DEF LoadInv, vars, injectorVars, graphVars
  <2> QED BY <1>3, <2>1 DEF LoadInv
<1> QED BY <1>1, <1>2, <1>4, <1>5, <1>6, <1>7, <1>8, <1>9 DEF Next

\* The variables of resolving and loading keep their types.
THEOREM LoadTypes == Spec => []TypeOK
<1>1. LoadInv => TypeOK
  BY DEF LoadInv, TypeOK, GraphInv, InjectorInv
<1> QED BY <1>1, LoadInvInit, LoadInvStep, PTL DEF Spec

\* No injector makes the object of a key twice: not when several places depend on it, not
\* when its construction failed before, not when a cycle came upon it.
THEOREM ObjectsAreSingle == Spec => []MadeOnce
<1>1. LoadInv => MadeOnce
  BY InjectorInvMeans DEF LoadInv
<1> QED BY <1>1, LoadInvInit, LoadInvStep, PTL DEF Spec

\* No object exists before the objects it depends on; a cycle has none of them.
THEOREM ObjectsAreBuiltInOrder == Spec => []BuiltOnDependencies
<1>1. LoadInv => BuiltOnDependencies
  BY InjectorInvMeans DEF LoadInv
<1> QED BY <1>1, LoadInvInit, LoadInvStep, PTL DEF Spec

---------------------------------------------------------------------------
(***************************************************************************)
(* Whose provider wins                                                     *)
(***************************************************************************)
\* Once load() has begun, the list of modules stays, and the primary injector has what
\* the modules of the list have contributed.
ProvidersAreMerged ==
    loading # "waiting" => resolution = "resolved" /\ providers[Primary] = PrimaryProviders

LEMMA MergedStep == LoadInv /\ ProvidersAreMerged /\ [Next]_vars => ProvidersAreMerged'
<1> SUFFICES ASSUME LoadInv, ProvidersAreMerged, [Next]_vars, loading' # "waiting"
             PROVE  resolution' = "resolved" /\ providers'[Primary] = PrimaryProviders'
  BY DEF ProvidersAreMerged
<1>1. CASE Load
  <2>1. UNCHANGED <<definitions, resolution, wiring>> /\ resolution = "resolved"
        /\ providers' = [i \in Injectors |-> IF i = Primary THEN PrimaryProviders ELSE OwnProviders]
    BY <1>1 DEF Load, graphVars
  <2>2. PrimaryProviders' = PrimaryProviders
    BY <2>1 DEF PrimaryProviders, Merged, Effective, Contributors
  <2> QED BY <2>1, <2>2, TwoInjectors
<1>2. CASE Resolve
  BY <1>2 DEF ProvidersAreMerged, Resolve, ResolveStep, ResolveEntry, EnterImport, SkipVisited,
              ImportMissing, Define, Importing
<1>3. CASE UNCHANGED <<definitions, resolution, wiring, providers>> /\ loading # "waiting"
  <2>1. PrimaryProviders' = PrimaryProviders
    BY <1>3 DEF PrimaryProviders, Merged, Effective, Contributors
  <2> QED BY <1>3, <2>1 DEF ProvidersAreMerged
<1>4. CASE LoadAgain \/ GetModule \/ LoadEnds \/ Use \/ Constructing \/ UNCHANGED vars
  <2>1. loading # "waiting"
    BY <1>4 DEF LoadAgain, GetModule, LoadEnds, Use, Constructing, vars
  <2>2. UNCHANGED <<definitions, resolution, wiring, providers>>
    BY <1>4 DEF LoadAgain, GetModule, LoadEnds, Use, Constructing, vars, graphVars, injectorVars,
                Get, Instantiate, Begin, InjectorStep, Found, NotProvided, Construct, New,
                NextFactory, Finish, FactoryThrows
  <2> QED BY <1>3, <2>1, <2>2
<1> QED BY <1>1, <1>2, <1>4 DEF Next

\* Who has the last word is listed later.
LEMMA LastWordIsLater ==
    ASSUME OrderInv, resolution = "resolved", NEW m \in Listed, NEW n \in Listed, HasLastWord(m, n)
    PROVE  \E i, k \in DOMAIN definitions : definitions[i] = m /\ definitions[k] = n /\ k < i
<1>1. definitions \in Seq(Modules) /\ NoneListedTwice
  BY DEF OrderInv, GraphInv, GraphTypeOK
<1>2. PICK i \in DOMAIN definitions : definitions[i] = m
  BY DEF Listed
<1>3. i \in Nat /\ i \in 1..i /\ m \in Modules /\ n \in Modules
      /\ \A k \in 1..i : k \in DOMAIN definitions /\ k \in Nat
  BY <1>1, <1>2 DEF Listed
<1>4. \A j \in 1..i : \A y \in OwnImports(definitions[j]) \cap Modules :
          (\E k \in 1..i : definitions[k] = y) \/ Reaches(y, m)
  BY <1>2 DEF OrderInv, ListedInOrder
<1>5. n # m
  BY DEF HasLastWord, Reaches
<1>6. \E k \in 1..i : definitions[k] = n
  <2>1. CASE n \in OwnImports(m) /\ ~Reaches(n, m)
    BY <1>2, <1>3, <1>4, <2>1
  <2>2. CASE LeadsTo(m, n) /\ ~OnCircle(m)
    <3> DEFINE S == {y \in Modules : Reaches(m, y) /\ \E k \in 1..i : definitions[k] = y}
    <3>1. m \in S
      BY <1>2, <1>3 DEF Reaches
    <3>2. ASSUME NEW x \in S, NEW y \in OwnImports(x) \cap Modules PROVE y \in S
      <4>1. y \in ToImports(x) /\ Reaches(m, x)
        BY <3>2 DEF OwnImports
      <4>2. Reaches(m, y)
        BY <4>1, <3>2 DEF Reaches, Closed
      <4>3. (\E k \in 1..i : definitions[k] = y) \/ Reaches(y, m)
        BY <1>4, <3>2
      <4>4. CASE Reaches(y, m)
        <5>1. y = m
          BY <2>2, <3>2, <4>2, <4>4 DEF OnCircle
        <5> QED BY <3>1, <5>1
      <4> QED BY <3>2, <4>2, <4>3, <4>4
    <3>3. S \in SUBSET Modules /\ OwnClosed(S)
      BY <3>2 DEF OwnClosed
    <3>4. n \in S
      BY <2>2, <3>1, <3>3 DEF LeadsTo
    <3> QED BY <3>4
  <2> QED BY <2>1, <2>2 DEF HasLastWord
<1>7. PICK k \in 1..i : definitions[k] = n
  BY <1>6
<1>8. k # i
  BY <1>2, <1>5, <1>7
<1> QED BY <1>2, <1>3, <1>7, <1>8

\* A module has the last word on what it provides over the modules it imports, and, on no
\* circle of imports, over all that these lead to: its provider comes later in the list,
\* and the last of the list is the one that counts.
THEOREM ImportersHaveTheLastWord == Spec => []ImportersOverride
<1>1. LoadInv /\ OrderInv /\ ProvidersAreMerged => ImportersOverride
  <2> SUFFICES ASSUME LoadInv, OrderInv, ProvidersAreMerged,
                      NEW m \in Listed, NEW n \in Listed, NEW s \in Services \ MultiServices,
                      loading # "waiting", HasLastWord(m, n),
                      NoProvider \notin {wiring.provides[m][s], wiring.provides[n][s]},
                      NEW f \in DOMAIN providers[Primary][s], definitions[f] = n
               PROVE  FALSE
    BY DEF ImportersOverride
  <2>1. resolution = "resolved" /\ providers[Primary][s] = Merged(s)
    BY WiringAssumption DEF ProvidersAreMerged, PrimaryProviders
  <2>2. PICK i, k \in DOMAIN definitions : definitions[i] = m /\ definitions[k] = n /\ k < i
    BY <2>1, LastWordIsLater
  <2>3. i \in Contributors(s)
    BY <2>2 DEF Contributors
  <2>4. Merged(s) = [j \in Effective(s) |-> wiring.provides[definitions[j]][s]]
    BY <2>3 DEF Merged
  <2>5. f \in Contributors(s) /\ i <= f
    BY <2>1, <2>3, <2>4 DEF Effective
  <2>6. f = k
    BY <2>2, <2>5 DEF Contributors, OrderInv, GraphInv, NoneListedTwice
  <2>7. i \in Nat /\ k \in Nat
    BY <2>2 DEF OrderInv, GraphInv, GraphTypeOK
  <2> QED BY <2>2, <2>5, <2>6, <2>7
<1>2. Init => LoadInv /\ OrderInv /\ ProvidersAreMerged
  <2>1. Init => LoadInv
    BY LoadInvInit
  <2>2. Init => OwnAreVisited /\ ListedInOrder
    BY DEF Init, GraphInit, OwnAreVisited, ListedInOrder, Listed
  <2>3. Init => ProvidersAreMerged
    BY DEF Init, ProvidersAreMerged
  <2> QED BY <2>1, <2>2, <2>3 DEF OrderInv, LoadInv
<1>3. LoadInv /\ OrderInv /\ ProvidersAreMerged /\ [Next]_vars
        => LoadInv' /\ OrderInv' /\ ProvidersAreMerged'
  BY LoadInvStep, OrderInvStep, MergedStep
<1> QED BY <1>1, <1>2, <1>3, PTL DEF Spec

---------------------------------------------------------------------------
(***************************************************************************)
(* The counter that stands in for the detection of cycles.  As long as     *)
(* nothing has failed it counts the objects that exist and those under     *)
(* construction.  When it is more than there are providers, one object is  *)
(* under construction twice, and what is in progress from the one to the   *)
(* other is a cycle.                                                       *)
(***************************************************************************)
Making(i) == {n \in DOMAIN frames : frames[n].kind = "provide" /\ frames[n].injector = i}

Counted == \A i \in Injectors : counter[i] = Cardinality(built[i]) + Cardinality(Making(i))

CountInv ==
    /\ failed \/ Cyclic \/ Counted
    /\ outcome = "cyclic" => failed \/ Cyclic
    /\ loading = "waiting" => outcome = "none" /\ \A i \in Injectors : counter[i] = 0

LEMMA CyclicStays == ASSUME UNCHANGED providers PROVE Cyclic' <=> Cyclic
BY DEF Cyclic, Places, DependsOn, Holders, Candidates, Provided

\* The part above is among what a part depends on.
LEMMA WaitsDepends ==
    ASSUME InjectorTypeOK, NEW f \in InjectorFrame, NEW g \in InjectorFrame,
           f.kind # "get", Sound(f), Waits(f, g)
    PROVE  <<g.injector, g.asked.key>> \in DependsOn(<<f.injector, f.asked.key>>)
<1>1. /\ DependenciesOf(f) \in Seq(Dependency) /\ f.next \in Nat \ {0}
      /\ Plan(f) = providers[f.injector][f.asked.key]
  BY PlanIsProvider DEF Plan
<1> DEFINE plan == Plan(f)
           deps == UNION {{plan[h][d] : d \in DOMAIN plan[h]} : h \in DOMAIN plan}
<1>2. f.factory # 0 /\ f.next \in DOMAIN DependenciesOf(f) /\ g.asked = DependenciesOf(f)[f.next]
  BY <1>1 DEF Waits, DependenciesOf
<1>3. f.factory \in DOMAIN plan /\ DependenciesOf(f) = plan[f.factory]
  BY <1>2 DEF Sound, DependenciesOf
<1>4. g.asked \in deps
  BY <1>2, <1>3
<1>5. <<g.injector, g.asked.key>> \in Holders(f.injector, g.asked) \X {g.asked.key}
  BY DEF Waits
<1>6. DependsOn(<<f.injector, f.asked.key>>) =
        UNION {Holders(f.injector, dep) \X {dep.key} : dep \in deps}
  BY <1>1 DEF DependsOn
<1> HIDE DEF deps
<1> QED BY <1>4, <1>5, <1>6

\* An object that is under construction twice depends on itself.
LEMMA ChainCloses ==
    ASSUME InjectorInv, NEW x \in DOMAIN frames, NEW y \in DOMAIN frames, 1 < x, x < y,
           frames[x].injector = frames[y].injector, frames[x].asked.key = frames[y].asked.key
    PROVE  Cyclic
<1> DEFINE Place(k) == <<frames[k].injector, frames[k].asked.key>>
           S == {Place(k) : k \in x..y-1}
<1>1. /\ frames \in Seq(InjectorFrame) /\ IsChain(frames) /\ InjectorTypeOK
      /\ DOMAIN frames = 1..Len(frames) /\ Len(frames) \in Nat
      /\ x \in 1..Len(frames) /\ y \in 1..Len(frames)
  BY DEF InjectorInv, InjectorTypeOK, Chain
<1>2. ASSUME NEW k \in x..y-1
      PROVE  Place(k) \in Places /\ Place(k + 1) \in DependsOn(Place(k))
  <2>1. k \in 1..Len(frames) /\ k > 1 /\ k < Len(frames) /\ k + 1 \in 1..Len(frames)
    BY <1>1, <1>2
  <2>2. PICK f \in InjectorFrame, g \in InjectorFrame :
          /\ f = frames[k] /\ g = frames[k + 1]
          /\ f.kind = "provide" /\ Sound(f) /\ Waits(f, g)
    BY <1>1, <2>1 DEF IsChain
  <2>3. Place(k + 1) \in DependsOn(Place(k))
    BY <1>1, <2>2, WaitsDepends
  <2>4. f.injector \in Injectors /\ f.asked.key \in Keys /\ f.asked.key \in Provided(f.injector)
    BY <1>1, <2>2, PlanIsProvider DEF Sound
  <2> QED BY <2>2, <2>3, <2>4 DEF Places
<1>3. Place(x) = Place(y) /\ x \in x..y-1
  BY <1>1
<1> HIDE DEF Place
<1>4. ASSUME NEW p \in S PROVE DependsOn(p) \cap S # {}
  <2>1. PICK k \in x..y-1 : p = Place(k)
    BY <1>4
  <2>2. CASE k + 1 \in x..y-1
    BY <1>2, <2>1, <2>2
  <2>3. CASE k + 1 = y
    BY <1>2, <1>3, <2>1, <2>3
  <2> QED BY <1>1, <2>2, <2>3
<1>5. S \in SUBSET Places /\ S # {}
  BY <1>2, <1>3
<1> QED BY <1>4, <1>5 DEF Cyclic

LEMMA SetsAreFinite ==
    ASSUME InjectorInv, NEW i \in Injectors
    PROVE  /\ IsFiniteSet(Provided(i)) /\ IsFiniteSet(built[i]) /\ IsFiniteSet(Making(i))
           /\ built[i] \subseteq Provided(i)
           /\ Cardinality(built[i]) \in Nat /\ Cardinality(Making(i)) \in Nat
<1>1. Provided(i) \subseteq Keys /\ built[i] \subseteq Provided(i)
  BY DEF InjectorInv, BuiltIsProvided, Provided
<1>2. IsFiniteSet(Provided(i)) /\ IsFiniteSet(built[i])
  BY <1>1, InjectorAssumption, FS_Subset
<1>3. Len(frames) \in Nat /\ Making(i) \subseteq 1..Len(frames)
  BY DEF Making, InjectorInv, InjectorTypeOK
<1>4. IsFiniteSet(Making(i))
  <2>1. IsFiniteSet(1..Len(frames))
    BY <1>3, FS_Interval
  <2> QED BY <1>3, <2>1, FS_Subset
<1> QED BY <1>1, <1>2, <1>4, FS_CardinalityType

\* The error means a cycle.
LEMMA TooManyMeansCycle ==
    ASSUME InjectorInv, Counted, NEW at \in Injectors, counter[at] > Cardinality(Provided(at))
    PROVE  Cyclic
<1> DEFINE S == Making(at)
           T == Provided(at) \ built[at]
           key == [n \in S |-> frames[n].asked.key]
<1>1. /\ IsFiniteSet(S) /\ IsFiniteSet(T) /\ built[at] \cap T = {}
      /\ built[at] \cup T = Provided(at)
      /\ Cardinality(S) \in Nat /\ Cardinality(T) \in Nat /\ Cardinality(built[at]) \in Nat
  <2>1. IsFiniteSet(T)
    BY SetsAreFinite, FS_Subset
  <2> QED BY <2>1, SetsAreFinite, FS_CardinalityType
<1> HIDE DEF S, T, key
<1>2. Cardinality(Provided(at)) = Cardinality(built[at]) + Cardinality(T)
  <2>1. Cardinality(built[at] \cup T) =
          Cardinality(built[at]) + Cardinality(T) - Cardinality(built[at] \cap T)
    BY <1>1, SetsAreFinite, FS_Union
  <2>2. Cardinality(built[at] \cap T) = 0
    BY <1>1, FS_EmptySet
  <2>3. Cardinality(built[at] \cup T) = Cardinality(Provided(at))
    BY <1>1, Zenon
  <2>4. Cardinality(Provided(at)) = Cardinality(built[at]) + Cardinality(T) - 0
    BY <2>1, <2>2, <2>3, Zenon
  <2> QED BY <1>1, <2>4
<1>3. Cardinality(T) < Cardinality(S)
  BY <1>1, <1>2 DEF Counted, S
<1>4. ASSUME NEW n \in S
      PROVE  /\ n \in DOMAIN frames /\ n \in Nat /\ 1 < n /\ frames[n].injector = at
             /\ frames[n].asked.key \in T
  <2>1. n \in DOMAIN frames /\ frames[n].kind = "provide" /\ frames[n].injector = at
    BY DEF Making, S
  <2>2. frames \in Seq(InjectorFrame) /\ IsChain(frames) /\ InjectorTypeOK
    BY DEF InjectorInv, InjectorTypeOK, Chain
  <2>3. n \in Nat /\ 1 < n
    BY <2>1, <2>2 DEF IsChain
  <2>4. Sound(frames[n]) /\ NotBuilt(frames[n])
    BY <2>1, <2>2, <2>3 DEF IsChain
  <2> QED BY <2>1, <2>3, <2>4 DEF Sound, NotBuilt, T
<1>5. key \in [S -> T]
  BY <1>4 DEF key
<1>6. PICK x, y \in S : x # y /\ key[x] = key[y]
  BY <1>1, <1>3, <1>5, FS_PigeonHole
<1>7. frames[x].asked.key = frames[y].asked.key
  BY <1>6 DEF key
<1> QED BY <1>4, <1>6, <1>7, ChainCloses

\* What is in progress is the same, as far as it is counted.
LEMMA SameMaking ==
    ASSUME DOMAIN frames' = DOMAIN frames,
           \A n \in DOMAIN frames : /\ frames'[n].kind = frames[n].kind
                                    /\ frames'[n].injector = frames[n].injector
    PROVE  \A i : Making(i)' = Making(i)
BY DEF Making

LEMMA GoingOnCounts ==
    ASSUME InjectorInv, Counted, Found \/ NextFactory
    PROVE  Counted'
<1>1. /\ frames # <<>> /\ UNCHANGED <<built, counter>>
      /\ frames \in Seq(InjectorFrame) /\ Len(frames) \in DOMAIN frames
      /\ Current = frames[Len(frames)] /\ Current \in InjectorFrame
  <2>1. frames # <<>> /\ UNCHANGED <<built, counter>>
    BY DEF Found, NextFactory, Wanting, Ready, Idle
  <2> QED BY <2>1, CurrentFrame
<1>2. PICK g : /\ frames' = [frames EXCEPT ![Len(frames)] = g]
               /\ g.kind = Current.kind /\ g.injector = Current.injector
  <2>1. CASE Found
    <3>1. frames' = [frames EXCEPT ![Len(frames)] = [Current EXCEPT !.next = @ + 1]]
      BY <1>1, <2>1 DEF Found, NextDependency
    <3>2. /\ [Current EXCEPT !.next = @ + 1].kind = Current.kind
          /\ [Current EXCEPT !.next = @ + 1].injector = Current.injector
      BY <1>1 DEF InjectorFrame
    <3> QED BY <3>1, <3>2
  <2>2. CASE NextFactory
    <3>1. PICK m \in Remaining :
            frames' = [frames EXCEPT ![Len(frames)].factory = m, ![Len(frames)].next = 1]
      BY <2>2 DEF NextFactory
    <3> DEFINE f1 == [Current EXCEPT !.factory = m]
               g == [f1 EXCEPT !.next = 1]
    <3>2. frames' = [frames EXCEPT ![Len(frames)] = g]
      BY <1>1, <3>1
    <3>3. DOMAIN Current = {"kind", "injector", "asked", "factory", "next"}
      BY <1>1 DEF InjectorFrame
    <3>4. DOMAIN f1 = DOMAIN Current /\ f1.kind = Current.kind /\ f1.injector = Current.injector
      BY <3>3
    <3> HIDE DEF f1
    <3>5. g.kind = Current.kind /\ g.injector = Current.injector
      BY <3>3, <3>4
    <3> HIDE DEF g
    <3> QED BY <3>2, <3>5
  <2> QED BY <2>1, <2>2
<1>3. /\ DOMAIN frames' = DOMAIN frames
      /\ \A n \in DOMAIN frames : /\ frames'[n].kind = frames[n].kind
                                  /\ frames'[n].injector = frames[n].injector
  BY <1>1, <1>2
<1>4. \A i : Making(i)' = Making(i)
  BY <1>3, SameMaking
<1> QED BY <1>1, <1>4 DEF Counted

\* Another object is under construction, and has been counted.
LEMMA ConstructCounts == ASSUME InjectorInv, Counted, Construct PROVE Counted' \/ Cyclic
<1>1. PICK at \in Answering :
        /\ Wanting /\ Wanted.key \notin built[at] /\ New(at, Cardinality(Provided(at)))
  BY DEF Construct
<1>2. frames # <<>> /\ UNCHANGED built
  BY <1>1 DEF New, Wanting, Idle
<1>3. PICK n \in Nat \ {0} :
        /\ n = Len(frames) /\ frames \in Seq(InjectorFrame) /\ DOMAIN frames = 1..n
        /\ Current \in InjectorFrame /\ Sound(Current)
  BY <1>2, CurrentFrame
<1>4. at \in Injectors
  <2>1. /\ DependenciesOf(Current) \in Seq(Dependency) /\ Current.injector \in Injectors
        /\ Current.next \in Nat \ {0}
    BY <1>3, PlanIsProvider DEF InjectorInv
  <2>2. Wanted \in Dependency
    BY <1>1, <2>1 DEF Wanting, Wanted
  <2> QED BY <1>1, <2>1, <2>2, HolderProvides DEF Answering
<1>5. CASE counter[at] > Cardinality(Provided(at))
  BY <1>4, <1>5, TooManyMeansCycle
<1>6. CASE ~(counter[at] > Cardinality(Provided(at)))
  <2> DEFINE g == Frame0("provide", at, Wanted)
  <2>1. /\ frames' = Append(frames, g) /\ counter' = [counter EXCEPT ![at] = @ + 1]
        /\ g.kind = "provide" /\ g.injector = at
    BY <1>1, <1>6 DEF New, Frame0
  <2> HIDE DEF g
  <2>2. /\ DOMAIN frames' = 1..n+1 /\ frames'[n + 1] = g
        /\ \A m \in 1..n : frames'[m] = frames[m] /\ m \in 1..n+1
    BY <1>3, <2>1
  <2>3. \A m \in 1..n+1 : m \in 1..n \/ m = n + 1
    BY <1>3
  <2>4. n + 1 \in 1..n+1 /\ n + 1 \notin 1..n
    BY <1>3
  <2>5. Making(at)' = Making(at) \cup {n + 1} /\ n + 1 \notin Making(at)
    BY <1>3, <2>1, <2>2, <2>3, <2>4 DEF Making
  <2>6. \A i \in Injectors : i # at => Making(i)' = Making(i)
    BY <1>3, <2>1, <2>2, <2>3, <2>4 DEF Making
  <2>7. IsFiniteSet(Making(at)) /\ Cardinality(Making(at)) \in Nat /\ Cardinality(built[at]) \in Nat
    BY <1>4, SetsAreFinite
  <2>8. Cardinality(Making(at)') = Cardinality(Making(at)) + 1
    BY <2>5, <2>7, FS_AddElement
  <2>9. counter \in [Injectors -> Nat]
    BY DEF InjectorInv, InjectorTypeOK
  <2>10. counter'[at] = counter[at] + 1 /\ \A i \in Injectors : i # at => counter'[i] = counter[i]
    BY <1>4, <2>1, <2>9
  <2>11. ASSUME NEW i \in Injectors
         PROVE  counter'[i] = Cardinality(built[i]) + Cardinality(Making(i)')
    <3>1. CASE i = at
      <4>1. counter[at] = Cardinality(built[at]) + Cardinality(Making(at))
        BY <1>4 DEF Counted
      <4> QED BY <2>7, <2>8, <2>10, <3>1, <4>1
    <3>2. CASE i # at
      BY <2>6, <2>10, <3>2 DEF Counted
    <3> QED BY <3>1, <3>2
  <2> QED BY <1>2, <2>11 DEF Counted
<1> QED BY <1>5, <1>6

\* An object is finished: it exists now, and it is no longer under construction.
LEMMA FinishCounts == ASSUME InjectorInv, Counted, Finish PROVE Counted'
<1>1. frames # <<>> /\ UNCHANGED counter
  BY DEF Finish, Ready, Idle
<1>2. PICK n \in Nat \ {0} :
        /\ n = Len(frames) /\ frames \in Seq(InjectorFrame) /\ DOMAIN frames = 1..n
        /\ Current \in InjectorFrame /\ Sound(Current) /\ Current = frames[n]
  BY <1>1, CurrentFrame
<1>3. IsChain(frames)
  BY DEF InjectorInv, Chain
<1>4. CASE Current.kind # "provide"
  <2>1. frames' = <<>> /\ UNCHANGED built
    BY <1>4 DEF Finish
  <2>2. n = 1
    BY <1>2, <1>3, <1>4 DEF IsChain
  <2>3. \A i \in Injectors : Making(i) = {} /\ Making(i)' = {}
    BY <1>2, <1>4, <2>1, <2>2 DEF Making
  <2> QED BY <1>1, <2>1, <2>3 DEF Counted
<1>5. CASE Current.kind = "provide"
  <2>1. n > 1 /\ NotBuilt(Current)
    BY <1>2, <1>3, <1>5 DEF IsChain
  <2>2. PICK at \in Injectors, k \in Keys :
          /\ at = Current.injector /\ k = Current.asked.key /\ k \notin built[at]
          /\ built' = [built EXCEPT ![at] = @ \cup {k}]
    <3>1. Current.injector \in Injectors /\ Current.asked.key \in Keys
      BY <1>2, PlanIsProvider DEF InjectorInv
    <3> QED BY <1>5, <2>1, <3>1 DEF Finish, NotBuilt
  <2>3. PICK e \in InjectorFrame :
          /\ e = frames[n - 1]
          /\ frames' = [SubSeq(frames, 1, n - 1) EXCEPT ![n - 1] = [e EXCEPT !.next = @ + 1]]
    <3>1. n - 1 \in 1..n /\ SubSeq(frames, 1, n - 1)[n - 1] = frames[n - 1]
      BY <1>2, <2>1
    <3>2. frames[n - 1] \in InjectorFrame
      BY <1>2, <3>1
    <3> QED BY <1>2, <1>5, <3>1, <3>2 DEF Finish
  <2> DEFINE g == [e EXCEPT !.next = @ + 1]
  <2>4. g.kind = e.kind /\ g.injector = e.injector
    BY DEF InjectorFrame
  <2> HIDE DEF g
  <2>5. /\ DOMAIN frames' = 1..n-1
        /\ \A m \in 1..n-1 : frames'[m] = IF m = n - 1 THEN g ELSE frames[m]
    <3> DEFINE r == SubSeq(frames, 1, n - 1)
    <3>1. r \in Seq(InjectorFrame) /\ Len(r) = n - 1 /\ \A m \in 1..n-1 : r[m] = frames[m]
      BY <1>2, <2>1
    <3>2. frames' = [r EXCEPT ![n - 1] = g]
      BY <2>3 DEF g
    <3> HIDE DEF r
    <3> QED BY <3>1, <3>2
  <2>6. \A m \in 1..n-1 : /\ m \in 1..n /\ m # n
                          /\ frames'[m].kind = frames[m].kind
                          /\ frames'[m].injector = frames[m].injector
    BY <1>2, <2>3, <2>4, <2>5
  <2>7. n \in 1..n /\ n \notin 1..n-1 /\ \A m \in 1..n : m \in 1..n-1 \/ m = n
    BY <1>2
  <2>8. Making(at)' = Making(at) \ {n} /\ n \in Making(at)
    BY <1>2, <1>5, <2>2, <2>5, <2>6, <2>7 DEF Making
  <2>9. \A i \in Injectors : i # at => Making(i)' = Making(i)
    BY <1>2, <2>2, <2>5, <2>6, <2>7 DEF Making
  <2>10. /\ IsFiniteSet(Making(at)) /\ Cardinality(Making(at)) \in Nat
         /\ IsFiniteSet(built[at]) /\ Cardinality(built[at]) \in Nat
    BY SetsAreFinite
  <2>11. Cardinality(Making(at)') = Cardinality(Making(at)) - 1
    BY <2>8, <2>10, FS_RemoveElement
  <2>12. /\ built'[at] = built[at] \cup {k}
         /\ \A i \in Injectors : i # at => built'[i] = built[i]
    BY <2>2 DEF InjectorInv, InjectorTypeOK
  <2>13. Cardinality(built'[at]) = Cardinality(built[at]) + 1
    <3>1. Cardinality(built[at] \cup {k}) = Cardinality(built[at]) + 1
      BY <2>2, <2>10, FS_AddElement
    <3> QED BY <2>12, <3>1, Zenon
  <2>14. ASSUME NEW i \in Injectors
         PROVE  counter[i] = Cardinality(built'[i]) + Cardinality(Making(i)')
    <3>1. CASE i = at
      <4>1. counter[at] = Cardinality(built[at]) + Cardinality(Making(at))
        BY DEF Counted
      <4> QED BY <2>10, <2>11, <2>13, <3>1, <4>1
    <3>2. CASE i # at
      BY <2>9, <2>12, <3>2 DEF Counted
    <3> QED BY <3>1, <3>2
  <2> QED BY <1>1, <2>14 DEF Counted
<1> QED BY <1>4, <1>5

\* An operation begins where nothing is in progress.
LEMMA BeginCounts ==
    ASSUME InjectorInv, Counted, NEW kind \in {"get", "instantiate"}, NEW i, NEW dep,
           Begin(kind, i, dep)
    PROVE  Counted'
<1>1. frames = <<>> /\ frames' = <<Frame0(kind, i, dep)>> /\ UNCHANGED <<built, counter>>
  BY DEF Begin, Idle
<1>2. frames'[1].kind = kind /\ DOMAIN frames' = {1} /\ DOMAIN frames = {}
  BY <1>1 DEF Frame0
<1>3. \A j : Making(j) = {} /\ Making(j)' = {}
  BY <1>2 DEF Making
<1> QED BY <1>1, <1>3 DEF Counted

\* A step of an operation counts what it does, or fails, or has come upon a cycle.
LEMMA InjectorStepCounts ==
    ASSUME InjectorInv, InjectorStep, failed \/ Cyclic \/ Counted,
           outcome = "cyclic" => failed \/ Cyclic
    PROVE  /\ failed' \/ Cyclic \/ Counted'
           /\ outcome' = "cyclic" => failed' \/ Cyclic
<1>1. failed => failed'
  BY DEF InjectorStep, Found, NotProvided, Construct, New, NextFactory, Finish, FactoryThrows
<1>2. CASE Found \/ NextFactory
  BY <1>2, GoingOnCounts DEF Found, NextFactory
<1>3. CASE Construct
  <2>1. Counted => Counted' \/ Cyclic
    BY <1>3, ConstructCounts
  <2>2. outcome' # "cyclic" \/ failed \/ Cyclic
    <3> SUFFICES ASSUME outcome' = "cyclic", Counted, outcome # "cyclic" PROVE Cyclic
      OBVIOUS
    <3>1. PICK at \in Answering : Wanting /\ New(at, Cardinality(Provided(at)))
      BY <1>3 DEF Construct
    <3>2. at \in Injectors
      <4>1. Current \in InjectorFrame /\ Sound(Current)
        BY <3>1, CurrentFrame DEF Wanting, Idle
      <4>2. /\ DependenciesOf(Current) \in Seq(Dependency) /\ Current.injector \in Injectors
            /\ Current.next \in Nat \ {0}
        BY <4>1, PlanIsProvider DEF InjectorInv
      <4>3. Wanted \in Dependency
        BY <3>1, <4>2 DEF Wanting, Wanted
      <4> QED BY <3>1, <4>2, <4>3, HolderProvides DEF Answering
    <3>3. counter[at] > Cardinality(Provided(at))
      BY <3>1 DEF New
    <3> QED BY <3>2, <3>3, TooManyMeansCycle
  <2> QED BY <1>1, <2>1, <2>2
<1>4. CASE Finish
  BY <1>1, <1>4, FinishCounts DEF Finish
<1>5. CASE NotProvided \/ FactoryThrows
  BY <1>5 DEF NotProvided, FactoryThrows
<1> QED BY <1>2, <1>3, <1>4, <1>5 DEF InjectorStep

LEMMA CountInvStep == LoadInv /\ CountInv /\ [Next]_vars => CountInv'
<1> SUFFICES ASSUME LoadInv, CountInv, [Next]_vars PROVE CountInv'
  OBVIOUS
<1>1. InjectorInv
  BY DEF LoadInv
<1>2. CASE Load
  <2>1. /\ loading' = "loading" /\ frames' = <<>> /\ UNCHANGED <<built, counter>>
        /\ outcome' = "none" /\ \A i \in Injectors : built[i] = {} /\ counter[i] = 0
    BY <1>2 DEF Load, LoadInv, CountInv
  <2>2. \A i : Making(i)' = {}
    BY <2>1 DEF Making
  <2>3. ASSUME NEW i \in Injectors
        PROVE  counter'[i] = 0 /\ Cardinality(built'[i]) = 0 /\ Cardinality(Making(i)') = 0
    <3>1. built'[i] = {} /\ Making(i)' = {} /\ counter'[i] = 0
      BY <2>1, <2>2
    <3> QED BY <3>1, FS_EmptySet, Zenon
  <2>4. Counted'
    BY <2>3 DEF Counted
  <2> QED BY <2>1, <2>4 DEF CountInv
<1>3. CASE LoadAgain
  <2>1. /\ frames = <<>> /\ frames' = <<>> /\ outcome' = "none" /\ UNCHANGED <<providers, failed>>
        /\ built' = [built EXCEPT ![Own] = {}] /\ counter' = [counter EXCEPT ![Own] = 0]
        /\ loading' = "loading"
    BY <1>3 DEF LoadAgain, LoadInv
  <2>2. /\ counter'[2] = 0 /\ built'[2] = {} /\ counter'[1] = counter[1] /\ built'[1] = built[1]
    BY <1>1, <2>1, TwoInjectors DEF InjectorInv, InjectorTypeOK
  <2>3. \A i : Making(i) = {} /\ Making(i)' = {}
    BY <2>1 DEF Making
  <2>4. Counted => Counted'
    BY <2>2, <2>3, TwoInjectors, FS_EmptySet DEF Counted
  <2> QED BY <2>1, <2>4, CyclicStays DEF CountInv
<1>4. CASE GetModule \/ Use
  <2>1. /\ loading # "waiting" /\ UNCHANGED loading
        /\ \E kind \in {"get", "instantiate"} : \E i, dep : Begin(kind, i, dep)
    BY <1>4 DEF GetModule, Use, Get, Instantiate
  <2>2. UNCHANGED <<providers, failed>> /\ outcome' = "running"
    BY <2>1 DEF Begin
  <2>3. Counted => Counted'
    BY <1>1, <2>1, BeginCounts
  <2> QED BY <2>1, <2>2, <2>3, CyclicStays DEF CountInv
<1>5. CASE Constructing
  <2>1. /\ InjectorStep /\ UNCHANGED loading /\ frames # <<>> /\ UNCHANGED providers
    BY <1>5 DEF Constructing, InjectorStep, Found, NotProvided, Construct, New, NextFactory,
                Finish, FactoryThrows, Wanting, Ready, Idle
  <2>2. loading # "waiting"
    BY <2>1 DEF LoadInv
  <2> QED BY <1>1, <2>1, <2>2, InjectorStepCounts, CyclicStays DEF CountInv
<1>6. CASE UNCHANGED injectorVars /\ (loading' = "waiting" => loading = "waiting")
  <2>1. /\ UNCHANGED providers /\ UNCHANGED built /\ UNCHANGED counter /\ UNCHANGED frames
        /\ UNCHANGED outcome /\ UNCHANGED failed
    BY <1>6 DEF injectorVars
  <2>2. Counted' <=> Counted
    BY <2>1 DEF Counted, Making
  <2> QED BY <1>6, <2>1, <2>2, CyclicStays DEF CountInv
<1> QED
  BY <1>2, <1>3, <1>4, <1>5, <1>6 DEF Next, vars, Resolve, LoadEnds

\* The first error that says so, in an application where nothing failed before, is about
\* dependencies that do form a cycle.
THEOREM CyclicErrorIsTrue == Spec => []FirstCyclicErrorMeansCycle
<1>1. CountInv => FirstCyclicErrorMeansCycle
  BY DEF CountInv, FirstCyclicErrorMeansCycle, CyclicErrorMeansCycle
<1>2. Init => CountInv
  <2> SUFFICES ASSUME Init PROVE CountInv
    OBVIOUS
  <2>1. \A i \in Injectors : counter[i] = 0 /\ built[i] = {} /\ Making(i) = {}
    BY DEF Init, InjectorInit, Making
  <2>2. Counted
    BY <2>1, FS_EmptySet DEF Counted
  <2> QED BY <2>1, <2>2 DEF CountInv, Init, InjectorInit
<1> QED BY <1>1, <1>2, LoadInvInit, LoadInvStep, CountInvStep, PTL DEF Spec

---------------------------------------------------------------------------
(***************************************************************************)
(* Resolving and constructing are recursive; imports and dependencies may  *)
(* form circles.  Neither recursion is endless: each step lowers a tuple   *)
(* of natural numbers in the lexicographic order, which is well-founded.   *)
(* A walk has fewer modules to visit, or, having as many, leaves one, or   *)
(* is further in its imports.  An operation has fewer constructions to     *)
(* begin before a counter refuses them, or as many and finishes one, or is *)
(* further in one.                                                         *)
(***************************************************************************)
Less == {ss \in Nat \X Nat : ss[1] < ss[2]}

\* Tuples of numbers, and when one comes before another.
Tuples(n) == [1..n -> Nat]
Lower(a, b, n) == <<a, b>> \in LexProductOrdering(Less, Nat, n)

\* What is left of a after b, if anything.
Monus(a, b) == IF a >= b THEN a - b ELSE 0

\* The modules to visit, the modules on the way, and the imports ahead of the innermost.
WalkLeft ==
    <<Cardinality(Modules \ visited), Len(path),
      IF path = <<>> THEN 0 ELSE Monus(Len(TopImports) + 1, Top.position)>>

\* How many constructions the counter of an injector still lets begin.
Allowance(i) == Monus(Cardinality(Provided(i)) + 2, counter[i])

\* Of an operation: the constructions to come, those in progress, and of the innermost the
\* factories to run and the dependencies to look up.
OperationLeft ==
    <<Allowance(Primary) + Allowance(Own), Len(frames),
      IF Idle THEN 0 ELSE Cardinality(Remaining),
      IF Idle THEN 0 ELSE Monus(Len(DependenciesOf(Current)) + 1, Current.next)>>

\* There is no endless sequence of ever lower tuples.
LEMMA LowerIsWellFounded ==
    ASSUME NEW n \in Nat
    PROVE  ~ \E f \in [Nat -> Tuples(n)] : \A k \in Nat : Lower(f[k + 1], f[k], n)
<1>1. IsWellFoundedOn(Less, Nat)
  BY NatLessThanWellFounded DEF OpToRel, Less
<1>2. IsWellFoundedOn(LexProductOrdering(Less, Nat, n), [1..n -> Nat])
  BY <1>1, WFLexProductOrdering
<1> QED BY <1>2 DEF IsWellFoundedOn, Lower, Tuples

\* A tuple is lower if it is at some place and the same before.
LEMMA LowerIs ==
    ASSUME NEW n \in Nat, NEW a \in Tuples(n), NEW b \in Tuples(n),
           NEW j \in 1..n, \A i \in 1..(j - 1) : a[i] = b[i], a[j] < b[j]
    PROVE  Lower(a, b, n)
<1>1. a[j] \in Nat /\ b[j] \in Nat
  BY DEF Tuples
<1>2. <<a[j], b[j]>> \in Less
  BY <1>1 DEF Less
<1> DEFINE p == <<a, b>>
<1>3. p \in [1..n -> Nat] \X [1..n -> Nat] /\ p[1] = a /\ p[2] = b
  BY DEF Tuples
<1> HIDE DEF p
<1>4. p \in LexProductOrdering(Less, Nat, n)
  BY <1>2, <1>3 DEF LexProductOrdering
<1> QED BY <1>4 DEF Lower, p

\* What is left is a number.
LEMMA MonusIsNat == ASSUME NEW a \in Nat, NEW b \in Nat PROVE Monus(a, b) \in Nat
BY DEF Monus

---------------------------------------------------------------------------
LEMMA ModulesAreFinite == IsFiniteSet(Modules)
<1>1. Modules \subseteq Keys
  BY WiringAssumption
<1> QED BY <1>1, InjectorAssumption, FS_Subset

\* What is left of a walk is a tuple of numbers, in every state.
LEMMA WalkLeftIsTuple == GraphInv => WalkLeft \in Tuples(3)
<1> SUFFICES ASSUME GraphInv PROVE WalkLeft \in Tuples(3)
  OBVIOUS
<1>1. PICK u : u = Cardinality(Modules \ visited)
  OBVIOUS
<1>2. u \in Nat
  <2>1. IsFiniteSet(Modules \ visited)
    BY ModulesAreFinite, FS_Subset
  <2> QED BY <1>1, <2>1, FS_CardinalityType
<1>3. PICK l : l = Len(path)
  OBVIOUS
<1>4. l \in Nat
  BY <1>3 DEF GraphInv, GraphTypeOK
<1>5. PICK r : r = IF path = <<>> THEN 0 ELSE Monus(Len(TopImports) + 1, Top.position)
  OBVIOUS
<1>6. r \in Nat
  <2>1. CASE path = <<>>
    BY <1>5, <2>1
  <2>2. CASE path # <<>>
    <3>1. Top \in Frame
      BY <2>2, AdvancedPath DEF GraphInv, GraphTypeOK
    <3>2. TopImports \in Seq(Modules \cup {Missing}) /\ Top.position \in Nat
      BY <3>1, ModuleAssumption DEF TopImports, GraphInv, GraphTypeOK, Frame
    <3>3. Len(TopImports) + 1 \in Nat
      BY <3>2
    <3> QED BY <1>5, <2>2, <3>2, <3>3, MonusIsNat
  <2> QED BY <2>1, <2>2
<1>7. WalkLeft = <<u, l, r>>
  BY <1>1, <1>3, <1>5 DEF WalkLeft
<1> QED BY <1>2, <1>4, <1>6, <1>7 DEF Tuples

LEMMA WalkLeftStaysTuple == GraphInv' => WalkLeft' \in Tuples(3)
<1>1. GraphInv' => (WalkLeft \in Tuples(3))'
  BY WalkLeftIsTuple, PTL
<1>2. (WalkLeft \in Tuples(3))' <=> WalkLeft' \in Tuples(3)
  BY DEF Tuples
<1> QED BY <1>1, <1>2

\* A module that is entered is one less to visit.
LEMMA EnteringLowers ==
    ASSUME GraphInv, GraphInv', NEW m \in Modules \ visited, visited' = visited \cup {m}
    PROVE  Lower(WalkLeft', WalkLeft, 3)
<1>1. WalkLeft \in Tuples(3) /\ WalkLeft' \in Tuples(3)
  <2>1. WalkLeft \in Tuples(3)
    BY WalkLeftIsTuple
  <2>2. WalkLeft' \in Tuples(3)
    BY WalkLeftStaysTuple
  <2> QED BY <2>1, <2>2
<1>2. Cardinality(Modules \ visited') < Cardinality(Modules \ visited)
  <2>1. IsFiniteSet(Modules \ visited)
    BY ModulesAreFinite, FS_Subset
  <2>2. Modules \ visited' = (Modules \ visited) \ {m} /\ m \in Modules \ visited
    OBVIOUS
  <2>3. Cardinality(Modules \ visited) \in Nat /\ Cardinality((Modules \ visited) \ {m}) = Cardinality(Modules \ visited) - 1
    BY <2>1, <2>2, FS_RemoveElement, FS_CardinalityType
  <2> QED BY <2>2, <2>3
<1>3. WalkLeft'[1] < WalkLeft[1]
  BY <1>2 DEF WalkLeft
<1> QED BY <1>1, <1>3, LowerIs

\* An import that was visited before is one less ahead.
LEMMA SkippingLowers ==
    ASSUME GraphInv, GraphInv', SkipVisited
    PROVE  Lower(WalkLeft', WalkLeft, 3)
<1>1. WalkLeft \in Tuples(3) /\ WalkLeft' \in Tuples(3)
  <2>1. WalkLeft \in Tuples(3)
    BY WalkLeftIsTuple
  <2>2. WalkLeft' \in Tuples(3)
    BY WalkLeftStaysTuple
  <2> QED BY <2>1, <2>2
<1>2. path # <<>> /\ path \in Seq(Frame) /\ UNCHANGED <<visited, imports>> /\ path' = Advanced
      /\ Top.position <= Len(TopImports)
  BY DEF SkipVisited, Importing, GraphInv, GraphTypeOK
<1>3. /\ Len(path') = Len(path) /\ path' # <<>> /\ Len(path) \in Nat \ {0} /\ Top \in Frame
      /\ path'[Len(path)] = [module |-> Top.module, position |-> Top.position + 1]
  BY <1>2, AdvancedPath
<1>4. Top'.position = Top.position + 1 /\ TopImports' = TopImports
  BY <1>2, <1>3 DEF Top, TopImports
<1>5. TopImports \in Seq(Modules \cup {Missing}) /\ Top.position \in Nat
  BY <1>3, ModuleAssumption DEF TopImports, GraphInv, GraphTypeOK, Frame
<1>6. PICK n \in Nat, k \in Nat : n = Len(TopImports) /\ k = Top.position /\ k <= n
  BY <1>2, <1>5
<1>7. Monus(n + 1, k + 1) < Monus(n + 1, k)
  BY <1>6 DEF Monus
<1>8. WalkLeft'[1] = WalkLeft[1] /\ WalkLeft'[2] = WalkLeft[2] /\ WalkLeft'[3] < WalkLeft[3]
  BY <1>2, <1>3, <1>4, <1>6, <1>7 DEF WalkLeft
<1>9. \A i \in 1..2 : WalkLeft'[i] = WalkLeft[i]
  BY <1>8
<1> QED BY <1>1, <1>8, <1>9, LowerIs

\* A module that is left is one less on the way.
LEMMA DefiningLowers ==
    ASSUME GraphInv, GraphInv', Define
    PROVE  Lower(WalkLeft', WalkLeft, 3)
<1>1. WalkLeft \in Tuples(3) /\ WalkLeft' \in Tuples(3)
  <2>1. WalkLeft \in Tuples(3)
    BY WalkLeftIsTuple
  <2>2. WalkLeft' \in Tuples(3)
    BY WalkLeftStaysTuple
  <2> QED BY <2>1, <2>2
<1>2. Len(path) \in Nat \ {0} /\ path' = SubSeq(path, 1, Len(path) - 1) /\ path \in Seq(Frame)
      /\ UNCHANGED visited
  BY DEF Define, GraphInv, GraphTypeOK
<1>3. Len(path') < Len(path)
  BY <1>2
<1>4. WalkLeft'[1] = WalkLeft[1] /\ WalkLeft'[2] < WalkLeft[2]
  BY <1>2, <1>3 DEF WalkLeft
<1> QED BY <1>1, <1>4, LowerIs

\* resolveModule() comes to an end, whatever the modules import and configure, in circles
\* and through shared arrays that grow while they are walked: each step but the error for a
\* missing import lowers what is left.
ResolvingDescends ==
    [][ResolveStep => resolution' = "failed" \/ Lower(WalkLeft', WalkLeft, 3)]_vars

\* Resolving descends in every application.
THEOREM ResolvingIsNotEndless == Spec => ResolvingDescends
<1>1. ASSUME GraphInv, GraphInv', [Next]_vars
      PROVE  [ResolveStep => resolution' = "failed" \/ Lower(WalkLeft', WalkLeft, 3)]_vars
  <2> SUFFICES ASSUME ResolveStep, resolution' # "failed" PROVE Lower(WalkLeft', WalkLeft, 3)
    OBVIOUS
  <2>1. CASE ResolveEntry
    <3>1. visited' = visited \cup {Entry} /\ visited = {} /\ Entry \in Modules
      BY <1>1, <2>1, ModuleAssumption
         DEF ResolveEntry, Enter, GraphInv, OnPath, Listed
    <3> QED BY <1>1, <3>1, EnteringLowers
  <2>2. CASE EnterImport
    <3>1. visited' = visited \cup {Imported} /\ Imported \notin visited
      BY <2>2 DEF EnterImport, Enter
    <3>2. Imported \in Modules
      BY <1>1, <3>1 DEF GraphInv, GraphTypeOK
    <3> QED BY <1>1, <3>1, <3>2, EnteringLowers
  <2>3. CASE SkipVisited
    BY <1>1, <2>3, SkippingLowers
  <2>4. CASE Define
    BY <1>1, <2>4, DefiningLowers
  <2>5. CASE ImportMissing
    BY <2>5 DEF ImportMissing
  <2> QED BY <2>1, <2>2, <2>3, <2>4, <2>5 DEF ResolveStep
<1>2. Init => GraphInv
  BY GraphInvInit DEF Init
<1> QED BY <1>1, <1>2, GraphInvStep, PTL DEF Spec, ResolvingDescends
---------------------------------------------------------------------------
\* Every provider has finitely many factories.
FinitePlans == \A i \in Injectors : \A k \in Provided(i) : IsFiniteSet(DOMAIN providers[i][k])

LEMMA FinitePlansStep == LoadInv /\ FinitePlans /\ [Next]_vars => FinitePlans'
<1> SUFFICES ASSUME LoadInv, FinitePlans, [Next]_vars PROVE FinitePlans'
  OBVIOUS
<1>1. CASE Load
  <2>1. providers' = [i \in Injectors |-> IF i = Primary THEN PrimaryProviders ELSE OwnProviders]
    BY <1>1 DEF Load
  <2>2. ASSUME NEW s \in Services, Merged(s) # NoProvider
        PROVE  IsFiniteSet(DOMAIN Merged(s))
    <3>1. DOMAIN Merged(s) = Effective(s) /\ Effective(s) \subseteq DOMAIN definitions
      BY <2>2 DEF Merged, Effective, Contributors
    <3>2. Len(definitions) \in Nat /\ DOMAIN definitions = 1..Len(definitions)
      BY DEF LoadInv, GraphInv, GraphTypeOK
    <3>3. IsFiniteSet(1..Len(definitions))
      BY <3>2, FS_Interval
    <3> QED BY <3>1, <3>2, <3>3, FS_Subset
  <2>3. ASSUME NEW k \in Keys, PrimaryProviders[k] # NoProvider
        PROVE  IsFiniteSet(DOMAIN PrimaryProviders[k])
    BY <2>2, <2>3 DEF PrimaryProviders
  <2>4. ASSUME NEW k \in Keys, OwnProviders[k] # NoProvider
        PROVE  IsFiniteSet(DOMAIN OwnProviders[k])
    <3>1. OwnProviders[k] = <<wiring.needs[k]>>
      BY <2>4 DEF OwnProviders
    <3>2. DOMAIN OwnProviders[k] = {1}
      BY <3>1
    <3> QED BY <3>2, FS_Singleton
  <2>5. ASSUME NEW i \in Injectors, NEW k \in Keys, providers'[i][k] # NoProvider
        PROVE  IsFiniteSet(DOMAIN providers'[i][k])
    BY <2>1, <2>3, <2>4, <2>5
  <2> QED BY <2>5 DEF FinitePlans, Provided
<1>2. CASE UNCHANGED providers
  BY <1>2 DEF FinitePlans, Provided
<1> QED
  BY <1>1, <1>2
     DEF Next, vars, injectorVars, Resolve, LoadAgain, GetModule, LoadEnds, Use, Constructing, Get,
         Instantiate, Begin, InjectorStep, Found, NotProvided, Construct, New, NextFactory,
         Finish, FactoryThrows

LEMMA AllowanceIsNat == ASSUME InjectorInv, NEW i \in Injectors PROVE Allowance(i) \in Nat
<1>1. Cardinality(Provided(i)) \in Nat
  BY SetsAreFinite, FS_CardinalityType
<1>2. Cardinality(Provided(i)) + 2 \in Nat
  BY <1>1
<1>3. counter[i] \in Nat
  BY DEF InjectorInv, InjectorTypeOK
<1> QED BY <1>2, <1>3, MonusIsNat DEF Allowance

LEMMA RemainingIsFinite ==
    ASSUME InjectorInv, FinitePlans, frames # <<>>
    PROVE  IsFiniteSet(Remaining)
<1>1. Current \in InjectorFrame /\ Sound(Current)
  BY CurrentFrame
<1>2. Current.injector \in Injectors
  BY <1>1 DEF InjectorFrame
<1>3. IsFiniteSet(DOMAIN Plan(Current))
  <2>1. CASE Current.kind = "get"
    <3>1. DOMAIN Plan(Current) = {1}
      BY <2>1 DEF Plan
    <3> QED BY <3>1, FS_Singleton
  <2>2. CASE Current.kind # "get"
    BY <1>1, <1>2, <2>2 DEF Sound, Plan, FinitePlans
  <2> QED BY <2>1, <2>2
<1>4. Remaining \subseteq DOMAIN Plan(Current)
  BY DEF Remaining
<1> QED BY <1>3, <1>4, FS_Subset

\* What is left of an operation is a tuple of numbers, in every state.
LEMMA OperationLeftIsTuple == InjectorInv /\ FinitePlans => OperationLeft \in Tuples(4)
<1> SUFFICES ASSUME InjectorInv, FinitePlans PROVE OperationLeft \in Tuples(4)
  OBVIOUS
<1>1. PICK a : a = Allowance(Primary) + Allowance(Own)
  OBVIOUS
<1>2. a \in Nat
  <2>1. Allowance(Primary) \in Nat /\ Allowance(Own) \in Nat
    BY AllowanceIsNat, TwoInjectors
  <2> QED BY <1>1, <2>1
<1>3. PICK l : l = Len(frames)
  OBVIOUS
<1>4. l \in Nat
  BY <1>3 DEF InjectorInv, InjectorTypeOK
<1>5. PICK r : r = IF Idle THEN 0 ELSE Cardinality(Remaining)
  OBVIOUS
<1>6. r \in Nat
  BY <1>5, RemainingIsFinite, FS_CardinalityType DEF Idle
<1>7. PICK d : d = IF Idle THEN 0 ELSE Monus(Len(DependenciesOf(Current)) + 1, Current.next)
  OBVIOUS
<1>8. d \in Nat
  <2>1. CASE Idle
    BY <1>7, <2>1
  <2>2. CASE ~Idle
    <3>1. DependenciesOf(Current) \in Seq(Dependency) /\ Current.next \in Nat
      BY <2>2, CurrentFrame, PlanIsProvider DEF Idle, InjectorInv
    <3>2. Len(DependenciesOf(Current)) + 1 \in Nat
      BY <3>1
    <3> QED BY <1>7, <2>2, <3>1, <3>2, MonusIsNat
  <2> QED BY <2>1, <2>2
<1>9. OperationLeft = <<a, l, r, d>>
  BY <1>1, <1>3, <1>5, <1>7 DEF OperationLeft
<1> QED BY <1>2, <1>4, <1>6, <1>8, <1>9 DEF Tuples

LEMMA OperationLeftStaysTuple ==
    InjectorInv' /\ FinitePlans' => OperationLeft' \in Tuples(4)
<1>1. InjectorInv' /\ FinitePlans' => (OperationLeft \in Tuples(4))'
  BY OperationLeftIsTuple, PTL
<1>2. (OperationLeft \in Tuples(4))' <=> OperationLeft' \in Tuples(4)
  BY DEF Tuples
<1> QED BY <1>1, <1>2

\* What may still be constructed is the same where nothing is counted.
LEMMA AllowanceStays ==
    ASSUME UNCHANGED <<providers, counter>>
    PROVE  OperationLeft'[1] = OperationLeft[1]
<1>1. \A i : Allowance(i)' = Allowance(i)
  BY DEF Allowance, Provided
<1>2. OperationLeft[1] = Allowance(Primary) + Allowance(Own)
  BY DEF OperationLeft
<1>3. OperationLeft'[1] = Allowance(Primary)' + Allowance(Own)'
  BY DEF OperationLeft
<1> QED BY <1>1, <1>2, <1>3

\* A construction that was let begin has used up some of what is allowed.
LEMMA ConstructingUses ==
    ASSUME InjectorInv, Construct, outcome' = "running", OperationLeft \in Tuples(4),
           OperationLeft' \in Tuples(4)
    PROVE  Lower(OperationLeft', OperationLeft, 4)
<1>1. PICK at \in Answering : Wanting /\ New(at, Cardinality(Provided(at)))
  BY DEF Construct
<1>2. at \in Injectors
  <2>1. Current \in InjectorFrame /\ Sound(Current)
    BY <1>1, CurrentFrame DEF Wanting, Idle
  <2>2. /\ DependenciesOf(Current) \in Seq(Dependency) /\ Current.injector \in Injectors
        /\ Current.next \in Nat \ {0}
    BY <2>1, PlanIsProvider DEF InjectorInv
  <2>3. Wanted \in Dependency
    BY <1>1, <2>2 DEF Wanting, Wanted
  <2> QED BY <1>1, <2>2, <2>3, HolderProvides DEF Answering
<1>3. PICK c \in Nat, p \in Nat : c = counter[at] /\ p = Cardinality(Provided(at))
  <2>1. Cardinality(Provided(at)) \in Nat
    BY <1>2, SetsAreFinite, FS_CardinalityType
  <2>2. counter[at] \in Nat
    BY <1>2 DEF InjectorInv, InjectorTypeOK
  <2> QED BY <2>1, <2>2
<1>4. c <= p
  BY <1>1, <1>3 DEF New, Fail
<1>5. /\ counter' = [counter EXCEPT ![at] = @ + 1] /\ UNCHANGED providers
      /\ counter \in [Injectors -> Nat]
  BY <1>1 DEF New, InjectorInv, InjectorTypeOK
<1>6. \A i : Provided(i)' = Provided(i)
  BY <1>5 DEF Provided
<1>7. Allowance(at)' < Allowance(at)
  <2>1. Allowance(at) = Monus(p + 2, c)
    BY <1>3 DEF Allowance
  <2>2. Allowance(at)' = Monus(p + 2, c + 1)
    BY <1>2, <1>3, <1>5, <1>6 DEF Allowance
  <2>3. Monus(p + 2, c + 1) < Monus(p + 2, c)
    BY <1>4 DEF Monus
  <2> QED BY <2>1, <2>2, <2>3
<1>8. \A i \in Injectors : i # at => Allowance(i)' = Allowance(i)
  BY <1>5, <1>6 DEF Allowance
<1>9. \A i \in Injectors : Allowance(i) \in Nat
  BY AllowanceIsNat
<1>10. Allowance(at)' \in Int
  <2>1. p + 2 \in Nat /\ c + 1 \in Nat /\ Allowance(at)' = Monus(p + 2, c + 1)
    BY <1>2, <1>3, <1>5, <1>6 DEF Allowance
  <2> QED BY <2>1, MonusIsNat
<1>11. Allowance(Primary)' + Allowance(Own)' < Allowance(Primary) + Allowance(Own)
  <2> HIDE DEF Allowance
  <2>1. CASE at = Primary
    BY <1>7, <1>8, <1>9, <1>10, <2>1, TwoInjectors
  <2>2. CASE at = Own
    BY <1>7, <1>8, <1>9, <1>10, <2>2, TwoInjectors
  <2> QED BY <1>2, <2>1, <2>2, TwoInjectors
<1>12. OperationLeft'[1] < OperationLeft[1]
  BY <1>11 DEF OperationLeft
<1>13. \A i \in 1..0 : OperationLeft'[i] = OperationLeft[i]
  OBVIOUS
<1> QED BY <1>12, <1>13, LowerIs

\* The part that runs has gone on within its plan.
LEMMA SamePlan ==
    ASSUME UNCHANGED providers, NEW f, NEW g, Current = f, Current' = g,
           g.kind = f.kind, g.injector = f.injector, g.asked = f.asked
    PROVE  Plan(Current)' = Plan(Current)
BY DEF Plan

\* One dependency less.
LEMMA FindingLowers ==
    ASSUME InjectorInv, Found, OperationLeft \in Tuples(4), OperationLeft' \in Tuples(4)
    PROVE  Lower(OperationLeft', OperationLeft, 4)
<1>1. /\ frames # <<>> /\ UNCHANGED <<providers, counter>>
      /\ Current.next <= Len(DependenciesOf(Current)) /\ frames' = NextDependency
  BY DEF Found, Wanting, Idle
<1>2. PICK n \in Nat \ {0}, f \in InjectorFrame :
        /\ n = Len(frames) /\ frames \in Seq(InjectorFrame) /\ f = Current /\ f = frames[n]
        /\ Sound(f)
  BY <1>1, CurrentFrame
<1>3. PICK g : g = [f EXCEPT !.next = @ + 1]
  OBVIOUS
<1>4. /\ g.kind = f.kind /\ g.injector = f.injector /\ g.asked = f.asked
      /\ g.factory = f.factory /\ g.next = f.next + 1
  BY <1>3 DEF InjectorFrame
<1>5. Len(frames') = n /\ frames'[n] = g /\ frames' # <<>>
  BY <1>1, <1>2, <1>3 DEF NextDependency
<1>6. Current' = g
  BY <1>5 DEF Current
<1>7. Plan(Current)' = Plan(Current)
  BY <1>1, <1>2, <1>4, <1>6, SamePlan
<1>8. Remaining' = Remaining
  BY <1>2, <1>4, <1>6, <1>7 DEF Remaining
<1>9. DependenciesOf(Current)' = DependenciesOf(Current)
  BY <1>2, <1>4, <1>6, <1>7 DEF DependenciesOf
<1>10. PICK d \in Nat, k \in Nat : d = Len(DependenciesOf(f)) /\ k = f.next
  <2>1. DependenciesOf(f) \in Seq(Dependency) /\ f.next \in Nat
    BY <1>2, PlanIsProvider DEF InjectorInv
  <2> QED BY <2>1
<1>11. k <= d
  BY <1>1, <1>2, <1>10
<1>12. Monus(d + 1, k + 1) < Monus(d + 1, k)
  BY <1>11 DEF Monus
<1>13. OperationLeft[4] = Monus(d + 1, k)
  BY <1>1, <1>2, <1>10 DEF OperationLeft, Idle
<1>14. OperationLeft'[4] = Monus(d + 1, k + 1)
  <2>1. OperationLeft'[4] = Monus(Len(DependenciesOf(Current)') + 1, Current'.next)
    BY <1>5 DEF OperationLeft, Idle
  <2> QED BY <1>2, <1>4, <1>6, <1>9, <1>10, <2>1
<1>15. OperationLeft'[1] = OperationLeft[1]
  BY <1>1, AllowanceStays
<1>16. OperationLeft'[2] = OperationLeft[2] /\ OperationLeft'[3] = OperationLeft[3]
  BY <1>1, <1>2, <1>5, <1>8 DEF OperationLeft, Idle
<1>17. \A i \in 1..(4 - 1) : OperationLeft'[i] = OperationLeft[i]
  BY <1>15, <1>16
<1>18. OperationLeft'[4] < OperationLeft[4]
  BY <1>12, <1>13, <1>14
<1> QED BY <1>17, <1>18, LowerIs

\* One factory less, of which there are finitely many.
LEMMA NextFactoryLowers ==
    ASSUME InjectorInv, FinitePlans, NextFactory, OperationLeft \in Tuples(4),
           OperationLeft' \in Tuples(4)
    PROVE  Lower(OperationLeft', OperationLeft, 4)
<1>1. PICK m \in Remaining :
        /\ frames # <<>> /\ UNCHANGED <<providers, counter>>
        /\ frames' = [frames EXCEPT ![Len(frames)].factory = m, ![Len(frames)].next = 1]
  BY DEF NextFactory, Ready, Idle
<1>2. PICK n \in Nat \ {0}, f \in InjectorFrame :
        /\ n = Len(frames) /\ frames \in Seq(InjectorFrame) /\ f = Current /\ f = frames[n]
        /\ Sound(f)
  BY <1>1, CurrentFrame
<1> DEFINE h == [f EXCEPT !.factory = m]
<1>3. PICK g : g = [h EXCEPT !.next = 1]
  OBVIOUS
<1>4. /\ g.kind = f.kind /\ g.injector = f.injector /\ g.asked = f.asked /\ g.factory = m
  <2>1. DOMAIN f = {"kind", "injector", "asked", "factory", "next"}
    BY DEF InjectorFrame
  <2>2. DOMAIN h = DOMAIN f /\ h.kind = f.kind /\ h.injector = f.injector /\ h.asked = f.asked
        /\ h.factory = m
    BY <2>1
  <2> HIDE DEF h
  <2>3. /\ g.kind = h.kind /\ g.injector = h.injector /\ g.asked = h.asked
        /\ g.factory = h.factory
    BY <1>3, <2>1, <2>2
  <2> QED BY <2>2, <2>3
<1>5. Len(frames') = n /\ frames'[n] = g /\ frames' # <<>>
  <2>1. frames' = [frames EXCEPT ![n] = g]
    BY <1>1, <1>2, <1>3
  <2> HIDE DEF h
  <2> QED BY <1>2, <2>1
<1>6. Current' = g
  BY <1>5 DEF Current
<1>7. Plan(Current)' = Plan(Current)
  BY <1>1, <1>2, <1>4, <1>6, SamePlan
<1>8. m \in Nat /\ f.factory \in Nat /\ f.factory < m /\ \A i \in Remaining : i \in Nat
  <2>1. IsProvider(Plan(f)) /\ f.factory \in Nat
    BY <1>2, PlanIsProvider DEF InjectorInv
  <2> QED BY <1>2, <2>1 DEF Remaining, IsProvider
<1>9. Remaining' \subseteq Remaining \ {m}
  <2>1. Remaining' = {i \in DOMAIN Plan(Current) : i > m}
    BY <1>4, <1>6, <1>7 DEF Remaining
  <2>2. Remaining = {i \in DOMAIN Plan(Current) : i > f.factory}
    BY <1>2 DEF Remaining
  <2>3. \A i \in DOMAIN Plan(Current) : i \in Nat
    BY <1>2, PlanIsProvider DEF InjectorInv, IsProvider
  <2> QED BY <1>8, <2>1, <2>2, <2>3
<1>10. Cardinality(Remaining') < Cardinality(Remaining)
  <2>1. IsFiniteSet(Remaining)
    BY <1>1, RemainingIsFinite
  <2>2. Remaining' \subseteq Remaining /\ Remaining' # Remaining
    BY <1>9
  <2>3. /\ IsFiniteSet(Remaining') /\ Cardinality(Remaining') <= Cardinality(Remaining)
        /\ Cardinality(Remaining') # Cardinality(Remaining)
    BY <2>1, <2>2, FS_Subset
  <2>4. Cardinality(Remaining) \in Nat /\ Cardinality(Remaining') \in Nat
    BY <2>1, <2>3, FS_CardinalityType
  <2> QED BY <2>3, <2>4
<1>11. OperationLeft'[1] = OperationLeft[1]
  BY <1>1, AllowanceStays
<1>12. OperationLeft'[2] = OperationLeft[2] /\ OperationLeft'[3] < OperationLeft[3]
  BY <1>1, <1>2, <1>5, <1>10 DEF OperationLeft, Idle
<1>13. \A i \in 1..2 : OperationLeft'[i] = OperationLeft[i]
  BY <1>11, <1>12
<1> QED BY <1>12, <1>13, LowerIs

\* A construction that is done leaves fewer in progress.
LEMMA FinishLowers ==
    ASSUME InjectorInv, Finish, outcome' = "running", outcome' = "running" => frames' # <<>>,
           OperationLeft \in Tuples(4), OperationLeft' \in Tuples(4)
    PROVE  Lower(OperationLeft', OperationLeft, 4)
<1>1. /\ frames # <<>> /\ UNCHANGED <<providers, counter>> /\ Current.kind = "provide"
      /\ frames' = [SubSeq(frames, 1, Len(frames) - 1) EXCEPT ![Len(frames) - 1].next = @ + 1]
  BY DEF Finish, Ready, Idle
<1>2. PICK n \in Nat \ {0} : n = Len(frames) /\ frames \in Seq(InjectorFrame)
  BY <1>1, CurrentFrame
<1>3. Len(frames') = n - 1
  <2> DEFINE r == SubSeq(frames, 1, n - 1)
  <2>1. r \in Seq(InjectorFrame) /\ Len(r) = n - 1
    BY <1>2
  <2>2. frames' = [r EXCEPT ![n - 1].next = @ + 1]
    BY <1>1, <1>2
  <2> HIDE DEF r
  <2> QED BY <2>1, <2>2
<1>4. OperationLeft'[1] = OperationLeft[1]
  BY <1>1, AllowanceStays
<1>5. OperationLeft'[2] < OperationLeft[2]
  BY <1>2, <1>3 DEF OperationLeft
<1>6. \A i \in 1..1 : OperationLeft'[i] = OperationLeft[i]
  BY <1>4
<1> QED BY <1>5, <1>6, LowerIs

\* get() comes to an end, whatever depends on what, in circles, too, and whatever failed
\* before: each step of it that does not end it lowers what is left.
ConstructingDescends ==
    [][InjectorStep => outcome' # "running" \/ Lower(OperationLeft', OperationLeft, 4)]_vars

\* Constructing descends in every application, of whatever operation.
THEOREM ConstructingIsNotEndless == Spec => ConstructingDescends
<1>1. ASSUME LoadInv, LoadInv', FinitePlans, FinitePlans', [Next]_vars
      PROVE  [InjectorStep => outcome' # "running" \/ Lower(OperationLeft', OperationLeft, 4)]_vars
  <2> SUFFICES ASSUME InjectorStep, outcome' = "running"
               PROVE  Lower(OperationLeft', OperationLeft, 4)
    OBVIOUS
  <2>1. InjectorInv /\ InjectorInv'
    BY <1>1 DEF LoadInv
  <2>2. OperationLeft \in Tuples(4) /\ OperationLeft' \in Tuples(4)
    BY <1>1, <2>1, OperationLeftIsTuple, OperationLeftStaysTuple
  <2>3. CASE Found
    BY <2>1, <2>2, <2>3, FindingLowers
  <2>4. CASE Construct
    BY <2>1, <2>2, <2>4, ConstructingUses
  <2>5. CASE NextFactory
    BY <1>1, <2>1, <2>2, <2>5, NextFactoryLowers
  <2>6. CASE Finish
    <3>1. frames' # <<>>
      BY <2>1 DEF InjectorInv, InjectorTypeOK
    <3> QED BY <2>1, <2>2, <2>6, <3>1, FinishLowers
  <2>7. CASE NotProvided \/ FactoryThrows
    BY <2>7 DEF NotProvided, FactoryThrows, Fail
  <2> QED BY <2>3, <2>4, <2>5, <2>6, <2>7 DEF InjectorStep
<1>2. Init => LoadInv /\ FinitePlans
  <2>1. Init => FinitePlans
    BY DEF Init, InjectorInit, FinitePlans, Provided
  <2> QED BY <2>1, LoadInvInit
<1> QED BY <1>1, <1>2, LoadInvStep, FinitePlansStep, PTL DEF Spec, ConstructingDescends
=============================================================================
