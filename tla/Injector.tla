------------------------------- MODULE Injector -------------------------------
(***************************************************************************)
(* ReflectiveInjector of @alterior/di: injectors in a line, each with its  *)
(* providers.  get() looks a key up from an injector towards its ancestors *)
(* and constructs the object where the key is provided, after the objects  *)
(* it depends on, which are looked up from there.  A counter per injector  *)
(* stands in for the detection of cycles.                                  *)
(***************************************************************************)
EXTENDS Naturals, Sequences, FiniteSets

CONSTANTS Keys,
          Depth,       \* injectors are 1..Depth, the parent of i is i - 1
          MaxGets,     \* bound: operations the application asks for
          NoProvider

ASSUME InjectorAssumption == Depth \in Nat \ {0} /\ MaxGets \in Nat /\ IsFiniteSet(Keys)

Injectors == 1..Depth

\* A token asked for: @Self(), @SkipSelf() or neither say where it is looked up.
Dependency == [key : Keys, optional : BOOLEAN, from : {"any", "self", "parent"}]
Request(k, optional, from) == [key |-> k, optional |-> optional, from |-> from]

\* A provider: its factories by number, one or, for a multi provider, several, each
\* with what it depends on.
IsProvider(p) ==
    /\ DOMAIN p \subseteq Nat \ {0}
    /\ \A f \in DOMAIN p : p[f] \in Seq(Dependency)

VARIABLES providers,   \* the resolved providers of each injector
          built,       \* objs: the keys whose object an injector holds
          counter,     \* _constructionCounter
          frames,      \* what is in progress: get() or a construction, innermost last
          outcome,     \* how the operation in progress, or the last one, ended
          gets,        \* history: operations asked for
          failed,      \* history: an operation has failed
          makings      \* history: how often an object was made and kept

injectorVars == <<providers, built, counter, frames, outcome, gets, failed, makings>>

\* Either get(), or a construction for instantiateResolved() or for an object that is
\* kept; with the factory that runs and the position of the dependency it is at.
InjectorFrame == [kind : {"get", "instantiate", "provide"}, injector : Injectors,
                  asked : Dependency, factory : Nat, next : Nat \ {0}]

Outcomes == {"none", "running", "value", "noProvider", "cyclic", "instantiation"}

Provided(i) == {k \in Keys : providers[i][k] # NoProvider}

InjectorTypeOK ==
    /\ DOMAIN providers = Injectors /\ \A i \in Injectors : DOMAIN providers[i] = Keys
    /\ \A i \in Injectors : \A k \in Provided(i) : IsProvider(providers[i][k])
    /\ built \in [Injectors -> SUBSET Keys]
    /\ counter \in [Injectors -> Nat]
    /\ frames \in Seq(InjectorFrame)
    /\ outcome \in Outcomes
    /\ outcome = "running" <=> frames # <<>>
    /\ gets \in 0..MaxGets
    /\ failed \in BOOLEAN
    /\ makings \in [Injectors -> [Keys -> Nat]]

InjectorInit ==
    /\ providers = [i \in Injectors |-> [k \in Keys |-> NoProvider]]
    /\ built = [i \in Injectors |-> {}]
    /\ counter = [i \in Injectors |-> 0]
    /\ frames = <<>>
    /\ outcome = "none"
    /\ gets = 0
    /\ failed = FALSE
    /\ makings = [i \in Injectors |-> [k \in Keys |-> 0]]

\* _getByKeySelf() and _getByKeyDefault(): the injectors that could answer, and the
\* one that does, which is the nearest.
Candidates(i, dep) ==
    {j \in 1..(IF dep.from = "parent" THEN i - 1 ELSE i) :
        dep.key \in Provided(j) /\ (dep.from = "self" => j = i)}
Holders(i, dep) == {j \in Candidates(i, dep) : \A h \in Candidates(i, dep) : h <= j}

Idle == frames = <<>>

Frame0(kind, i, dep) ==
    [kind |-> kind, injector |-> i, asked |-> dep, factory |-> 0, next |-> 1]

Begin(kind, i, dep) ==
    /\ Idle /\ gets < MaxGets
    /\ gets' = gets + 1
    /\ frames' = <<Frame0(kind, i, dep)>>
    /\ outcome' = "running"
    /\ UNCHANGED <<providers, built, counter, failed, makings>>

\* get(), with or without a value for the case that there is no provider.
Get(i, dep) == Begin("get", i, dep)

\* instantiateResolved(): the object is not kept.
Instantiate(i, k) == k \in Provided(i) /\ Begin("instantiate", i, Request(k, FALSE, "self"))

\* get() asks for one thing, a construction for what the factories depend on.
Plan(f) == IF f.kind = "get" THEN <<<<f.asked>>>> ELSE providers[f.injector][f.asked.key]
DependenciesOf(f) == IF f.factory = 0 THEN <<>> ELSE Plan(f)[f.factory]

Current == frames[Len(frames)]
Wanting == ~Idle /\ Current.next <= Len(DependenciesOf(Current))
Wanted == DependenciesOf(Current)[Current.next]
Answering == Holders(Current.injector, Wanted)

NextDependency == [frames EXCEPT ![Len(frames)].next = @ + 1]

\* Any error leaves everything in progress.
Fail(error) == frames' = <<>> /\ outcome' = error

\* Variant: what nobody provides is null, asked for as optional or not.
FoundOrNull ==
    /\ Wanting
    /\ \A at \in Answering : Wanted.key \in built[at]
    /\ frames' = NextDependency
    /\ UNCHANGED <<providers, built, counter, outcome, gets, failed, makings>>

\* The object exists, or there is none and the dependency is optional.
Found ==
    /\ Wanting
    /\ Answering = {} => Wanted.optional
    /\ \A at \in Answering : Wanted.key \in built[at]
    /\ frames' = NextDependency
    /\ UNCHANGED <<providers, built, counter, outcome, gets, failed, makings>>

NotProvided ==
    /\ Wanting /\ Answering = {} /\ ~Wanted.optional
    /\ Fail("noProvider")
    /\ failed' = TRUE
    /\ UNCHANGED <<providers, built, counter, gets, makings>>

\* _new() for the wanted object: counted, and refused if there have been too many.
New(at, limit) ==
    /\ counter' = [counter EXCEPT ![at] = @ + 1]
    /\ IF counter[at] > limit
       THEN Fail("cyclic")
       ELSE frames' = Append(frames, Frame0("provide", at, Wanted)) /\ UNCHANGED outcome
    /\ UNCHANGED <<providers, built, gets, failed, makings>>

\* Variant: the check counts the objects that exist.
ConstructCountingBuilt ==
    /\ Wanting
    /\ \E at \in Answering : Wanted.key \notin built[at] /\ New(at, Cardinality(built[at]))

Construct ==
    /\ Wanting
    /\ \E at \in Answering : Wanted.key \notin built[at] /\ New(at, Cardinality(Provided(at)))

Ready == ~Idle /\ Current.next > Len(DependenciesOf(Current))
Remaining == {f \in DOMAIN Plan(Current) : f > Current.factory}

\* The factories of a provider are run in order, each after what it depends on.
NextFactory ==
    /\ Ready
    /\ \E n \in Remaining :
          /\ \A f \in Remaining : n <= f
          /\ frames' = [frames EXCEPT ![Len(frames)].factory = n, ![Len(frames)].next = 1]
    /\ UNCHANGED <<providers, built, counter, outcome, gets, failed, makings>>

\* The last factory has run: the object is kept, and whoever asked for it goes on.
Finish ==
    /\ Ready /\ Remaining = {}
    /\ IF Current.kind = "provide"
       THEN /\ built' = [built EXCEPT ![Current.injector] = @ \cup {Current.asked.key}]
            /\ makings' = [makings EXCEPT ![Current.injector][Current.asked.key] = @ + 1]
            /\ frames' = [SubSeq(frames, 1, Len(frames) - 1)
                             EXCEPT ![Len(frames) - 1].next = @ + 1]
            /\ UNCHANGED outcome
       ELSE frames' = <<>> /\ outcome' = "value" /\ UNCHANGED <<built, makings>>
    /\ UNCHANGED <<providers, counter, gets, failed>>

FactoryThrows ==
    /\ Ready /\ Current.kind # "get" /\ Current.factory # 0
    /\ Fail("instantiation")
    /\ failed' = TRUE
    /\ UNCHANGED <<providers, built, counter, gets, makings>>

InjectorStep == Found \/ NotProvided \/ Construct \/ NextFactory \/ Finish \/ FactoryThrows
-----------------------------------------------------------------------------
(***************************************************************************)
(* Properties                                                              *)
(***************************************************************************)
\* Every injector makes the object of a key at most once, whatever was looked up,
\* failed and was looked up again.
MadeOnce == \A i \in Injectors, k \in Keys : makings[i][k] <= 1

\* An object exists only if everything it depends on does; a cycle yields none.
Satisfied(i, dep) ==
    /\ Holders(i, dep) = {} => dep.optional
    /\ \A at \in Holders(i, dep) : dep.key \in built[at]
SatisfiedFactory(i, k, f) ==
    \A d \in DOMAIN providers[i][k][f] : Satisfied(i, providers[i][k][f][d])
BuiltOnDependencies ==
    \A i \in Injectors : \A k \in built[i] :
        \A f \in DOMAIN providers[i][k] : SatisfiedFactory(i, k, f)

\* The dependencies among provided keys, as a relation on places <<injector, key>>.
Places == {p \in Injectors \X Keys : p[2] \in Provided(p[1])}
DependsOn(p) ==
    LET plan == providers[p[1]][p[2]]
        deps == UNION {{plan[f][d] : d \in DOMAIN plan[f]} : f \in DOMAIN plan}
    IN UNION {Holders(p[1], dep) \X {dep.key} : dep \in deps}
Cyclic == \E S \in SUBSET Places : S # {} /\ \A p \in S : DependsOn(p) \cap S # {}

\* The error is, as its comment has it, "thrown when dependencies form a cycle".
CyclicErrorMeansCycle == outcome = "cyclic" => Cyclic

\* That much is so as long as no operation has failed before.
FirstCyclicErrorMeansCycle == ~failed => CyclicErrorMeansCycle
=============================================================================
