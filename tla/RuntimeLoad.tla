----------------------------- MODULE RuntimeLoad -----------------------------
(***************************************************************************)
(* How an application comes by its objects: the modules are resolved, the  *)
(* providers they contribute make the primary injector, and Runtime.load() *)
(* makes a child of it that provides the modules themselves and constructs *)
(* each of them in the order of the list.  Afterwards the application asks *)
(* either injector for objects.                                            *)
(***************************************************************************)
EXTENDS ModuleGraph, Injector

CONSTANTS Services,
          MultiServices,  \* services with multi providers
          Wirings         \* what modules contribute and depend on

ASSUME WiringAssumption ==
    /\ Keys = Modules \cup Services /\ MultiServices \subseteq Services
    /\ Depth = 2 /\ Entry \notin Services
    /\ \A w \in Wirings :
          /\ w.provides \in [Modules -> [Services -> Seq(Dependency) \cup {NoProvider}]]
          /\ w.needs \in [Modules -> Seq(Dependency)]

VARIABLES wiring,
          loading,    \* "waiting", "loading", "loaded" or "failed"
          instances   \* how many of the listed modules load() has got

vars == <<graphVars, injectorVars, wiring, loading, instances>>

Primary == 1
Own == 2

TypeOK ==
    /\ GraphTypeOK /\ InjectorTypeOK
    /\ wiring \in Wirings
    /\ loading \in {"waiting", "loading", "loaded", "failed"}
    /\ instances \in 0..Len(definitions)

Init == /\ GraphInit /\ InjectorInit
        /\ wiring \in Wirings
        /\ loading = "waiting"
        /\ instances = 0

Resolve == ResolveStep /\ UNCHANGED <<injectorVars, wiring, loading, instances>>

\* The places in the list of the modules that contribute a provider of a service.
Contributors(s) ==
    {i \in DOMAIN definitions : wiring.provides[definitions[i]][s] # NoProvider}

\* Variant: the first provider of a key wins.
EffectiveFirst(s) ==
    IF s \in MultiServices THEN Contributors(s)
    ELSE {i \in Contributors(s) : \A j \in Contributors(s) : i <= j}

\* mergeResolvedReflectiveProviders(): a later provider replaces an earlier one of its
\* key; the factories of multi providers are collected.
Effective(s) ==
    IF s \in MultiServices THEN Contributors(s)
    ELSE {i \in Contributors(s) : \A j \in Contributors(s) : j <= i}

Merged(s) ==
    IF Contributors(s) = {} THEN NoProvider
    ELSE [i \in Effective(s) |-> wiring.provides[definitions[i]][s]]

PrimaryProviders == [k \in Keys |-> IF k \in Services THEN Merged(k) ELSE NoProvider]
OwnProviders == [k \in Keys |-> IF k \in Listed THEN <<wiring.needs[k]>> ELSE NoProvider]

\* bootstrap() makes the primary injector, and load() the one of the modules.
Load ==
    /\ resolution = "resolved" /\ loading = "waiting"
    /\ providers' = [i \in Injectors |-> IF i = Primary THEN PrimaryProviders ELSE OwnProviders]
    /\ loading' = "loading"
    /\ UNCHANGED <<graphVars, built, counter, frames, outcome, gets, failed, makings,
                   wiring, instances>>

\* load() after it has thrown: a new injector for the modules, under the same parent.
LoadAgain ==
    /\ loading = "failed"
    /\ built' = [built EXCEPT ![Own] = {}]
    /\ counter' = [counter EXCEPT ![Own] = 0]
    /\ makings' = [makings EXCEPT ![Own] = [k \in Keys |-> 0]]
    /\ instances' = 0 /\ loading' = "loading" /\ outcome' = "none"
    /\ UNCHANGED <<graphVars, providers, frames, gets, failed, wiring>>

GetModule ==
    /\ loading = "loading" /\ Idle /\ outcome \in {"none", "value"}
    /\ instances < Len(definitions)
    /\ Get(Own, Request(definitions[instances + 1], FALSE, "any"))
    /\ instances' = instances + 1
    /\ UNCHANGED <<graphVars, wiring, loading>>

LoadEnds ==
    /\ loading = "loading" /\ Idle
    /\ \/ instances = Len(definitions) /\ outcome \in {"none", "value"} /\ loading' = "loaded"
       \/ outcome \notin {"none", "value"} /\ loading' = "failed"
    /\ UNCHANGED <<graphVars, injectorVars, wiring, instances>>

\* The application uses the injectors.
Use ==
    /\ loading = "loaded"
    /\ \E i \in Injectors, k \in Keys :
          \/ Get(i, Request(k, FALSE, "any"))
          \/ Get(i, Request(k, TRUE, "self"))
          \/ Instantiate(i, k)
    /\ UNCHANGED <<graphVars, wiring, loading, instances>>

Constructing == InjectorStep /\ UNCHANGED <<graphVars, wiring, loading, instances>>

Next == Resolve \/ Load \/ LoadAgain \/ GetModule \/ LoadEnds \/ Use \/ Constructing

\* All of this is synchronous code, which runs on.
Fairness == WF_vars(Resolve) /\ WF_vars(Constructing)

Spec == Init /\ [][Next]_vars /\ Fairness
-----------------------------------------------------------------------------
(***************************************************************************)
(* Properties                                                              *)
(***************************************************************************)
\* A module's provider is not overridden by one of a module it imports, unless that
\* imports it in turn, nor, if the module is on no circle of imports, by one of a module
\* its imports lead to.  (On a circle the latter may happen, and what somebody adds to a
\* shared array is no import of the modules that were listed before.)
HasLastWord(m, n) ==
    \/ n \in OwnImports(m) /\ ~Reaches(n, m)
    \/ n # m /\ LeadsTo(m, n) /\ ~OnCircle(m)
ImportersOverride ==
    \A m, n \in Listed, s \in Services \ MultiServices :
        /\ loading # "waiting" /\ NoProvider \notin {wiring.provides[m][s], wiring.provides[n][s]}
        /\ HasLastWord(m, n)
        => \A f \in DOMAIN providers[Primary][s] : definitions[f] # n

\* Resolving ends, also when modules import each other, and so does every get(), also
\* when dependencies form a cycle.
WorkEnds == /\ resolution = "running" ~> resolution \in {"resolved", "failed"}
            /\ outcome = "running" ~> outcome # "running"
=============================================================================
