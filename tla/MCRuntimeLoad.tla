---------------------------- MODULE MCRuntimeLoad ----------------------------
(***************************************************************************)
(* The instance of RuntimeLoad that TLC checks: an application of four     *)
(* modules.  `configured` configures base, and keeps its imports in the    *)
(* array that `feature` keeps its own in.                                  *)
(***************************************************************************)
EXTENDS RuntimeLoad, TLC

CONSTANTS app, base, configured, feature, svc, dep

FourModules == {app, base, configured, feature}
TwoServices == {svc, dep}
AllKeys == FourModules \cup TwoServices

ConfiguresBase == [m \in FourModules |-> IF m = configured THEN base ELSE None]
ArrayNames == {"top", "own", "shared"}
SharedArray == [m \in FourModules |->
    IF m = app THEN "top" ELSE IF m = base THEN "own" ELSE "shared"]

Lists(n, S) == UNION {[1..l -> S] : l \in 0..n}
SmallGraphs ==
    {("top" :> t) @@ ("own" :> o) @@ ("shared" :> s) :
        t \in [1..2 -> {base, configured, feature}],
        o \in Lists(1, {app, configured, feature, Missing}),
        s \in Lists(1, FourModules \cup {Missing}) \cup [1..2 -> {app, base, configured}]}

Needs(k) == Request(k, FALSE, "any")
MayUse(k) == Request(k, TRUE, "any")

Nothing == [s \in TwoServices |-> NoProvider]
Gives(s, needs) == [Nothing EXCEPT ![s] = needs]

\* What some modules provide and depend on; the others do neither.
Wiring(provides, needs) ==
    [provides |-> [m \in FourModules |-> IF m \in DOMAIN provides THEN provides[m] ELSE Nothing],
     needs |-> [m \in FourModules |-> IF m \in DOMAIN needs THEN needs[m] ELSE <<>>]]

Overriding == Wiring((base :> Gives(svc, <<>>)) @@ (feature :> Gives(svc, <<>>))
                       @@ (configured :> Gives(svc, <<MayUse(dep)>>)),
                     (app :> <<Needs(svc), Request(base, TRUE, "self")>>) @@ (base :> <<Needs(svc)>>))
CyclicServices == Wiring((app :> Gives(dep, <<MayUse(svc)>>)) @@ (base :> Gives(svc, <<Needs(dep)>>)),
                         base :> <<MayUse(svc)>>)
CyclicModules == Wiring((base :> Gives(svc, <<>>)) @@ (feature :> Gives(svc, <<>>)),
                        (app :> <<Needs(base)>>) @@ (base :> <<Needs(svc), Needs(app)>>))
Collecting == Wiring((app :> Gives(dep, <<Request(svc, FALSE, "self")>>))
                       @@ (base :> Gives(dep, <<>>)) @@ (configured :> Gives(svc, <<>>)),
                     (app :> <<Needs(dep)>>) @@ (base :> <<Request(dep, FALSE, "parent")>>))

FourWirings == {Overriding, CyclicServices, CyclicModules, Collecting}
DepIsMulti == {dep}
=============================================================================
