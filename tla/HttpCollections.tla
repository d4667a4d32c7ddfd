--------------------------- MODULE HttpCollections ---------------------------
(***************************************************************************)
(* HttpHeaders and HttpParams of @alterior/http.  append(), set() and      *)
(* delete() answer with a new object that remembers the object to copy and *)
(* the updates to make; they are made when the object is first read.  The  *)
(* copy takes over the arrays of values themselves, so the model has a     *)
(* heap of arrays.  A behaviour follows one object of one of the classes   *)
(* and everything derived from it; names are lower case, and the order of  *)
(* the names is abstracted.                                                *)
(***************************************************************************)
EXTENDS Naturals, Sequences, SequencesExt, FiniteSets

CONSTANTS Names, Values,
          Within,       \* Within[v]: the values whose text occurs in the text of v
          Classes,      \* which of the two classes are followed
          MaxObjects,   \* bound: objects made, the first one included
          MaxUpdates    \* bound: different updates asked for

ASSUME HttpAssumption == /\ Within \in [Values -> SUBSET Values]
                         /\ \A v \in Values : v \in Within[v]
                         /\ Classes \subseteq {"HttpHeaders", "HttpParams"}
                         /\ MaxObjects \in Nat \ {0} /\ MaxUpdates \in Nat

VARIABLES class,
          objects,    \* by age: `map` from names to arrays, the object to copy (`from`, 0: none), its `updates`
          arrays,     \* the heap: what each array of values holds
          meant,      \* history: what each object would hold had it been copied when it was made
          asked       \* history: the updates asked for

collectionVars == <<class, objects, arrays, meant, asked>>

\* The updates the class has a method for: append(), set() and delete(), where no
\* value to delete stands for all of them.
UpdatesOf(c) ==
    LET lists == {<<v>> : v \in Values} \cup (IF c = "HttpHeaders" THEN {<<>>} ELSE {})
    IN  [op : {"append", "set"}, name : Names, values : lists]
        \cup [op : {"delete"}, name : Names, values : {<<v>> : v \in Values} \cup {<<>>}]

Pending(i) == objects[i].from # 0

\* What a reader of object i, once it is initialised, finds.
Shown(i) == [n \in DOMAIN objects[i].map |-> arrays[objects[i].map[n]]]

-----------------------------------------------------------------------------
\* Map.set(): f with x under that name.
With(f, name, x) == [n \in DOMAIN f \cup {name} |-> IF n = name THEN x ELSE f[n]]

\* Updates on a map from names to arrays, in a heap.
State(map, heap) == [map |-> map, heap |-> heap]

PushOnto(s, name, values) == [s EXCEPT !.heap[s.map[name]] = @ \o values]

SetFresh(s, name, values) ==
    State(With(s.map, name, Len(s.heap) + 1), Append(s.heap, values))

\* Mutant: the array is emptied too.
DropClearing(s, name) ==
    [map  |-> Restrict(s.map, DOMAIN s.map \ {name}),
     heap |-> IF name \in DOMAIN s.map THEN [s.heap EXCEPT ![s.map[name]] = <<>>] ELSE s.heap]

Drop(s, name) == [s EXCEPT !.map = Restrict(@, DOMAIN @ \ {name})]

AppendOrSet(s, u) ==
    IF u.op = "append" /\ u.name \in DOMAIN s.map
    THEN PushOnto(s, u.name, u.values)
    ELSE SetFresh(s, u.name, u.values)

\* filter(): the values whose text does not occur in that of v.
Without(v, values) ==
    LET Kept[k \in 0..Len(values)] ==
            IF k = 0 THEN <<>>
            ELSE IF values[k] \in Within[v] THEN Kept[k - 1] ELSE Append(Kept[k - 1], values[k])
    IN  Kept[Len(values)]

ApplyToHeaders(s, u) ==
    IF u.op # "delete"
    THEN IF u.values = <<>> THEN s ELSE AppendOrSet(s, u)
    ELSE IF u.values = <<>> THEN Drop(s, u.name)
    ELSE IF u.name \notin DOMAIN s.map THEN s
    ELSE LET kept == Without(u.values[1], s.heap[s.map[u.name]])
         IN  IF kept = <<>> THEN Drop(s, u.name) ELSE SetFresh(s, u.name, kept)

ApplyToParams(s, u) ==
    IF u.op # "delete" THEN AppendOrSet(s, u)
    ELSE IF u.values = <<>> \/ u.name \notin DOMAIN s.map THEN Drop(s, u.name)
    ELSE LET spliced == [s EXCEPT !.heap[s.map[u.name]] = RemoveFirst(@, u.values[1])]
         IN  IF spliced.heap[s.map[u.name]] = <<>> THEN Drop(spliced, u.name) ELSE spliced

Apply(s, u) == IF class = "HttpHeaders" THEN ApplyToHeaders(s, u) ELSE ApplyToParams(s, u)

\* All updates, one after the other.
Updated(s, updates) ==
    LET Made[k \in 0..Len(updates)] == IF k = 0 THEN s ELSE Apply(Made[k - 1], updates[k])
    IN  Made[Len(updates)]

\* The same update, in class c, on a map from names to lists of values that nothing else shares.
Meaning(c, u, view) ==
    LET old == IF u.name \in DOMAIN view THEN view[u.name] ELSE <<>>
        left == IF c = "HttpHeaders"
                THEN Without(u.values[1], old)
                ELSE RemoveFirst(old, u.values[1])
        new == IF u.op = "append" THEN old \o u.values
               ELSE IF u.op = "set" THEN IF u.values = <<>> THEN old ELSE u.values
               ELSE IF u.values = <<>> THEN <<>> ELSE left
    IN  IF new = <<>> THEN Restrict(view, DOMAIN view \ {u.name}) ELSE With(view, u.name, new)

-----------------------------------------------------------------------------
\* The first object, made from what its constructor is given.
CollectionInit ==
    /\ class \in Classes
    /\ \E given \in UNION {[S -> {<<v>> : v \in Values}] : S \in {T \in SUBSET Names : IsFiniteSet(T)}} :
           LET names == SetToSeq(DOMAIN given)
               map == [n \in DOMAIN given |-> CHOOSE k \in DOMAIN names : names[k] = n]
           IN  /\ objects = <<[map |-> map, from |-> 0, updates |-> <<>>]>>
               /\ arrays = [k \in DOMAIN names |-> given[names[k]]]
               /\ meant = <<given>>
    /\ asked = {}

\* Mutant: only the update of the last call is remembered.
CloneForgetting(i, u) ==
    /\ Len(objects) < MaxObjects
    /\ u \in UpdatesOf(class)
    /\ objects' = Append(objects, [map     |-> <<>>,
                                   from    |-> IF Pending(i) THEN objects[i].from ELSE i,
                                   updates |-> <<u>>])
    /\ meant' = Append(meant, Meaning(class, u, meant[i]))
    /\ asked' = asked \cup {u} /\ Cardinality(asked') <= MaxUpdates
    /\ UNCHANGED <<class, arrays>>

\* append(), set() or delete() of object i: copy what i itself still has to copy, or
\* else i, and make i's updates and then this one.
Clone(i, u) ==
    /\ Len(objects) < MaxObjects
    /\ u \in UpdatesOf(class)
    /\ objects' = Append(objects, [map     |-> <<>>,
                                   from    |-> IF Pending(i) THEN objects[i].from ELSE i,
                                   updates |-> Append(objects[i].updates, u)])
    /\ meant' = Append(meant, Meaning(class, u, meant[i]))
    /\ asked' = asked \cup {u} /\ Cardinality(asked') <= MaxUpdates
    /\ UNCHANGED <<class, arrays>>

\* The updates an object remembers once it has made them: HttpParams keeps them.
Remembered(i) == IF class = "HttpHeaders" THEN <<>> ELSE objects[i].updates

\* The first read of object i: get(), getAll(), has(), keys(), toString() or forEach().
\* The object to copy has been initialised, or was never pending.
Initialise(i) ==
    /\ Pending(i)
    /\ LET s == Updated(State(objects[objects[i].from].map, arrays), objects[i].updates)
       IN  /\ objects' = [objects EXCEPT ![i] = [map |-> s.map, from |-> 0, updates |-> Remembered(i)]]
           /\ arrays' = s.heap
    /\ UNCHANGED <<class, meant, asked>>

CollectionNext ==
    \E i \in DOMAIN objects : \/ \E u \in UpdatesOf(class) : Clone(i, u)
                             \/ Initialise(i)

CollectionSpec == CollectionInit /\ [][CollectionNext]_collectionVars

-----------------------------------------------------------------------------
\* The updates that change an array where it is: append() pushes onto the values there
\* are, and delete() of one value splices them in HttpParams.
InPlace(u) == \/ u.op = "append"
              \/ class = "HttpParams" /\ u.op = "delete" /\ u.values # <<>>

\* A chain of calls that is read only at its end, the way requests are built, is made
\* of all its updates in their order: the first of the derived objects to be read
\* holds what it was made to hold, append() included.
FirstReadIsRight ==
    [][\A i \in DOMAIN objects :
           /\ Pending(i) /\ objects'[i].from = 0
           /\ \A j \in 2..Len(objects) : Pending(j)
           => Shown(i)' = meant[i]]_collectionVars

\* What an object that was read shows under a name changes only when another object of
\* its family is read which has an update in place to make to that very name, and
\* which copies an object holding it.
OnlyUpdatesInPlaceDisturb ==
    [][\A i \in DOMAIN objects : \A n \in DOMAIN objects[i].map :
           Shown(i)'[n] # Shown(i)[n]
           => \E j \in DOMAIN objects :
                  /\ Pending(j) /\ objects'[j].from = 0
                  /\ n \in DOMAIN objects[objects[j].from].map
                  /\ \E k \in DOMAIN objects[j].updates :
                         /\ objects[j].updates[k].name = n
                         /\ InPlace(objects[j].updates[k])]_collectionVars
=============================================================================
