---------------------------- MODULE Annotations ----------------------------
(***************************************************************************)
(* packages/annotations: where decorators keep what they attach to classes,*)
(* methods, properties and parameters, and what is read of it again.       *)
(*                                                                         *)
(* Classes are declared one after the other and numbered in that order; a  *)
(* class may extend an earlier one.  A list of annotations belongs to the  *)
(* class it was created for, and exists from its first annotation on, so   *)
(* that an empty list stands for none.                                     *)
(***************************************************************************)
EXTENDS Naturals, Sequences, FiniteSetsExt, SequencesExt

CONSTANTS
  Methods,     \* names of methods and properties
  Positions    \* positions of parameters

VARIABLES
  base,                    \* the class each class extends, 0 where it extends none
  classAnnotations,        \* of each class
  memberAnnotations,       \* of each class: by method or property
  parameterAnnotations,    \* of each class: by method and position
  constructorParameters    \* of each class: annotations with the position they are for

annotationVars ==
  <<base, classAnnotations, memberAnnotations, parameterAnnotations, constructorParameters>>

Classes == DOMAIN base

\* The prototype chain of a class, from its root.
Lineage(c) ==
  LET Chain[d \in 0..Len(base)] == IF d = 0 THEN <<>> ELSE Append(Chain[base[d]], d)
  IN  Chain[c]

AnnotationsInit ==
  /\ base = <<>>
  /\ classAnnotations = <<>>
  /\ memberAnnotations = <<>>
  /\ parameterAnnotations = <<>>
  /\ constructorParameters = <<>>

\* A class statement begins: nothing is attached to the class itself yet.
DeclareClass(b) ==
  /\ base' = Append(base, b)
  /\ classAnnotations' = Append(classAnnotations, <<>>)
  /\ memberAnnotations' = Append(memberAnnotations, [m \in Methods |-> <<>>])
  /\ parameterAnnotations' = Append(parameterAnnotations, [p \in Methods \X Positions |-> <<>>])
  /\ constructorParameters' = Append(constructorParameters, <<>>)

-----------------------------------------------------------------------------
(* Reading. *)

\* The own lists along the chain, that of the root first.
Combined(ListOf(_), c) ==
  LET line == Lineage(c) IN FlattenSeq([i \in DOMAIN line |-> ListOf(line[i])])

ListForClass(c) == Combined(LAMBDA d : classAnnotations[d], c)

ListForMethod(c, m) == Combined(LAMBDA d : memberAnnotations[d][m], c)

ListForMethodParameter(c, m, i) ==
  Combined(LAMBDA d : parameterAnnotations[d][<<m, i>>], c)

\* A list read as a property of the class is that of the nearest class that has one.
Holder(lists, c) ==
  LET line   == Lineage(c)
      having == {i \in DOMAIN line : lists[line[i]] # <<>>}
  IN  IF having = {} THEN c ELSE line[Max(having)]

ListForConstructorParameters(c) == constructorParameters[Holder(constructorParameters, c)]

\* getForClass(): the first annotation of that name, which is that of the root.
ForClass(name, c) ==
  LET list  == ListForClass(c)
      named == {i \in DOMAIN list : list[i].name = name}
  IN  IF named = {} THEN <<>> ELSE <<list[Min(named)]>>

-----------------------------------------------------------------------------
(* Applying. *)

ApplyToClass(c, a) ==
  /\ classAnnotations' = [classAnnotations EXCEPT ![c] = Append(@, a)]
  /\ UNCHANGED <<base, memberAnnotations, parameterAnnotations, constructorParameters>>

ApplyToMethod(c, m, a) ==
  /\ memberAnnotations' = [memberAnnotations EXCEPT ![c][m] = Append(@, a)]
  /\ UNCHANGED <<base, classAnnotations, parameterAnnotations, constructorParameters>>

ApplyToParameter(c, m, i, a) ==
  /\ parameterAnnotations' = [parameterAnnotations EXCEPT ![c][<<m, i>>] = Append(@, a)]
  /\ UNCHANGED <<base, classAnnotations, memberAnnotations, constructorParameters>>

\* The array is the one the class inherits, where there is one.
ApplyToConstructorParameter(c, i, a) ==
  /\ constructorParameters' = [constructorParameters EXCEPT
       ![Holder(constructorParameters, c)] = Append(@, [position |-> i, annotation |-> a])]
  /\ UNCHANGED <<base, classAnnotations, memberAnnotations, parameterAnnotations>>

-----------------------------------------------------------------------------
(* makeDecorator().  A decorator is a record of the name of its annotation, its       *)
(* targets, and whether an element may have several.                                  *)

Once(decorator, existing) ==
  decorator.multiple \/ \A i \in DOMAIN existing : existing[i].name # decorator.name

AcceptsClass(decorator, c) ==
  "class" \in decorator.targets /\ Once(decorator, ListForClass(c))

AcceptsMethod(decorator, c, m) ==
  "method" \in decorator.targets /\ Once(decorator, ListForMethod(c, m))

AcceptsParameter(decorator, c, m, i) ==
  "parameter" \in decorator.targets /\ Once(decorator, ListForMethodParameter(c, m, i))

\* Of a constructor the parameters of the method without a name are looked up: none.
AcceptsConstructorParameter(decorator) == "parameter" \in decorator.targets

=============================================================================
