---------------------------- MODULE MCWebService ----------------------------
(* Instances of WebService for TLC. *)
EXTENDS WebService

Parameter(name, type) == [name |-> name, type |-> type]

MCSignatures ==
  {<<>>, <<Parameter("id", "Number")>>,
   <<Parameter("id", "Array")>>, <<Parameter("when", "Date")>>, <<Parameter("event", "WebEvent")>>,
   <<Parameter("body", "String")>>, <<Parameter("body", "Buffer")>>}

MCLaterSignatures == {<<>>, <<Parameter("id", "Number")>>, <<Parameter("body", "String")>>}

MCInputs ==
  {QueryParam(NotGiven, Undefined), QueryParam("q", Default), QueryParams,
   PathParam("id"), Body(NotGiven), Body("json")}

MCRoutePaths == {<<>>, <<":id">>}
MCMountPaths == {<<"a">>}
MCBasePaths == {<<"a">>}

\* Queries and bodies are varied where the first class answers.
MCRequests ==
  [path : {<<>>, <<"a">>, <<"7">>, <<"a", "a">>, <<"a", "7">>, <<"a", "a", "7">>},
   query : {Undefined}, sent : {""}]
    \union [path : {<<"7">>}, query : {Text(t) : t \in Texts} \union {Undefined, Twice}, sent : {""}]
    \union [path : {<<"7">>}, query : {Undefined}, sent : Texts]

FieldSymmetry == Permutations(Fields)

=============================================================================
