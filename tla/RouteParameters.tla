-------------------------- MODULE RouteParameters --------------------------
(***************************************************************************)
(* How the parameters of a route method get their values: @QueryParam(),   *)
(* @PathParam(), @Body() and their kin (input.ts), the rules for parameters*)
(* without them, and the conversion to the declared type (route.ts).       *)
(*                                                                         *)
(* Of a value it is known what it is, and the text that JavaScript makes   *)
(* of it.  The default that an annotation provides has the declared type.  *)
(***************************************************************************)
EXTENDS Naturals, Sequences, FiniteSetsExt

ParameterTypes == {"Number", "Boolean", "Date", "String", "Array", "Buffer", "WebEvent", "Object"}

\* The texts a request may hold: a number, a negation, the null of JSON, nothing at all.
Texts == {"7", "no", "null", ""}

Value(is, text) == [is |-> is, text |-> text]
Text(t) == Value("string", t)
Undefined == Value("undefined", "undefined")
Null == Value("null", "null")
SomeObject == Value("object", "[object Object]")
Event == Value("event", "[object Object]")
Default == Value("default", "7")

\* A query that gives a name twice, first a number.
Twice == Value("list", "7")

-----------------------------------------------------------------------------
(* The annotations.  A name that is not given is that of the parameter. *)

NotGiven == "not given"

Input(type, name, default, format) ==
  [name |-> "Input", type |-> type, given |-> name, default |-> default, format |-> format]

QueryParam(name, default) == Input("queryParam", name, default, NotGiven)
QueryParams == Input("queryParams", NotGiven, SomeObject, NotGiven)
PathParam(name) == Input("path", name, Undefined, NotGiven)
Body(format) == Input("body", "", Undefined, format)

InputDecorator == [name |-> "Input", targets |-> {"parameter"}, multiple |-> FALSE]

-----------------------------------------------------------------------------
(* RouteMethodParameter.prepare(): where a parameter is read from.  It is given its   *)
(* annotations and the names of the parameters in the path of the route.              *)

Source(from, name, default) == [from |-> from, name |-> name, default |-> default]

Unfulfilled == Source("nowhere", NotGiven, Undefined)

\* The path is read under the name of the parameter, whatever name was given.
Annotated(parameter, input) ==
  Source(input.type,
         IF input.type = "path" \/ input.given = NotGiven THEN parameter.name ELSE input.given,
         input.default)

\* By type, by a name in the path, by the names everybody knows.
Unannotated(parameter, inPath) ==
  IF parameter.type = "WebEvent" THEN Source("event", NotGiven, Undefined)
  ELSE IF parameter.type \in {"Array", "String", "Number"} /\ parameter.name \in inPath
  THEN Source("path", parameter.name, Undefined)
  ELSE IF parameter.name \in {"body", "session"}
  THEN Source(parameter.name, NotGiven, Undefined)
  ELSE Unfulfilled

SourceOf(parameter, annotations, inPath) ==
  IF annotations # <<>> THEN Annotated(parameter, annotations[1])
  ELSE Unannotated(parameter, inPath)

-----------------------------------------------------------------------------
(* prepareMiddleware(): the parser of the body, which is installed where a parameter  *)
(* is annotated with @Body(), though the method may have no such parameter.           *)

BodyFormat(types, inputs) ==
  LET bodies == {i \in DOMAIN inputs : inputs[i] # <<>> /\ inputs[i][1].type = "body"}
      first  == Min(bodies)
      type   == IF first \in DOMAIN types THEN types[first] ELSE "unknown"
  IN  IF bodies = {} THEN "none"
      ELSE IF inputs[first][1].format # NotGiven THEN inputs[first][1].format
      ELSE CASE type = "String" -> "text"
             [] type = "Buffer" -> "raw"
             [] OTHER -> "json"

\* What the parser makes of what was sent; it refuses what is not JSON.
NotJSON(format, sent) == format = "json" /\ sent = "no"

ParsedBody(format, sent) ==
  CASE format = "none" -> Undefined
    [] format # "none" /\ sent = "" -> SomeObject
    [] format = "text" /\ sent # "" -> Text(sent)
    [] format = "raw" /\ sent # "" -> Value("bytes", sent)
    [] format = "json" /\ sent = "7" -> Value("number", "7")
    [] format = "json" /\ sent = "null" -> Null
    [] OTHER -> SomeObject

-----------------------------------------------------------------------------
(* The factories.  `request` has the segments of its path by the names of the route,  *)
(* and a query, a session and a body. *)

Given(source, request) ==
  CASE source.from = "path" ->
         IF source.name \in DOMAIN request.params THEN Text(request.params[source.name]) ELSE Undefined
    [] source.from = "queryParam" -> request.query
    [] source.from = "queryParams" -> SomeObject
    [] source.from = "session" -> request.session
    [] source.from = "body" -> request.body
    [] source.from = "event" -> Event

\* What is undefined or null is replaced by the default, where there is one.
Raw(source, request) ==
  IF source.default # Undefined /\ Given(source, request).is \in {"undefined", "null"}
  THEN source.default ELSE Given(source, request)

Got(kind) == [status |-> 200, kind |-> kind]
Refused(status) == [status |-> status, kind |-> "undefined"]

\* Mutant: the number is not checked.
ConvertUnchecked(type, source, raw) ==
  IF type = "Array" /\ source.from = "path"
  THEN IF raw.is = "undefined" THEN Refused(500) ELSE Got("list")
  ELSE IF raw.is = "undefined" THEN Got("undefined")
  ELSE
    CASE type = "Number" -> Got(IF raw.text = "7" THEN "number" ELSE "NaN")
      [] type = "Boolean" -> Got("boolean")
      [] type = "Date" -> IF raw.text = "7" \/ raw.is = "null" THEN Got("undefined") ELSE Refused(400)
      [] type = "String" -> Got(IF raw.is = "null" THEN "null" ELSE "string")
      [] OTHER -> Got(raw.is)

\* Segments of the path are split off a text that must be there.  Elsewhere only numbers,
\* truth values, dates and texts are converted, of which null is a date and no text; a date
\* is checked, and then not returned.
Convert(type, source, raw) ==
  IF type = "Array" /\ source.from = "path"
  THEN IF raw.is = "undefined" THEN Refused(500) ELSE Got("list")
  ELSE IF raw.is = "undefined" THEN Got("undefined")
  ELSE
    CASE type = "Number" -> IF raw.text = "7" THEN Got("number") ELSE Refused(400)
      [] type = "Boolean" -> Got("boolean")
      [] type = "Date" -> IF raw.text = "7" \/ raw.is = "null" THEN Got("undefined") ELSE Refused(400)
      [] type = "String" -> Got(IF raw.is = "null" THEN "null" ELSE "string")
      [] OTHER -> Got(raw.is)

=============================================================================
