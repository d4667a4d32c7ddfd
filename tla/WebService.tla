----------------------------- MODULE WebService -----------------------------
(***************************************************************************)
(* A @WebService() from its class statements to its answers: the classes   *)
(* are declared, the tree of controllers is built and mounted              *)
(* (ControllerTree), a request goes through the layers of the engine to a  *)
(* route, whose parameters are resolved (RouteParameters), and the method  *)
(* returns or throws a Response (Responses).                               *)
(***************************************************************************)
EXTENDS ControllerTree, Responses

CONSTANTS
  Requests,      \* records of a path, a query and what is sent as a body
  MaxResponding  \* bound: what is written of the services whose responses are followed

VARIABLES
  answer         \* what became of the request

serviceVars == <<treeVars, answer, made>>

NoAnswer == [node |-> 0, passed |-> {}, arguments |-> <<>>, status |-> 0]
NoResponse == [encoding |-> "none"]

ServiceInit == TreeInit /\ answer = NoAnswer /\ made = NoResponse

Paths == {r.path : r \in Requests}

-----------------------------------------------------------------------------

\* The parameters of a layer's path, with the segments of the request they stand for.
Params(layer, path) ==
  [name \in InPath(layer.path) |-> path[CHOOSE k \in DOMAIN path : layer.path[k] = ":id"]]

\* The arguments of the route of a layer.
Arguments(layer, path, query, body) ==
  LET class   == nodes[layer.node].class
      sources == SourcesOf(class, layer.route)
      types   == ParametersOf(class, layer.route.method)
      request == [params |-> Params(layer, path), query |-> query, session |-> Undefined,
                  body |-> body]
  IN  [i \in DOMAIN sources |->
         [raw |-> Raw(sources[i], request), from |-> sources[i].from, type |-> types[i].type,
          got |-> Convert(types[i].type, sources[i], Raw(sources[i], request))]]

Answer(node, passed, arguments, status) ==
  [node |-> node, passed |-> passed, arguments |-> arguments, status |-> status]

\* Nothing fits: the default handler.
Unanswered(path) ==
  /\ phase = "listening"
  /\ Answering(path) > Len(layers)
  /\ answer' = Answer(0, Passed(path), <<>>, 404)
  /\ phase' = "answered"
  /\ UNCHANGED <<declarationVars, nodes, current, layers, made>>

\* The parser of the body comes before the arguments; the first that is refused decides.
Handled(path, query, sent) ==
  /\ phase = "listening"
  /\ Answering(path) <= Len(layers)
  /\ LET layer     == layers[Answering(path)]
         class     == nodes[layer.node].class
         format    == BodyFormat(RecordedTypes(class, layer.route.method),
                                 InputsOf(class, layer.route.method))
         arguments == Arguments(layer, path, query, ParsedBody(format, sent))
         refused   == {i \in DOMAIN arguments : arguments[i].got.status # 200}
     IN  IF NotJSON(format, sent)
         THEN answer' = Answer(layer.node, Passed(path), <<>>, 400) /\ phase' = "answered"
         ELSE IF refused # {}
         THEN /\ answer' = Answer(layer.node, Passed(path), <<>>, arguments[Min(refused)].got.status)
              /\ phase' = "answered"
         ELSE answer' = Answer(layer.node, Passed(path), arguments, 200) /\ phase' = "accepted"
  /\ UNCHANGED <<declarationVars, nodes, current, layers, made>>

\* The method makes a response, with a factory or with the constructor.
Makes(response) ==
  /\ phase = "accepted" /\ written <= MaxResponding
  /\ made' = response
  /\ phase' = "responding"
  /\ UNCHANGED <<declarationVars, nodes, current, layers, answer>>

Responds(factory, body) == body \in BodiesOf(factory) /\ Makes(Make(factory, body))

Constructs(status, headers, body, isRawBody) == Makes(NewResponse(status, headers, body, isRawBody))

\* encodeAs() and header(), any number of times.
Reencodes(encoding) ==
  /\ phase = "responding"
  /\ made' = Encoded(made, encoding)
  /\ UNCHANGED <<treeVars, answer>>

GivesType ==
  /\ phase = "responding"
  /\ made' = WithOwnType(made)
  /\ UNCHANGED <<treeVars, answer>>

ServiceNext ==
  \/ TreeNext /\ UNCHANGED <<answer, made>>
  \/ \E path \in Paths : Unanswered(path)
  \/ \E r \in Requests : Handled(r.path, r.query, r.sent)
  \/ \E factory \in DOMAIN Status, body \in ContentBodies : Responds(factory, body)
  \/ \E status \in {Status["ok"], Status["notFound"]}, headers \in SUBSET {OwnType},
        body \in ContentBodies, isRawBody \in BOOLEAN : Constructs(status, headers, body, isRawBody)
  \/ \E encoding \in {"raw", "json"} : Reencodes(encoding)
  \/ GivesType

ServiceSpec == ServiceInit /\ [][ServiceNext]_serviceVars

-----------------------------------------------------------------------------

\* What was declared for the classes before stays what it was while a class is declared,
\* but for three ways to reach another class: a list of mounts and the parameters of a
\* constructor that are inherited, and options that are shared.
OthersKeepTheirs ==
  [][phase = "declaring" /\ Class' = Class => \A c \in 1..(Class - 1) :
       /\ ListForClass(c)' = ListForClass(c)
       /\ RoutesOf(c)' = RoutesOf(c)
       /\ \A m \in Methods :
            /\ ListForMethod(c, m)' = ListForMethod(c, m)
            /\ \A i \in Positions : ListForMethodParameter(c, m, i)' = ListForMethodParameter(c, m, i)
       /\ MountsOf(c)' # MountsOf(c) => Holder(mounts, c) \in ToSet(Lineage(Class))
       /\ ListForConstructorParameters(c)' # ListForConstructorParameters(c) =>
            Holder(constructorParameters, c) \in ToSet(Lineage(Class))
       /\ BasePath(c)' # BasePath(c) => ControllerOf(c)[1].options = 0]_serviceVars

\* The path that the decorators of an instance and of those above it declare.
DeclaredBase(c) == IF ControllerOf(c) = <<>> THEN <<>> ELSE ControllerOf(c)[1].path

SharesOptions(c) == ControllerOf(c) # <<>> /\ ControllerOf(c)[1].options = 0

DeclaredPath(n) ==
  LET Down[k \in DOMAIN nodes] ==
        IF k = 1 THEN DeclaredBase(nodes[1].class)
        ELSE Down[nodes[k].parent] \o nodes[k].mount.path \o DeclaredBase(nodes[k].class)
  IN  Down[n]

\* Every route answers at the path that the decorators from the service down to its method
\* declare, unless an earlier one does, where no controller shares its options.
RoutesAnswerWhereDeclared ==
  phase = "listening" =>
    \A n \in DOMAIN nodes : (\A a \in Ancestry(n) : ~SharesOptions(nodes[a].class)) =>
      \A k \in DOMAIN RoutesOf(nodes[n].class) :
        LET declared == DeclaredPath(n) \o RoutesOf(nodes[n].class)[k].path
            path     == [s \in DOMAIN declared |-> IF declared[s] = ":id" THEN "7" ELSE declared[s]]
        IN  Answering(path) <= Len(layers) /\ layers[Answering(path)].node <= n

\* No route answers before the global middleware of all controllers that it is mounted
\* under, whichever of several mounts and routes takes the request.
GuardedByAncestors ==
  phase \in {"answered", "accepted"} /\ answer.node # 0 =>
    \A a \in Ancestry(answer.node) : Guards(a) => a \in answer.passed

\* What a parameter gets, by the type recorded of it: numbers, truth values and texts, a
\* null of JSON where a text is declared, the segments of a path where a list is, of a date
\* nothing at all, and for any other type what the request holds, as it is.
Expected(a) ==
  CASE a.type = "Number" -> {"number"}
    [] a.type = "Boolean" -> {"boolean"}
    [] a.type = "String" -> {"string", "null"}
    [] a.type = "Date" -> {"undefined"}
    [] a.type = "Array" /\ a.from = "path" -> {"list"}
    [] OTHER -> {a.raw.is}

\* No method is called with a number, truth value or text where another of them is declared,
\* nor with a number that is none: where the request has a value for a parameter that value
\* is converted, or the request is refused.  Lists outside the path, buffers and objects
\* are not converted, and the types meant are those recorded of the method, which for an
\* override without decorators are those of the method it overrides.
ArgumentsAreTyped ==
  phase = "accepted" =>
    \A i \in DOMAIN answer.arguments :
      LET a == answer.arguments[i]
      IN  a.got.kind \in IF a.raw.is = "undefined" THEN {"undefined"} ELSE Expected(a)

\* The responses that come to the same however they are given to the server: JSON of what is
\* not falsy, without a content type of its own, and text or a Buffer as it is, with a
\* content type.
SameEitherWay(r) ==
  IF r.encoding = "json"
  THEN r.unencodedBody \notin Falsy /\ OwnType \notin r.headers
  ELSE r.body \in {"empty", "text", "bytes"} /\ ContentType(r.headers) # "none"

\* Whether a method returns a response or throws it makes no difference to what is written
\* exactly for those.
ThrownAsReturned ==
  phase = "responding" => (Returned(made) = Thrown(made) <=> SameEitherWay(made))

=============================================================================
