--------------------------- MODULE ControllerTree ---------------------------
(***************************************************************************)
(* Controllers of packages/web-server: the decorators @Controller(),       *)
(* @Get() and its kin, and @Mount() write down what classes declare        *)
(* (metadata/controller.ts, metadata/route.ts), ControllerInstance makes a *)
(* tree of it (controller.ts), and mount() gives the tree to the engine,   *)
(* which tries what it was given in that order.                            *)
(*                                                                         *)
(* A path is a sequence of segments; ":id" is a parameter.  The classes    *)
(* are declared one after the other, the last of them is the @WebService(),*)
(* and what is mounted was declared before or is the class itself.         *)
(***************************************************************************)
EXTENDS Annotations, RouteParameters

CONSTANTS
  Fields,          \* names of the fields that controllers are mounted on
  RoutePaths, MountPaths, BasePaths,
  Signatures,      \* the parameter lists of route methods: sequences of [name, type]
  Inputs,          \* the annotations that parameters get
  LaterSignatures, \* bound: the parameter lists of classes that are not the first
  MaxClasses,      \* bound: the classes
  MaxWritten,      \* bound: the decorators, parameters and `extends` of all classes
  MaxUnread        \* the same, where there are annotations that the tree does not read

ASSUME TreeAssumption ==
  /\ Signatures \subseteq Seq([name : STRING, type : ParameterTypes])
  /\ Positions \subseteq Nat \ {0} /\ \A s \in Signatures : DOMAIN s \subseteq Positions
  /\ RoutePaths \union MountPaths \union BasePaths \subseteq Seq(STRING)
  /\ {MaxClasses, MaxWritten, MaxUnread} \subseteq Nat

VARIABLES
  signatures,   \* of each class: of its own methods the one parameter list, of others none
  routes,       \* of each class: [method, path]
  mounts,       \* of each class: [field, path]
  fieldTypes,   \* of each class: design:type of its own fields, or 0
  optionPaths,  \* the base path in each options object; number 0 is shared by all classes
  written,      \* the decorators, parameters and `extends` so far
  phase,        \* "declaring", "building", "listening", or how it failed
  nodes,        \* the instances, in the order of their construction
  current,      \* the one under construction, 0 for none
  layers        \* what the engine was given

declarationVars == <<annotationVars, signatures, routes, mounts, fieldTypes, optionPaths, written>>
treeVars == <<declarationVars, phase, nodes, current, layers>>

NoMount == [field |-> "none", path |-> <<>>]
NoRoute == [method |-> "none", path |-> <<>>]

TreeInit ==
  /\ AnnotationsInit
  /\ signatures = <<>> /\ routes = <<>> /\ mounts = <<>> /\ fieldTypes = <<>>
  /\ optionPaths = [o \in 0..MaxClasses |-> <<>>]
  /\ written = 0
  /\ phase = "declaring" /\ nodes = <<>> /\ current = 0 /\ layers = <<>>

-----------------------------------------------------------------------------
(* Class statements. *)

Class == Len(base)

Unread ==
  \E c \in Classes : constructorParameters[c] # <<>> \/ \E m \in Methods : memberAnnotations[c][m] # <<>>

Writes(k) ==
  /\ written + k <= IF Unread THEN MaxUnread ELSE MaxWritten
  /\ written' = written + k

WritesUnread == written < MaxUnread /\ written' = written + 1

\* The next class, which may extend an earlier one.
Declare(b) ==
  /\ phase = "declaring" /\ Class < MaxClasses
  /\ Writes(IF b = 0 THEN 0 ELSE 1)
  /\ DeclareClass(b)
  /\ signatures' = Append(signatures, [m \in Methods |-> <<>>])
  /\ routes' = Append(routes, <<>>)
  /\ mounts' = Append(mounts, <<>>)
  /\ fieldTypes' = Append(fieldTypes, [f \in Fields |-> 0])
  /\ UNCHANGED <<optionPaths, phase, nodes, current, layers>>

\* Members come before the decorators of the class: here fields, methods and then the
\* constructor, whose decorators write to different lists.
Members ==
  /\ phase = "declaring" /\ Class # 0 /\ classAnnotations[Class] = <<>>
  /\ UNCHANGED <<nodes, current, layers>>

NoMethods == \A m \in Methods : signatures[Class][m] = <<>>
NoConstructor == constructorParameters[Class] = <<>>

Method(m, signature) ==
  /\ Members
  /\ signatures[Class][m] = <<>> /\ Writes(Len(signature)) /\ NoConstructor
  /\ Class > 1 => signature \in LaterSignatures
  /\ signatures' = [signatures EXCEPT ![Class][m] = <<signature>>]
  /\ UNCHANGED <<annotationVars, routes, mounts, fieldTypes, optionPaths, phase>>

\* A decorator that is refused throws, and the class statement with it.
Applied(accepted, Apply) ==
  IF accepted THEN Apply ELSE UNCHANGED annotationVars

Unless(accepted) == phase' = IF accepted THEN phase ELSE "refused"

\* @QueryParam(), @PathParam(), @Body() on a parameter of a method that has no route yet.
DecorateParameter(m, i, input) ==
  /\ Members /\ Writes(1)
  /\ signatures[Class][m] # <<>> /\ i \in DOMAIN signatures[Class][m][1]
  /\ routes[Class] = <<>> /\ NoConstructor
  /\ LET accepted == AcceptsParameter(InputDecorator, Class, m, i)
     IN  Applied(accepted, ApplyToParameter(Class, m, i, input)) /\ Unless(accepted)
  /\ UNCHANGED <<signatures, routes, mounts, fieldTypes, optionPaths>>

\* @Inject() on a parameter of the constructor.
InjectDecorator == [name |-> "Inject", targets |-> {"parameter", "property"}, multiple |-> FALSE]

DecorateConstructorParameter(i) ==
  /\ Members /\ WritesUnread
  /\ LET accepted == AcceptsConstructorParameter(InjectDecorator)
     IN  /\ Applied(accepted, ApplyToConstructorParameter(Class, i, [name |-> "Inject"]))
         /\ Unless(accepted)
  /\ UNCHANGED <<signatures, routes, mounts, fieldTypes, optionPaths>>

\* @Label() on a method.
LabelDecorator ==
  [name |-> "Label", targets |-> {"class", "method", "property", "parameter"}, multiple |-> FALSE]

DecorateMethod(m) ==
  /\ Members /\ WritesUnread
  /\ signatures[Class][m] # <<>> /\ routes[Class] = <<>> /\ NoConstructor
  /\ LET accepted == AcceptsMethod(LabelDecorator, Class, m)
     IN  Applied(accepted, ApplyToMethod(Class, m, [name |-> "Label"])) /\ Unless(accepted)
  /\ UNCHANGED <<signatures, routes, mounts, fieldTypes, optionPaths>>

\* Mutant: the list is the one the class inherits, where there is one.
RouteInherited(m, path) ==
  /\ Members /\ Writes(1)
  /\ signatures[Class][m] # <<>> /\ NoConstructor
  /\ routes' = [routes EXCEPT ![Holder(routes, Class)] = Append(@, [method |-> m, path |-> path])]
  /\ UNCHANGED <<annotationVars, signatures, mounts, fieldTypes, optionPaths, phase>>

\* @Get(path): the list is the own one of the class.
Route(m, path) ==
  /\ Members /\ Writes(1)
  /\ signatures[Class][m] # <<>> /\ NoConstructor
  /\ routes' = [routes EXCEPT ![Class] = Append(@, [method |-> m, path |-> path])]
  /\ UNCHANGED <<annotationVars, signatures, mounts, fieldTypes, optionPaths, phase>>

\* @Mount(path) on a field: the list is the one the class inherits, where there is one.
Mount(field, path, child) ==
  /\ Members /\ Writes(1)
  /\ fieldTypes[Class][field] = 0 /\ NoMethods /\ NoConstructor
  /\ fieldTypes' = [fieldTypes EXCEPT ![Class][field] = child]
  /\ mounts' = [mounts EXCEPT ![Holder(mounts, Class)] = Append(@, [field |-> field, path |-> path])]
  /\ UNCHANGED <<annotationVars, signatures, routes, optionPaths, phase>>

ControllerDecorator ==
  [name |-> "Controller", targets |-> {"class", "method", "property", "parameter"}, multiple |-> FALSE]

\* @Controller(path, options) writes the path into the options it is given; whether they
\* hold global middleware is noted.
Controlled(path, options, guards) ==
  /\ Applied(AcceptsClass(ControllerDecorator, Class),
             ApplyToClass(Class, [name |-> "Controller", path |-> path, options |-> options,
                                  guards |-> guards]))
  /\ optionPaths' = IF path # <<>> THEN [optionPaths EXCEPT ![options] = path] ELSE optionPaths

Controller(path, options) ==
  /\ Members /\ Writes(1)
  /\ Controlled(path, options, TRUE)
  /\ Unless(AcceptsClass(ControllerDecorator, Class))
  /\ UNCHANGED <<signatures, routes, mounts, fieldTypes>>

-----------------------------------------------------------------------------
(* RouteReflector: what a class declares is read through its prototype. *)

RoutesOf(c) == routes[Holder(routes, c)]
MountsOf(c) == mounts[Holder(mounts, c)]

\* The nearest class along the chain for which it is there, 0 for none.
Nearest(There(_), c) ==
  LET line   == Lineage(c)
      having == {i \in DOMAIN line : There(line[i])}
  IN  IF having = {} THEN 0 ELSE line[Max(having)]

TypeOf(c, field) ==
  LET d == Nearest(LAMBDA e : fieldTypes[e][field] # 0, c)
  IN  IF d = 0 THEN 0 ELSE fieldTypes[d][field]

\* The constructor throws for a mount whose type it cannot tell.
Untyped(c) == \E k \in DOMAIN MountsOf(c) : TypeOf(c, MountsOf(c)[k].field) = 0

ControllerOf(c) == ForClass("Controller", c)

BasePath(c) == IF ControllerOf(c) = <<>> THEN <<>> ELSE optionPaths[ControllerOf(c)[1].options]

-----------------------------------------------------------------------------
(* RouteInstance: the parameters of a route. *)

\* The parameters of the method that is called.
DeclaredParameters(c, m) == signatures[Nearest(LAMBDA e : signatures[e][m] # <<>>, c)][m][1]

\* The compiler records the types of a method, as metadata of its class, where a decorator
\* stands on it or on a parameter.
Recorded(c, m) ==
  /\ signatures[c][m] # <<>>
  /\ \/ \E k \in DOMAIN routes[c] : routes[c][k].method = m
     \/ memberAnnotations[c][m] # <<>>
     \/ \E i \in Positions : parameterAnnotations[c][<<m, i>>] # <<>>

RecordedTypes(c, m) ==
  LET recorded == signatures[Nearest(LAMBDA e : Recorded(e, m), c)][m][1]
  IN  [i \in DOMAIN recorded |-> recorded[i].type]

\* A method without decorators has its own names and the types of the one it overrides; a
\* parameter without a type is treated as one of type Object.
ParametersOf(c, m) ==
  LET declared == DeclaredParameters(c, m)
      types    == RecordedTypes(c, m)
  IN  [i \in DOMAIN declared |->
         [name |-> declared[i].name, type |-> IF i \in DOMAIN types THEN types[i] ELSE "Object"]]

InputsOf(c, m) == [i \in Positions |-> ListForMethodParameter(c, m, i)]

InPath(path) == {"id" : k \in {k \in DOMAIN path : path[k] = ":id"}}

SourcesOf(c, route) ==
  LET parameters == ParametersOf(c, route.method)
  IN  [i \in DOMAIN parameters |->
         SourceOf(parameters[i], InputsOf(c, route.method)[i], InPath(route.path))]

Unfulfillable(c) ==
  \E k \in DOMAIN RoutesOf(c) :
    LET sources == SourcesOf(c, RoutesOf(c)[k]) IN \E i \in DOMAIN sources : sources[i] = Unfulfilled

-----------------------------------------------------------------------------
(* ControllerInstance. *)

Node(class, prefix, parent, mount) ==
  [class |-> class, prefix |-> prefix, parent |-> parent, mount |-> mount, next |-> 1]

\* @WebService() makes a controller of the last class, and its module the tree.
Build ==
  /\ phase = "declaring" /\ Class # 0
  /\ Controlled(<<>>, Class, FALSE)
  /\ IF AcceptsClass(ControllerDecorator, Class)
     THEN nodes' = <<Node(Class, <<>>, 0, NoMount)>> /\ current' = 1 /\ phase' = "building"
     ELSE UNCHANGED <<nodes, current>> /\ phase' = "refused"
  /\ UNCHANGED <<signatures, routes, mounts, fieldTypes, written, layers>>

Building == phase = "building" /\ UNCHANGED declarationVars

This == nodes[current]
MountsLeft == This.next <= Len(MountsOf(This.class))

\* The instances a node was mounted from, and the node itself.
Ancestry(n) ==
  LET Up[k \in 0..Len(nodes)] == IF k = 0 THEN {} ELSE {k} \union Up[nodes[k].parent]
  IN  Up[n]

\* The reflector throws, before anything is mounted.
ReflectionFails ==
  /\ Building
  /\ This.next = 1 /\ Untyped(This.class)
  /\ phase' = "untyped"
  /\ UNCHANGED <<nodes, current, layers>>

NextMount == MountsOf(This.class)[This.next]
Mounted == TypeOf(This.class, NextMount.field)

Mounting == Building /\ MountsLeft /\ ~Untyped(This.class)

\* Mutant: the base path is added by the mount and by pathPrefix.
SubPrefixTwice(node, mount) ==
  node.prefix \o BasePath(node.class) \o BasePath(node.class) \o mount.path

\* combinePaths()
SubPrefix(node, mount) == node.prefix \o BasePath(node.class) \o mount.path

MountChild ==
  /\ Mounting
  /\ \A n \in Ancestry(current) : nodes[n].class # Mounted
  /\ nodes' = Append(nodes, Node(Mounted, SubPrefix(This, NextMount), current, NextMount))
  /\ current' = Len(nodes')
  /\ UNCHANGED <<phase, layers>>

\* Below an instance of the same class the construction goes on for ever: no context is
\* passed on that would tell, and the stack overflows.
MountRecurses ==
  /\ Mounting
  /\ \E n \in Ancestry(current) : nodes[n].class = Mounted
  /\ phase' = "overflow"
  /\ UNCHANGED <<nodes, current, layers>>

\* The routes come last, and each wants its parameters fulfilled.
RoutesFail ==
  /\ Building /\ ~MountsLeft
  /\ Unfulfillable(This.class)
  /\ phase' = "unfulfilled"
  /\ UNCHANGED <<nodes, current, layers>>

-----------------------------------------------------------------------------
(* mount(): the layers of the engine.  An instance is mounted before those it mounts, *)
(* in the order of their construction.                                                *)

PathPrefix(n) == nodes[n].prefix \o BasePath(nodes[n].class)

Guards(n) ==
  ControllerOf(nodes[n].class) # <<>> /\ ControllerOf(nodes[n].class)[1].guards

Layer(kind, n, path, route) == [kind |-> kind, node |-> n, path |-> path, route |-> route]

MiddlewareLayers(n) ==
  IF Guards(n) THEN <<Layer("use", n, PathPrefix(n), NoRoute)>> ELSE <<>>

RouteLayers(n) ==
  LET own == RoutesOf(nodes[n].class)
  IN  [k \in DOMAIN own |-> Layer("route", n, PathPrefix(n) \o own[k].path, own[k])]

\* Mutant: what is mounted comes before the middleware.
AllLayersRoutesFirst ==
  FlattenSeq([n \in DOMAIN nodes |-> RouteLayers(n)])
    \o FlattenSeq([n \in DOMAIN nodes |-> MiddlewareLayers(n)])

AllLayers == FlattenSeq([n \in DOMAIN nodes |-> MiddlewareLayers(n) \o RouteLayers(n)])

\* A controller is made; when it is the root all of them are mounted.
Finish ==
  /\ Building /\ ~MountsLeft
  /\ ~Unfulfillable(This.class)
  /\ current' = This.parent
  /\ IF This.parent = 0
     THEN UNCHANGED nodes /\ layers' = AllLayers /\ phase' = "listening"
     ELSE /\ nodes' = [nodes EXCEPT ![This.parent].next = @ + 1]
          /\ UNCHANGED <<phase, layers>>

-----------------------------------------------------------------------------
(* The engine, Express: the layers are tried in their order. *)

Matches(pattern, path) == \A k \in DOMAIN pattern : pattern[k] \in {":id", path[k]}

Fits(layer, path) ==
  IF layer.kind = "use" THEN Len(layer.path) <= Len(path) /\ Matches(layer.path, path)
  ELSE Len(layer.path) = Len(path) /\ Matches(layer.path, path)

\* The layer of the route that answers, the number past the last for the default handler.
Answering(path) ==
  LET fitting == {i \in DOMAIN layers : layers[i].kind = "route" /\ Fits(layers[i], path)}
  IN  IF fitting = {} THEN Len(layers) + 1 ELSE Min(fitting)

\* The instances whose middleware lets the request pass before that.
Passed(path) ==
  {layers[i].node : i \in {i \in 1..(Answering(path) - 1) :
                             layers[i].kind = "use" /\ Fits(layers[i], path)}}

-----------------------------------------------------------------------------

Member ==
  \E m \in Methods :
    \/ \E signature \in Signatures : Method(m, signature)
    \/ \E i \in Positions, input \in Inputs : DecorateParameter(m, i, input)
    \/ DecorateMethod(m)
    \/ \E path \in RoutePaths : Route(m, path)

TreeNext ==
  \/ \E b \in 0..Class : Declare(b)
  \/ Member
  \/ \E i \in Positions : DecorateConstructorParameter(i)
  \/ \E f \in Fields, path \in MountPaths, child \in 1..Class : Mount(f, path, child)
  \/ \E path \in BasePaths, options \in {0, Class} : Controller(path, options)
  \/ Build
  \/ ReflectionFails \/ MountChild \/ MountRecurses \/ RoutesFail \/ Finish

=============================================================================
