----------------------------- MODULE ModuleGraph -----------------------------
(***************************************************************************)
(* Runtime.resolveModule(): the depth-first walk through the imports of    *)
(* the entry module that lists the modules of an application.  A module is *)
(* listed when its imports have been walked.  A configured module, an      *)
(* object with $module, imports the module it configures: resolving it     *)
(* appends that module to its list of imports, an array the application    *)
(* owns and may have given to other modules as well.                       *)
(***************************************************************************)
EXTENDS Naturals, Sequences

CONSTANTS Modules,
          Entry,         \* the entry module
          Configures,    \* the module each configured module configures, or None
          ImportsOf,     \* the array each module keeps its imports in
          Arrays,
          Graphs,        \* the contents the arrays may have at first
          Missing,       \* an import that is undefined, as in circular files
          None

ASSUME ModuleAssumption ==
    /\ Entry \in Modules /\ None \notin Modules /\ Missing \notin Modules
    /\ Configures \in [Modules -> Modules \cup {None}] /\ Configures[Entry] = None
    /\ ImportsOf \in [Modules -> Arrays]
    /\ Graphs \subseteq [Arrays -> Seq(Modules \cup {Missing})]

VARIABLES imports,       \* the contents of the arrays
          visited,
          path,          \* resolveModule() calls in progress: a module and a position each
          definitions,   \* the modules listed, in order
          resolution     \* "new", "running", "resolved" or "failed"

graphVars == <<imports, visited, path, definitions, resolution>>

Frame == [module : Modules, position : Nat \ {0}]

GraphTypeOK ==
    /\ imports \in [Arrays -> Seq(Modules \cup {Missing})]
    /\ visited \subseteq Modules
    /\ path \in Seq(Frame)
    /\ definitions \in Seq(Modules)
    /\ resolution \in {"new", "running", "resolved", "failed"}
    /\ resolution = "running" => path # <<>>

GraphInit ==
    /\ imports \in Graphs
    /\ visited = {}
    /\ path = <<>>
    /\ definitions = <<>>
    /\ resolution = "new"

Top == path[Len(path)]
TopImports == imports[ImportsOf[Top.module]]

Advanced == [path EXCEPT ![Len(path)].position = @ + 1]

\* resolveModule(m), which is new, up to its first import.
Enter(m, callers) ==
    /\ visited' = visited \cup {m}
    /\ path' = Append(callers, [module |-> m, position |-> 1])
    /\ imports' = IF Configures[m] = None THEN imports
                  ELSE [imports EXCEPT ![ImportsOf[m]] = Append(@, Configures[m])]

\* The constructor of Runtime.
ResolveEntry ==
    /\ resolution = "new"
    /\ Enter(Entry, <<>>)
    /\ resolution' = "running"
    /\ UNCHANGED definitions

Importing == resolution = "running" /\ Top.position <= Len(TopImports)
Imported == TopImports[Top.position]

\* Variant: a module is noted as visited once it is listed.
EnterUnnoted ==
    /\ Importing /\ Imported # Missing
    /\ Imported \notin {definitions[i] : i \in DOMAIN definitions}
    /\ Len(path) <= 4
    /\ Enter(Imported, Advanced)
    /\ UNCHANGED <<definitions, resolution>>

\* The next import is walked before its importer goes on.
EnterImport ==
    /\ Importing /\ Imported # Missing
    /\ Imported \notin visited
    /\ Enter(Imported, Advanced)
    /\ UNCHANGED <<definitions, resolution>>

SkipVisited ==
    /\ Importing
    /\ Imported \in visited
    /\ path' = Advanced
    /\ UNCHANGED <<imports, visited, definitions, resolution>>

ImportMissing ==
    /\ Importing
    /\ Imported = Missing
    /\ resolution' = "failed"
    /\ UNCHANGED <<imports, visited, path, definitions>>

\* Variant: a module is listed before its imports are walked.
DefineEarly ==
    /\ resolution = "running"
    /\ \/ /\ Top.position = 1
          /\ Top.module \notin {definitions[i] : i \in DOMAIN definitions}
          /\ definitions' = Append(definitions, Top.module)
          /\ UNCHANGED <<path, resolution>>
       \/ /\ Top.position > Len(TopImports)
          /\ Top.module \in {definitions[i] : i \in DOMAIN definitions}
          /\ path' = SubSeq(path, 1, Len(path) - 1)
          /\ resolution' = IF Len(path) = 1 THEN "resolved" ELSE "running"
          /\ UNCHANGED definitions
    /\ UNCHANGED <<imports, visited>>

\* The imports have been walked: the module is listed and its importer goes on.
Define ==
    /\ resolution = "running" /\ Top.position > Len(TopImports)
    /\ definitions' = Append(definitions, Top.module)
    /\ path' = SubSeq(path, 1, Len(path) - 1)
    /\ resolution' = IF Len(path) = 1 THEN "resolved" ELSE "running"
    /\ UNCHANGED <<imports, visited>>

ResolveStep == ResolveEntry \/ EnterImport \/ SkipVisited \/ ImportMissing \/ Define
-----------------------------------------------------------------------------
(***************************************************************************)
(* Properties                                                              *)
(***************************************************************************)
ToImports(m) == LET array == imports[ImportsOf[m]] IN {array[i] : i \in DOMAIN array}

Listed == {definitions[i] : i \in DOMAIN definitions}

\* A set of modules that holds whatever its members import.
Closed(S) == \A m \in S : ToImports(m) \cap Modules \subseteq S

Reaches(m, n) == \A S \in SUBSET Modules : m \in S /\ Closed(S) => n \in S

\* What a module imports, but for the modules that others configure who keep their imports
\* in the same array.
OwnImports(m) ==
    ToImports(m) \ {Configures[c] : c \in {x \in Modules \ {m} : ImportsOf[x] = ImportsOf[m]}}

OwnClosed(S) == \A m \in S : OwnImports(m) \cap Modules \subseteq S
LeadsTo(m, n) == \A S \in SUBSET Modules : m \in S /\ OwnClosed(S) => n \in S

OnCircle(m) == \E x \in Modules \ {m} : Reaches(m, x) /\ Reaches(x, m)

\* No module is listed twice, however many others import it or configure it, and in the
\* end the list has every module the entry module leads to, also those that configured
\* modules added to arrays walked earlier.
NoneListedTwice == \A i, j \in DOMAIN definitions : definitions[i] = definitions[j] => i = j
EachModuleOnce ==
    /\ NoneListedTwice
    /\ resolution = "resolved" => Entry \in Listed /\ Closed(Listed)

\* When a module is listed, the modules it imports are listed already, unless those
\* import it in turn.
ImportsComeFirst ==
    [][Len(definitions') > Len(definitions) =>
         LET m == definitions'[Len(definitions')] IN
         \A x \in ToImports(m) \cap Modules : x \in Listed \/ Reaches(x, m)]_graphVars
=============================================================================
