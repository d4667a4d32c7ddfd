--------------------------- MODULE MCBuildCommand ---------------------------
(***************************************************************************)
(* The instance of BuildCommand that TLC checks: three packages.           *)
(***************************************************************************)
EXTENDS BuildCommand, TaskFrame

\* Manifests in which package a needs packages of da and, as peer or dev
\* dependencies, of oa, and so on; every package has the script but those in the
\* last argument.
Manifests(da, db, dc, oa, ob, oc, scripts) ==
  [deps |-> [p \in Packages |-> CASE p = "a" -> da [] p = "b" -> db [] p = "c" -> dc],
   others |-> [p \in Packages |-> CASE p = "a" -> oa [] p = "b" -> ob [] p = "c" -> oc],
   scripts |-> [p \in Packages |-> IF p \in DOMAIN scripts THEN scripts[p] ELSE "has"]]

All == [p \in {} |-> "has"]
Lacks(p) == [q \in {p} |-> "lacks"]
None(p) == [q \in {p} |-> "none"]

MCGraphs == {
  Manifests({}, {}, {}, {}, {}, {}, All),
  Manifests({}, {}, {}, {}, {}, {}, None("b")),
  Manifests({}, {"a"}, {"b"}, {}, {}, {}, All),           \* a chain
  Manifests({"b"}, {"c"}, {}, {}, {}, {}, Lacks("b")),
  Manifests({"b"}, {"c"}, {}, {}, {}, {}, None("c")),
  Manifests({}, {"a"}, {"a"}, {}, {}, {}, All),           \* a fork
  Manifests({"b"}, {}, {}, {"c"}, {}, {}, All),           \* a join, one end by devDependencies
  Manifests({"b", "c"}, {}, {"b"}, {}, {}, {}, All),
  Manifests({"b"}, {"a"}, {"b"}, {}, {}, {}, All),        \* a circle below c
  Manifests({"b"}, {}, {}, {}, {"a"}, {}, All) }          \* a circle of both kinds

MCOptionSets == {{}, {"skip-already-published-check", "skip-prepublish"},
                 {"skip-build", "skip-login"}}

MCTerminals == 2..5
MCLogLines == 0..2

=============================================================================
