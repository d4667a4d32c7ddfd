----------------------------- MODULE BuildProofs -----------------------------
(***************************************************************************)
(* Theorems about BuildCommand, for any packages, whatever they depend on, *)
(* and any options, and about the frames of its task list, for any tasks   *)
(* and terminals.                                                          *)
(***************************************************************************)
EXTENDS BuildCommand, TaskFrame, SequenceTheorems, FiniteSetTheorems, WellFoundedInduction, TLAPS

(***************************************************************************)
(* Types                                                                   *)
(***************************************************************************)
CallTasks == {<<>>, Prep, TaskOf("build"), TaskOf("prepublish")}

CallType == [work : {"none", "script", "publish"}, mode : Modes, task : CallTasks,
             state : {"none", "called", "active", "resolved", "rejected"}]

CommandType == [name : {"run", "publish"}, options : OptionSets, mode : RunModes,
                terminal : Interactive]

TypeOK ==
  /\ graph \in Graphs
  /\ call \in CallType
  /\ pkg \in [Packages -> Progress]
  /\ waits \in [Packages -> SUBSET Packages]
  /\ path \in Seq(Packages)
  /\ visited \subseteq Packages
  /\ unhandled \subseteq Packages
  /\ command \in CommandType

-----------------------------------------------------------------------------
(***************************************************************************)
(* The order of the packages.  In mode "parallel-wait" what a package no   *)
(* longer waits for is done.  In a walk what was seen is done, or its      *)
(* visit is open, and an open visit leads to those opened below it.        *)
(***************************************************************************)
Run == {"running", "done", "failed"}
OnPath == {path[i] : i \in DOMAIN path}
Leads(d, p) == Reaches(graph.deps, d, p)

CallsAreOrderly ==
  /\ call.work = "publish" => call.mode = "serial"
  /\ call.mode # "serial" \/ call.state = "called" => path = <<>>
  /\ call.state = "called" => visited = {} /\ \A p \in Packages : pkg[p] = "unseen"

\* Mode "parallel": nobody waits, and only a manifest without scripts fails.
RunsAtOnce ==
  call.mode = "parallel" => \A p \in Packages :
    /\ pkg[p] \in Run \union {"unseen"}
    /\ pkg[p] = "failed" => call.state = "rejected"
    /\ call.state = "resolved" => pkg[p] = "done"

WaitsForAll ==
  call.mode = "parallel-wait" => \A p \in Packages :
    /\ pkg[p] \in Run => \A d \in Needs(p) : pkg[d] = "done"
    /\ pkg[p] = "waiting" => \A d \in Needs(p) \ waits[p] : pkg[d] = "done"
    /\ pkg[p] = "failed" /\ Dependents(p) = {} => p \in unhandled
    /\ call.state = "resolved" => pkg[p] \in {"done", "failed"}

PathLeadsOn == \A i, j \in DOMAIN path : i <= j => Leads(path[i], path[j])

WalksInOrder ==
  call.mode = "serial" => \A p \in Packages :
    /\ pkg[p] \in Run \union {"unseen"}
    /\ pkg[p] \in Run => \A d \in graph.deps[p] : pkg[d] = "done" \/ Leads(d, p)
    /\ pkg[p] = "running" => Active /\ path # <<>> /\ p = Top
    /\ Active /\ p \in visited => pkg[p] = "done" \/ p \in OnPath
    /\ call.state = "resolved" /\ call.work = "script" => pkg[p] = "done"

\* Nothing is called before the registry was asked.
NothingCalledYet == stage \in {"start", "check"} => call = NoCall

OrderInv ==
  /\ TypeOK
  /\ CallsAreOrderly
  /\ RunsAtOnce
  /\ WaitsForAll
  /\ PathLeadsOn
  /\ WalksInOrder

BuildInv == OrderInv /\ NothingCalledYet

-----------------------------------------------------------------------------
(***************************************************************************)
(* What leads to what                                                      *)
(***************************************************************************)

\* Every package leads to itself, and what leads to a package leads to what it needs.
LEMMA LeadsToItself == ASSUME NEW e, NEW a PROVE Reaches(e, a, a)
  BY DEF Reaches

LEMMA LeadsFurther ==
  ASSUME NEW e, NEW a, NEW b, NEW c, Reaches(e, a, b), c \in e[b]
  PROVE  Reaches(e, a, c)
  BY DEF Reaches

\* What is left of the path when a visit ends.
LEMMA BackIsShorter ==
  ASSUME path \in Seq(Packages), path # <<>>
  PROVE  /\ Back \in Seq(Packages)
         /\ Len(path) \in Nat \ {0}
         /\ DOMAIN path = 1..Len(path)
         /\ DOMAIN Back = 1..(Len(path) - 1)
         /\ \A i \in 1..(Len(path) - 1) : Back[i] = path[i]
         /\ Top \in Packages
         /\ Len(path) \in DOMAIN path
<1>1. Len(path) \in Nat \ {0}
  BY EmptySeq
<1>2. DOMAIN path = 1..Len(path)
  OBVIOUS
<1>3. Top \in Packages
  BY <1>1, <1>2 DEF Top
<1>4. \A i \in 1..(Len(path) - 1) : path[i] \in Packages
  BY <1>1, <1>2
<1>5. Back \in Seq(Packages)
  BY <1>1, <1>4, SubSeqProperties DEF Back
<1>6. Len(Back) = Len(path) - 1
  <2>. DEFINE n == Len(path) - 1
  <2>1. n \in Int /\ n >= 0
    BY <1>1
  <2>2. \A i \in 1..n : path[i] \in Packages
    BY <1>4
  <2>. HIDE DEF n
  <2>3. Len(SubSeq(path, 1, n)) = IF 1 <= n THEN n - 1 + 1 ELSE 0
    BY <2>1, <2>2, SubSeqProperties
  <2>4. Len(SubSeq(path, 1, n)) = n
    BY <2>1, <2>3
  <2>. QED
    BY <2>4, Zenon DEF Back, n
<1>7. \A i \in 1..(Len(path) - 1) : Back[i] = path[i]
  BY <1>1, <1>4, SubSeqProperties DEF Back
<1>. QED
  BY <1>1, <1>2, <1>3, <1>5, <1>6, <1>7, LenProperties

-----------------------------------------------------------------------------
(***************************************************************************)
(* The parallel modes                                                      *)
(***************************************************************************)

\* The call goes on in another state.
LEMMA CallGoesOn ==
  ASSUME call \in CallType,
         NEW s \in {"none", "called", "active", "resolved", "rejected"},
         call' = [call EXCEPT !.state = s]
  PROVE  /\ call' \in CallType
         /\ call'.state = s
         /\ call'.mode = call.mode
         /\ call'.work = call.work
<1>. DEFINE c == call
<1>. c \in CallType /\ call' = [c EXCEPT !.state = s]
  OBVIOUS
<1>. QED
  BY DEF CallType

LEMMA VisitedIsRun ==
  ASSUME TypeOK, NEW p \in Packages
  PROVE  Visited(p) \in Run
BY GraphsAssumption DEF TypeOK, Visited, Run

LEMMA NeedsArePackages ==
  ASSUME graph \in Graphs, NEW p \in Packages
  PROVE  Needs(p) \subseteq Packages /\ graph.deps[p] \subseteq Needs(p)
BY GraphsAssumption DEF Needs

LEMMA BeginKeepsOrder ==
  ASSUME OrderInv, Begin, UNCHANGED <<command, stage>>
  PROVE  OrderInv'
<1>. USE DEF OrderInv, Begin
<1>1. CASE call.mode = "serial"
  <2>1. call' = [call EXCEPT !.state = "active"]
    BY <1>1
  <2>2. /\ call' \in CallType
        /\ call'.state = "active" /\ call'.mode = "serial" /\ call'.work = call.work
    BY <1>1, <2>1, CallGoesOn DEF TypeOK
  <2>3. UNCHANGED <<graph, pkg, waits, path, visited, unhandled>>
    BY <1>1
  <2>4. TypeOK' /\ CallsAreOrderly' /\ RunsAtOnce' /\ WaitsForAll'
    BY <2>2, <2>3 DEF TypeOK, CallsAreOrderly, RunsAtOnce, WaitsForAll
  <2>5. PathLeadsOn'
    BY <2>3 DEF PathLeadsOn, Leads
  <2>6. WalksInOrder'
    BY <2>2, <2>3 DEF WalksInOrder, CallsAreOrderly, Run
  <2>. QED
    BY <2>4, <2>5, <2>6
<1>2. CASE call.mode # "serial"
  <2>. DEFINE need == [p \in Packages |-> IF call.mode = "parallel-wait" THEN Needs(p) ELSE {}]
              failed == {p \in Packages : need[p] = {} /\ Visited(p) = "failed"}
              next == IF call.mode = "parallel" /\ failed # {} THEN "rejected" ELSE "active"
  <2>1. /\ waits' = need
        /\ pkg' = [p \in Packages |-> IF need[p] = {} THEN Visited(p) ELSE "waiting"]
        /\ unhandled' = unhandled \union Rejected(failed)
        /\ call' = [call EXCEPT !.state = next]
        /\ UNCHANGED <<graph, path, visited>>
    BY <1>2
  <2>2. \A p \in Packages : Visited(p) \in Run
    BY VisitedIsRun
  <2>3. /\ call' \in CallType
        /\ call'.state = next /\ call'.mode = call.mode /\ call'.work = call.work
    BY <2>1, CallGoesOn DEF TypeOK
  <2>4. need \in [Packages -> SUBSET Packages]
    BY NeedsArePackages DEF TypeOK
  <2>5. \A p \in Packages : need[p] = IF call.mode = "parallel-wait" THEN Needs(p) ELSE {}
    OBVIOUS
  <2>6. \A p \in Packages : Needs(p)' = Needs(p) /\ Dependents(p)' = Dependents(p)
    BY <2>1 DEF Needs, Dependents
  <2>7. failed \subseteq Packages /\ Rejected(failed) \subseteq Packages
    BY DEF Rejected
  <2>8. \A p \in Packages : Visited(p) = "failed" /\ need[p] = {} => p \in failed
    OBVIOUS
  <2>9. next \in {"active", "rejected"} /\ (call.mode = "parallel" /\ failed # {} => next = "rejected")
    OBVIOUS
  <2>. HIDE DEF need, failed, next
  <2>10. TypeOK'
    BY <2>1, <2>2, <2>3, <2>4, <2>7 DEF TypeOK, Run, Progress
  <2>11. CallsAreOrderly'
    BY <1>2, <2>1, <2>3, <2>9 DEF CallsAreOrderly
  <2>12. RunsAtOnce'
    <3>. SUFFICES ASSUME call'.mode = "parallel", NEW p \in Packages
                  PROVE  /\ pkg'[p] \in Run \union {"unseen"}
                         /\ pkg'[p] = "failed" => call'.state = "rejected"
                         /\ call'.state = "resolved" => pkg'[p] = "done"
      BY DEF RunsAtOnce
    <3>1. need[p] = {} /\ pkg'[p] = Visited(p)
      BY <2>1, <2>3, <2>5
    <3>. QED
      BY <3>1, <2>2, <2>3, <2>8, <2>9
  <2>13. WaitsForAll'
    <3>. SUFFICES ASSUME call'.mode = "parallel-wait", NEW p \in Packages
                  PROVE  /\ pkg'[p] \in Run => \A d \in Needs(p) : pkg'[d] = "done"
                         /\ pkg'[p] = "waiting" => \A d \in Needs(p) \ waits'[p] : pkg'[d] = "done"
                         /\ pkg'[p] = "failed" /\ Dependents(p) = {} => p \in unhandled'
                         /\ call'.state = "resolved" => pkg'[p] \in {"done", "failed"}
      BY <2>6 DEF WaitsForAll
    <3>1. need[p] = Needs(p) /\ pkg'[p] = IF need[p] = {} THEN Visited(p) ELSE "waiting"
      BY <2>1, <2>3, <2>5
    <3>2. pkg'[p] \in Run => Needs(p) = {}
      BY <3>1 DEF Run
    <3>3. pkg'[p] = "failed" /\ Dependents(p) = {} => p \in Rejected(failed)
      BY <2>3, <2>8, <3>1 DEF Rejected
    <3>. QED
      BY <2>1, <2>3, <2>9, <3>1, <3>2, <3>3
  <2>14. PathLeadsOn'
    BY <2>1 DEF PathLeadsOn, Leads
  <2>15. WalksInOrder'
    BY <1>2, <2>3 DEF WalksInOrder
  <2>. QED
    BY <2>10, <2>11, <2>12, <2>13, <2>14, <2>15
<1>. QED
  BY <1>1, <1>2

\* A package that waits says that the call is in mode "parallel-wait".
LEMMA OnlyOneModeWaits ==
  ASSUME OrderInv, NEW p \in Packages, pkg[p] = "waiting"
  PROVE  call.mode = "parallel-wait" /\ call.state # "called"
BY DEF OrderInv, TypeOK, CallType, Modes, RunsAtOnce, WalksInOrder, CallsAreOrderly, Run

LEMMA DependencyReadyKeepsOrder ==
  ASSUME OrderInv, NEW p \in Packages, NEW d \in Packages, DependencyReady(p, d),
         UNCHANGED <<command, stage>>
  PROVE  OrderInv'
<1>. USE DEF OrderInv
<1>1. /\ pkg[p] = "waiting" /\ d \in waits[p] /\ pkg[d] = "done"
      /\ waits' = [waits EXCEPT ![p] = @ \ {d}]
      /\ UNCHANGED <<graph, call, path, visited, command>>
  BY DEF DependencyReady
<1>2. call.mode = "parallel-wait" /\ call.state # "called"
  BY <1>1, OnlyOneModeWaits
<1>3. \A q \in Packages : Needs(q)' = Needs(q) /\ Dependents(q)' = Dependents(q)
  BY <1>1 DEF Needs, Dependents
<1>4. /\ waits' \in [Packages -> SUBSET Packages]
      /\ \A q \in Packages : waits'[q] = IF q = p THEN waits[p] \ {d} ELSE waits[q]
  BY <1>1 DEF TypeOK
<1>5. Visited(p) \in Run
  BY VisitedIsRun
<1>6. \/ pkg' = pkg /\ unhandled' = unhandled
      \/ /\ waits[p] = {d}
         /\ pkg' = [pkg EXCEPT ![p] = Visited(p)]
         /\ unhandled' = unhandled \union Rejected(IF Visited(p) = "failed" THEN {p} ELSE {})
  BY DEF DependencyReady
<1>7. CASE pkg' = pkg /\ unhandled' = unhandled
  <2>1. TypeOK' /\ CallsAreOrderly' /\ RunsAtOnce' /\ WalksInOrder'
    BY <1>1, <1>2, <1>4, <1>7 DEF TypeOK, CallsAreOrderly, RunsAtOnce, WalksInOrder
  <2>2. WaitsForAll'
    <3>. SUFFICES ASSUME NEW q \in Packages
                  PROVE  /\ pkg[q] \in Run => \A x \in Needs(q) : pkg[x] = "done"
                         /\ pkg[q] = "waiting" => \A x \in Needs(q) \ waits'[q] : pkg[x] = "done"
                         /\ pkg[q] = "failed" /\ Dependents(q) = {} => q \in unhandled
                         /\ call.state = "resolved" => pkg[q] \in {"done", "failed"}
      BY <1>1, <1>3, <1>7 DEF WaitsForAll
    <3>. QED
      BY <1>1, <1>2, <1>4 DEF WaitsForAll
  <2>3. PathLeadsOn'
    BY <1>1 DEF PathLeadsOn, Leads
  <2>. QED
    BY <2>1, <2>2, <2>3
<1>8. CASE /\ waits[p] = {d}
           /\ pkg' = [pkg EXCEPT ![p] = Visited(p)]
           /\ unhandled' = unhandled \union Rejected(IF Visited(p) = "failed" THEN {p} ELSE {})
  <2>1. Rejected(IF Visited(p) = "failed" THEN {p} ELSE {}) \subseteq Packages
    BY DEF Rejected
  <2>2. \A q \in Packages : pkg'[q] = IF q = p THEN Visited(p) ELSE pkg[q]
    BY <1>8 DEF TypeOK
  <2>3. TypeOK'
    BY <1>1, <1>4, <1>5, <1>8, <2>1 DEF TypeOK, Run, Progress
  <2>4. CallsAreOrderly' /\ RunsAtOnce' /\ WalksInOrder'
    BY <1>1, <1>2 DEF CallsAreOrderly, RunsAtOnce, WalksInOrder
  <2>5. \A x \in Packages : pkg[x] = "done" => pkg'[x] = "done"
    BY <1>1, <2>2
  <2>6. \A x \in Needs(p) : pkg'[x] = "done"
    BY <1>1, <1>2, <1>8, <2>5, NeedsArePackages DEF WaitsForAll, TypeOK
  <2>7. WaitsForAll'
    <3>. SUFFICES ASSUME NEW q \in Packages
                  PROVE  /\ pkg'[q] \in Run => \A x \in Needs(q) : pkg'[x] = "done"
                         /\ pkg'[q] = "waiting" => \A x \in Needs(q) \ waits'[q] : pkg'[x] = "done"
                         /\ pkg'[q] = "failed" /\ Dependents(q) = {} => q \in unhandled'
                         /\ call.state = "resolved" => pkg'[q] \in {"done", "failed"}
      BY <1>1, <1>3 DEF WaitsForAll
    <3>1. CASE q = p
      <4>1. call.state # "resolved"
        BY <1>1, <1>2 DEF WaitsForAll
      <4>2. Visited(p) = "failed" /\ Dependents(p) = {} => p \in unhandled'
        BY <1>2, <1>8 DEF Rejected
      <4>. QED
        BY <1>5, <2>2, <2>6, <3>1, <4>1, <4>2 DEF Run
    <3>2. CASE q # p
      <4>1. \A x \in Needs(q) : x \in Packages
        BY NeedsArePackages DEF TypeOK
      <4>2. pkg'[q] = pkg[q] /\ waits'[q] = waits[q]
        BY <1>4, <2>2, <3>2
      <4>3. unhandled \subseteq unhandled'
        BY <1>8
      <4>. QED
        BY <1>2, <2>5, <4>1, <4>2, <4>3 DEF WaitsForAll
    <3>. QED
      BY <3>1, <3>2
  <2>8. PathLeadsOn'
    BY <1>1 DEF PathLeadsOn, Leads
  <2>. QED
    BY <2>3, <2>4, <2>7, <2>8
<1>. QED
  BY <1>6, <1>7, <1>8

LEMMA DependencyFailedKeepsOrder ==
  ASSUME OrderInv, NEW p \in Packages, NEW d \in Packages, DependencyFailed(p, d),
         UNCHANGED <<command, stage>>
  PROVE  OrderInv'
<1>. USE DEF OrderInv
<1>. DEFINE next == IF Active THEN "rejected" ELSE call.state
<1>1. /\ pkg[p] = "waiting"
      /\ pkg' = [pkg EXCEPT ![p] = "stuck"]
      /\ call' = [call EXCEPT !.state = next]
      /\ UNCHANGED <<graph, waits, path, visited, unhandled, command>>
  BY DEF DependencyFailed
<1>2. call.mode = "parallel-wait" /\ call.state # "called"
  BY <1>1, OnlyOneModeWaits
<1>3. /\ call' \in CallType
      /\ call'.state = next /\ call'.mode = call.mode /\ call'.work = call.work
  BY <1>1, CallGoesOn DEF TypeOK, CallType
<1>4. next # "called" /\ (next = "resolved" => call.state = "resolved")
  BY <1>2
<1>5. \A q \in Packages : pkg'[q] = IF q = p THEN "stuck" ELSE pkg[q]
  BY <1>1 DEF TypeOK
<1>. HIDE DEF next
<1>6. \A q \in Packages : Needs(q)' = Needs(q) /\ Dependents(q)' = Dependents(q)
  BY <1>1 DEF Needs, Dependents
<1>7. TypeOK'
  BY <1>1, <1>3 DEF TypeOK, Progress
<1>8. CallsAreOrderly' /\ RunsAtOnce' /\ WalksInOrder'
  BY <1>1, <1>2, <1>3, <1>4 DEF CallsAreOrderly, RunsAtOnce, WalksInOrder
<1>9. WaitsForAll'
  <2>. SUFFICES ASSUME NEW q \in Packages
                PROVE  /\ pkg'[q] \in Run => \A x \in Needs(q) : pkg'[x] = "done"
                       /\ pkg'[q] = "waiting" => \A x \in Needs(q) \ waits[q] : pkg'[x] = "done"
                       /\ pkg'[q] = "failed" /\ Dependents(q) = {} => q \in unhandled
                       /\ call'.state = "resolved" => pkg'[q] \in {"done", "failed"}
    BY <1>1, <1>6 DEF WaitsForAll
  <2>1. call'.state # "resolved"
    BY <1>1, <1>2, <1>3, <1>4 DEF WaitsForAll
  <2>2. \A x \in Needs(q) : x \in Packages
    BY NeedsArePackages DEF TypeOK
  <2>3. \A x \in Packages : pkg[x] = "done" => pkg'[x] = "done"
    BY <1>1, <1>5
  <2>. QED
    BY <1>2, <1>5, <2>1, <2>2, <2>3 DEF WaitsForAll, Run
<1>10. PathLeadsOn'
  BY <1>1 DEF PathLeadsOn, Leads
<1>. QED
  BY <1>7, <1>8, <1>9, <1>10

LEMMA AllVisitedKeepsOrder ==
  ASSUME OrderInv, AllVisited, UNCHANGED <<command, stage>>
  PROVE  OrderInv'
<1>. USE DEF OrderInv
<1>1. /\ Active /\ call.mode # "serial"
      /\ \A p \in Packages : pkg[p] \in {"done", "failed"}
      /\ call' = [call EXCEPT !.state = "resolved"]
      /\ UNCHANGED <<graph, pkg, waits, path, visited, unhandled, command>>
  BY DEF AllVisited
<1>2. /\ call' \in CallType
      /\ call'.state = "resolved" /\ call'.mode = call.mode /\ call'.work = call.work
  BY <1>1, CallGoesOn DEF TypeOK
<1>3. \A q \in Packages : Needs(q)' = Needs(q) /\ Dependents(q)' = Dependents(q)
  BY <1>1 DEF Needs, Dependents
<1>4. TypeOK' /\ CallsAreOrderly' /\ WalksInOrder'
  BY <1>1, <1>2 DEF TypeOK, CallsAreOrderly, WalksInOrder
<1>5. RunsAtOnce'
  BY <1>1, <1>2 DEF RunsAtOnce, Active
<1>6. WaitsForAll'
  BY <1>1, <1>2, <1>3 DEF WaitsForAll
<1>7. PathLeadsOn'
  BY <1>1 DEF PathLeadsOn, Leads
<1>. QED
  BY <1>4, <1>5, <1>6, <1>7

-----------------------------------------------------------------------------
(***************************************************************************)
(* The walk of serial mode                                                 *)
(***************************************************************************)

LEMMA EnterKeepsOrder ==
  ASSUME OrderInv, NEW p \in Packages, Enter(p), UNCHANGED <<command, stage>>
  PROVE  OrderInv'
<1>. USE DEF OrderInv
<1>1. /\ Active /\ call.mode = "serial" /\ p \notin visited
      /\ path # <<>> => p \in graph.deps[Top]
      /\ path' = Append(path, p)
      /\ visited' = visited \union {p}
      /\ UNCHANGED <<graph, call, pkg, waits, unhandled, command>>
  BY DEF Enter
<1>. DEFINE n == Len(path)
<1>2. /\ path \in Seq(Packages) /\ n \in Nat /\ DOMAIN path = 1..n
      /\ path # <<>> => n # 0 /\ Top = path[n] /\ Top \in Packages
  BY BackIsShorter DEF TypeOK, Top
<1>3. /\ path' \in Seq(Packages) /\ path' # <<>> /\ DOMAIN path' = 1..(n + 1)
      /\ \A i \in 1..n : path'[i] = path[i]
      /\ path'[n + 1] = p
  BY <1>1, <1>2, AppendProperties, LenProperties
<1>. HIDE DEF n
<1>4. n = 0 => path = <<>>
  BY <1>2, EmptySeq DEF n
<1>5. TypeOK'
  BY <1>1, <1>3 DEF TypeOK
<1>6. CallsAreOrderly' /\ RunsAtOnce' /\ WaitsForAll'
  BY <1>1 DEF CallsAreOrderly, RunsAtOnce, WaitsForAll, Active
<1>7. \A i \in 1..n : Leads(path[i], p)
  <2>. TAKE i \in 1..n
  <2>1. path # <<>> /\ n \in 1..n
    BY <1>2 DEF n
  <2>2. Leads(path[i], path[n])
    BY <1>2, <2>1 DEF PathLeadsOn
  <2>. QED
    BY <1>1, <1>2, <2>1, <2>2, LeadsFurther DEF Leads
<1>8. PathLeadsOn'
  <2>. SUFFICES ASSUME NEW i \in 1..(n + 1), NEW j \in 1..(n + 1), i <= j
                PROVE  Leads(path'[i], path'[j])
    BY <1>1, <1>3 DEF PathLeadsOn, Leads
  <2>1. CASE j = n + 1 /\ i = n + 1
    BY <1>3, <2>1, LeadsToItself DEF Leads
  <2>2. CASE j = n + 1 /\ i # n + 1
    <3>1. i \in 1..n
      BY <1>2, <2>2
    <3>. QED
      BY <1>3, <1>7, <2>2, <3>1
  <2>3. CASE j # n + 1
    <3>1. i \in 1..n /\ j \in 1..n
      BY <1>2, <2>3
    <3>. QED
      BY <1>2, <1>3, <3>1 DEF PathLeadsOn
  <2>. QED
    BY <2>1, <2>2, <2>3
<1>9. WalksInOrder'
  <2>1. OnPath \union {p} \subseteq OnPath'
    <3>1. \A i \in 1..n : path[i] \in OnPath'
      BY <1>2, <1>3 DEF OnPath
    <3>2. p \in OnPath'
      BY <1>2, <1>3 DEF OnPath
    <3>. QED
      BY <1>2, <3>1, <3>2 DEF OnPath
  <2>2. \A q \in Packages : pkg[q] # "running" \/ (path # <<>> /\ q = Top /\ pkg[q] = "running")
    BY <1>1 DEF WalksInOrder
  <2>3. \A q \in Packages : pkg[q] # "running"
    BY <1>1, <2>2 DEF Enter
  <2>. QED
    BY <1>1, <2>1, <2>3 DEF WalksInOrder, Active, Leads
<1>. QED
  BY <1>5, <1>6, <1>8, <1>9

\* The path is cut back, or was.
LEMMA ShorterPathLeadsOn ==
  ASSUME path \in Seq(Packages), PathLeadsOn, UNCHANGED graph,
         path' = path \/ path' = <<>> \/ (path # <<>> /\ path' = Back)
  PROVE  PathLeadsOn'
<1>1. CASE path' = path
  BY <1>1 DEF PathLeadsOn, Leads
<1>2. CASE path' = <<>>
  BY <1>2 DEF PathLeadsOn
<1>3. CASE path # <<>> /\ path' = Back
  BY <1>3, BackIsShorter DEF PathLeadsOn, Leads
<1>. QED
  BY <1>1, <1>2, <1>3

\* What was on the path is still there, but for its last.
LEMMA BackKeepsTheRest ==
  ASSUME path \in Seq(Packages), path # <<>>, path' = Back
  PROVE  OnPath \subseteq OnPath' \union {Top}
<1>. SUFFICES ASSUME NEW i \in DOMAIN path, path[i] # Top
              PROVE  path[i] \in OnPath'
  BY DEF OnPath
<1>1. i \in 1..(Len(path) - 1)
  BY BackIsShorter DEF Top
<1>. QED
  BY <1>1, BackIsShorter DEF OnPath

\* What the top of the path needs was seen: it is done, or it leads to the top.
LEMMA SeenIsDoneOrLeads ==
  ASSUME OrderInv, Active, call.mode = "serial", path # <<>>, graph.deps[Top] \subseteq visited
  PROVE  \A d \in graph.deps[Top] : pkg[d] = "done" \/ Leads(d, Top)
<1>. USE DEF OrderInv
<1>. TAKE d \in graph.deps[Top]
<1>1. d \in visited /\ d \in Packages
  BY DEF TypeOK
<1>2. pkg[d] = "done" \/ d \in OnPath
  BY <1>1 DEF WalksInOrder
<1>3. ASSUME d \in OnPath PROVE Leads(d, Top)
  <2>1. PICK i \in DOMAIN path : d = path[i]
    BY <1>3 DEF OnPath
  <2>2. i <= Len(path) /\ Len(path) \in DOMAIN path
    BY BackIsShorter DEF TypeOK
  <2>. QED
    BY <2>1, <2>2 DEF PathLeadsOn, Top
<1>. QED
  BY <1>2, <1>3

LEMMA WalkEndsKeepsOrder ==
  ASSUME OrderInv, WalkEnds, UNCHANGED <<command, stage>>
  PROVE  OrderInv'
<1>. USE DEF OrderInv
<1>1. /\ Active /\ call.mode = "serial" /\ path = <<>> /\ visited = Packages
      /\ call' = [call EXCEPT !.state = "resolved"]
      /\ UNCHANGED <<graph, pkg, waits, path, visited, unhandled, command>>
  BY DEF WalkEnds
<1>2. /\ call' \in CallType
      /\ call'.state = "resolved" /\ call'.mode = call.mode /\ call'.work = call.work
  BY <1>1, CallGoesOn DEF TypeOK
<1>3. TypeOK' /\ CallsAreOrderly' /\ RunsAtOnce' /\ WaitsForAll'
  BY <1>1, <1>2 DEF TypeOK, CallsAreOrderly, RunsAtOnce, WaitsForAll
<1>4. \A p \in Packages : pkg[p] = "done"
  BY <1>1 DEF WalksInOrder, OnPath
<1>5. WalksInOrder'
  BY <1>1, <1>2, <1>4 DEF WalksInOrder, Leads
<1>6. PathLeadsOn'
  BY <1>1 DEF PathLeadsOn
<1>. QED
  BY <1>3, <1>5, <1>6

\* A step of the visit on top: it begins to run, is done with, or fails, which ends
\* the walk.
LEMMA TopKeepsOrder ==
  ASSUME OrderInv, Active, call.mode = "serial", path # <<>>,
         \A d \in graph.deps[Top] : pkg[d] = "done" \/ Leads(d, Top),
         pkg[Top] # "done",
         NEW s \in Run,
         pkg' = [pkg EXCEPT ![Top] = s],
         call' \in CallType, call'.mode = call.mode, call'.work = call.work,
         \/ s = "running" /\ path' = path /\ call'.state = "active"
         \/ s = "done" /\ path' = Back /\ call'.state = "active"
         \/ s = "failed" /\ path' = <<>> /\ call'.state = "rejected"
         \/ s = "failed" /\ path' = <<>> /\ call'.state = "resolved" /\ call.work = "publish",
         UNCHANGED <<graph, waits, visited, unhandled, command>>
  PROVE  OrderInv'
<1>. USE DEF OrderInv
<1>1. /\ Top \in Packages
      /\ \A p \in Packages : pkg'[p] = IF p = Top THEN s ELSE pkg[p]
      /\ \A p \in Packages : pkg[p] = "done" => pkg'[p] = "done"
  BY BackIsShorter DEF TypeOK
<1>2. path' \in Seq(Packages)
  BY BackIsShorter, EmptySeq DEF TypeOK
<1>3. TypeOK'
  BY <1>1, <1>2 DEF TypeOK, Run, Progress
<1>4. CallsAreOrderly' /\ RunsAtOnce' /\ WaitsForAll'
  BY DEF CallsAreOrderly, RunsAtOnce, WaitsForAll, Active
<1>5. PathLeadsOn'
  BY ShorterPathLeadsOn DEF TypeOK
<1>6. WalksInOrder'
  <2>. SUFFICES ASSUME NEW p \in Packages
                PROVE  /\ pkg'[p] \in Run \union {"unseen"}
                       /\ pkg'[p] \in Run => \A d \in graph.deps[p] : pkg'[d] = "done" \/ Leads(d, p)
                       /\ pkg'[p] = "running" => Active' /\ path' # <<>> /\ p = Top'
                       /\ Active' /\ p \in visited => pkg'[p] = "done" \/ p \in OnPath'
                       /\ call'.state = "resolved" /\ call'.work = "script" => pkg'[p] = "done"
    BY DEF WalksInOrder, Leads
  <2>1. pkg'[p] \in Run \union {"unseen"}
    BY <1>1 DEF WalksInOrder
  <2>2. ASSUME pkg'[p] \in Run, NEW d \in graph.deps[p] PROVE pkg'[d] = "done" \/ Leads(d, p)
    <3>1. d \in Packages
      BY NeedsArePackages DEF TypeOK, Needs
    <3>2. pkg[d] = "done" \/ Leads(d, p)
      BY <1>1, <2>2 DEF WalksInOrder
    <3>. QED
      BY <1>1, <3>1, <3>2 DEF TaskOf
  <2>3. ASSUME pkg'[p] = "running" PROVE Active' /\ path' # <<>> /\ p = Top'
    <3>1. p = Top
      BY <1>1, <2>3 DEF WalksInOrder
    <3>2. s = "running"
      BY <1>1, <2>3, <3>1
    <3>. QED
      BY <3>1, <3>2 DEF Active, Top
  <2>4. ASSUME Active', p \in visited PROVE pkg'[p] = "done" \/ p \in OnPath'
    <3>1. pkg[p] = "done" \/ p \in OnPath
      BY <2>4 DEF WalksInOrder
    <3>2. CASE s = "running" /\ path' = path
      BY <1>1, <3>1, <3>2 DEF OnPath
    <3>3. CASE s = "done" /\ path' = Back
      BY <1>1, <3>1, <3>3, BackKeepsTheRest DEF TypeOK
    <3>. QED
      BY <2>4, <3>2, <3>3 DEF Active
  <2>5. ~(call'.state = "resolved" /\ call'.work = "script")
    BY DEF Active
  <2>. QED
    BY <2>1, <2>2, <2>3, <2>4, <2>5
<1>. QED
  BY <1>3, <1>4, <1>5, <1>6

LEMMA VisitTopKeepsOrder ==
  ASSUME OrderInv, VisitTop, UNCHANGED <<command, stage>>
  PROVE  OrderInv'
<1>. USE DEF OrderInv
<1>. DEFINE s == Visited(Top)
            next == IF s = "failed" THEN "rejected" ELSE call.state
<1>1. /\ Active /\ path # <<>> /\ pkg[Top] = "unseen" /\ graph.deps[Top] \subseteq visited
      /\ pkg' = [pkg EXCEPT ![Top] = s]
      /\ path' = CASE s = "running" -> path [] s = "done" -> Back [] s = "failed" -> <<>>
      /\ call' = [call EXCEPT !.state = next]
      /\ UNCHANGED <<graph, waits, visited, unhandled, command>>
  BY DEF VisitTop
<1>2. call.mode = "serial"
  BY <1>1 DEF CallsAreOrderly
<1>3. s \in Run
  BY <1>1, BackIsShorter, VisitedIsRun DEF TypeOK
<1>4. /\ call' \in CallType
      /\ call'.state = next /\ call'.mode = call.mode /\ call'.work = call.work
  BY <1>1, CallGoesOn DEF TypeOK, Active
<1>5. \A d \in graph.deps[Top] : pkg[d] = "done" \/ Leads(d, Top)
  BY <1>1, <1>2, SeenIsDoneOrLeads
<1>6. \/ s = "running" /\ path' = path /\ call'.state = "active"
      \/ s = "done" /\ path' = Back /\ call'.state = "active"
      \/ s = "failed" /\ path' = <<>> /\ call'.state = "rejected"
  BY <1>1, <1>3, <1>4 DEF Run, Active
<1>. HIDE DEF s, next
<1>. QED
  BY <1>1, <1>2, <1>3, <1>4, <1>5, <1>6, TopKeepsOrder

-----------------------------------------------------------------------------
(***************************************************************************)
(* A process ends                                                          *)
(***************************************************************************)

\* The running package of a walk is on top, and all it needs was seen to before it.
LEMMA RunningIsOnTop ==
  ASSUME OrderInv, call.mode = "serial", NEW p \in Packages, pkg[p] = "running"
  PROVE  /\ Active /\ path # <<>> /\ p = Top
         /\ \A d \in graph.deps[p] : pkg[d] = "done" \/ Leads(d, p)
BY DEF OrderInv, WalksInOrder, Run

LEMMA PublishEndKeepsOrder ==
  ASSUME OrderInv, NEW p \in Packages, NEW exit \in Exits, pkg[p] = "running",
         PublishEnds(p, exit), UNCHANGED <<graph, waits, visited, command, stage>>
  PROVE  OrderInv'
<1>. USE DEF OrderInv
<1>1. call.work = "publish" /\ call.mode = "serial"
  BY DEF PublishEnds, CallsAreOrderly
<1>2. /\ Active /\ path # <<>> /\ p = Top
      /\ \A d \in graph.deps[Top] : pkg[d] = "done" \/ Leads(d, Top)
  BY <1>1, RunningIsOnTop
<1>3. CASE ExitCode(exit) = 0
  <2>1. pkg' = [pkg EXCEPT ![Top] = "done"] /\ path' = Back /\ call' = call /\ unhandled' = unhandled
    BY <1>2, <1>3 DEF PublishEnds
  <2>. QED
    BY <1>1, <1>2, <2>1, TopKeepsOrder DEF Run, Active, TypeOK
<1>4. CASE ExitCode(exit) # 0
  <2>1. /\ pkg' = [pkg EXCEPT ![Top] = "failed"] /\ path' = <<>>
        /\ call' = [call EXCEPT !.state = "resolved"] /\ unhandled' = unhandled
    BY <1>2, <1>4 DEF PublishEnds
  <2>2. /\ call' \in CallType
        /\ call'.state = "resolved" /\ call'.mode = call.mode /\ call'.work = call.work
    BY <2>1, CallGoesOn DEF TypeOK
  <2>. QED
    BY <1>1, <1>2, <2>1, <2>2, TopKeepsOrder DEF Run, Active
<1>. QED
  BY <1>3, <1>4

\* In the parallel modes the call goes on.
LEMMA ParallelEndKeepsOrder ==
  ASSUME OrderInv, call.mode # "serial", NEW p \in Packages, pkg[p] = "running",
         NEW s \in {"done", "failed"},
         s = "failed" => call.mode = "parallel-wait",
         pkg' = [pkg EXCEPT ![p] = s],
         unhandled' = unhandled \union (IF s = "failed" THEN Rejected({p}) ELSE {}),
         path' = path \/ path' = <<>>,
         UNCHANGED <<graph, call, waits, visited, command>>
  PROVE  OrderInv'
<1>. USE DEF OrderInv
<1>1. \A q \in Packages : pkg'[q] = IF q = p THEN s ELSE pkg[q]
  BY DEF TypeOK
<1>2. path = <<>> /\ path' = path
  BY DEF CallsAreOrderly
<1>3. Rejected({p}) \subseteq Packages
  BY DEF Rejected
<1>4. TypeOK'
  BY <1>2, <1>3 DEF TypeOK, Progress
<1>5. call.state # "called"
  BY DEF CallsAreOrderly
<1>6. CallsAreOrderly' /\ WalksInOrder'
  BY <1>2, <1>5 DEF CallsAreOrderly, WalksInOrder
<1>7. PathLeadsOn'
  BY <1>2 DEF PathLeadsOn, Leads
<1>8. RunsAtOnce'
  BY <1>1 DEF RunsAtOnce, Run
<1>9. \A q \in Packages : Needs(q)' = Needs(q) /\ Dependents(q)' = Dependents(q)
  BY DEF Needs, Dependents
<1>10. WaitsForAll'
  <2>. DEFINE Ordered(q) == 
                /\ pkg'[q] \in Run => \A x \in Needs(q) : pkg'[x] = "done"
                /\ pkg'[q] = "waiting" => \A x \in Needs(q) \ waits[q] : pkg'[x] = "done"
                /\ pkg'[q] = "failed" /\ Dependents(q) = {} => q \in unhandled'
                /\ call.state = "resolved" => pkg'[q] \in {"done", "failed"}
  <2>. SUFFICES ASSUME call.mode = "parallel-wait", NEW q \in Packages
                PROVE  Ordered(q)
    <3>1. (\A q \in Packages : Ordered(q)) /\ call' = call /\ waits' = waits => WaitsForAll'
      BY ONLY <1>9 DEF WaitsForAll
    <3>. QED
      BY <3>1 DEF WaitsForAll
  <2>1. \A x \in Needs(q) : x \in Packages
    BY NeedsArePackages DEF TypeOK
  <2>2. \A x \in Packages : pkg[x] = "done" => pkg'[x] = "done"
    BY <1>1
  <2>3. s = "failed" /\ Dependents(p) = {} => p \in unhandled'
    BY DEF Rejected
  <2>. QED
    BY <1>1, <2>1, <2>2, <2>3 DEF WaitsForAll, Run
<1>. QED
  BY <1>4, <1>6, <1>7, <1>8, <1>10

LEMMA ScriptEndKeepsOrder ==
  ASSUME OrderInv, NEW p \in Packages, NEW exit \in Exits, pkg[p] = "running",
         ScriptEnds(p, exit), UNCHANGED <<graph, waits, visited, command, stage>>
  PROVE  OrderInv'
<1>. USE DEF OrderInv
<1>1. CASE Succeeds(exit)
  <2>1. /\ pkg' = [pkg EXCEPT ![p] = "done"]
        /\ path' = IF call.mode = "serial" THEN Back ELSE path
        /\ UNCHANGED <<call, unhandled>>
    BY <1>1 DEF ScriptEnds
  <2>2. CASE call.mode = "serial"
    <3>1. /\ Active /\ path # <<>> /\ p = Top
          /\ \A d \in graph.deps[Top] : pkg[d] = "done" \/ Leads(d, Top)
      BY <2>2, RunningIsOnTop
    <3>. QED
      BY <2>1, <2>2, <3>1, TopKeepsOrder DEF Run, Active, TypeOK
  <2>3. CASE call.mode # "serial"
    BY <2>1, <2>3, ParallelEndKeepsOrder
  <2>. QED
    BY <2>2, <2>3
<1>2. CASE ~Succeeds(exit)
  <2>1. /\ pkg' = [pkg EXCEPT ![p] = "failed"]
        /\ unhandled' = unhandled \union Rejected({p})
        /\ path' = <<>>
        /\ call' = [call EXCEPT !.state = IF call.mode = "serial" THEN "rejected" ELSE @]
        /\ call.mode # "parallel"
    BY <1>2 DEF ScriptEnds, Succeeds
  <2>2. CASE call.mode = "serial"
    <3>1. /\ Active /\ path # <<>> /\ p = Top
          /\ \A d \in graph.deps[Top] : pkg[d] = "done" \/ Leads(d, Top)
      BY <2>2, RunningIsOnTop
    <3>2. call' = [call EXCEPT !.state = "rejected"] /\ unhandled' = unhandled
      BY <2>1, <2>2 DEF Rejected
    <3>3. /\ call' \in CallType
          /\ call'.state = "rejected" /\ call'.mode = call.mode /\ call'.work = call.work
      BY <3>2, CallGoesOn DEF TypeOK
    <3>. QED
      BY <2>1, <2>2, <3>1, <3>2, <3>3, TopKeepsOrder DEF Run, Active
  <2>3. CASE call.mode # "serial"
    <3>1. call' = call
      BY <2>1, <2>3 DEF TypeOK, CallType
    <3>2. call.mode = "parallel-wait"
      BY <2>1, <2>3 DEF TypeOK, CallType, Modes
    <3>. QED
      BY <2>1, <2>3, <3>1, <3>2, ParallelEndKeepsOrder
  <2>. QED
    BY <2>2, <2>3
<1>. QED
  BY <1>1, <1>2

-----------------------------------------------------------------------------
(***************************************************************************)
(* The command                                                             *)
(***************************************************************************)

\* A call is made: everything is as before any visit.
LEMMA CallKeepsOrder ==
  ASSUME OrderInv, NEW work \in {"script", "publish"}, NEW mode \in Modes,
         NEW task \in CallTasks, work = "publish" => mode = "serial",
         Call(work, mode, task), UNCHANGED command
  PROVE  OrderInv'
<1>. USE DEF OrderInv
<1>1. /\ call' = [work |-> work, mode |-> mode, task |-> task, state |-> "called"]
      /\ pkg' = [p \in Packages |-> "unseen"]
      /\ waits' = [p \in Packages |-> {}]
      /\ path' = <<>> /\ visited' = {}
      /\ UNCHANGED <<graph, unhandled, command>>
  BY DEF Call, NewCall
<1>2. /\ call' \in CallType
      /\ call'.work = work /\ call'.mode = mode /\ call'.state = "called"
  BY <1>1 DEF CallType
<1>3. TypeOK'
  BY <1>1, <1>2, EmptySeq DEF TypeOK, Progress
<1>4. CallsAreOrderly' /\ RunsAtOnce' /\ WaitsForAll' /\ PathLeadsOn'
  BY <1>1, <1>2 DEF CallsAreOrderly, RunsAtOnce, WaitsForAll, PathLeadsOn, Run
<1>5. WalksInOrder'
  BY <1>1, <1>2 DEF WalksInOrder, Run, Active
<1>. QED
  BY <1>3, <1>4, <1>5

LEMMA UnchangedKeepsOrder ==
  ASSUME OrderInv, UNCHANGED <<buildVars, command>>
  PROVE  OrderInv'
<1>. UNCHANGED <<graph, call, pkg, waits, path, visited, unhandled, command>>
  BY DEF buildVars
<1>1. \A q \in Packages : Needs(q)' = Needs(q) /\ Dependents(q)' = Dependents(q)
  BY DEF Needs, Dependents
<1>2. TypeOK' /\ CallsAreOrderly' /\ RunsAtOnce'
  BY DEF OrderInv, TypeOK, CallsAreOrderly, RunsAtOnce
<1>3. WaitsForAll'
  BY <1>1 DEF OrderInv, WaitsForAll
<1>4. PathLeadsOn'
  BY DEF OrderInv, PathLeadsOn, Leads
<1>5. WalksInOrder'
  BY DEF OrderInv, WalksInOrder, Leads, Active, Top, OnPath
<1>. QED
  BY <1>2, <1>3, <1>4, <1>5 DEF OrderInv

\* Between two calls nothing of the last one runs, and it was a walk or all went well.
LEMMA NoCallKeepsOrder ==
  ASSUME OrderInv, call.state = "resolved", call' = NoCall,
         UNCHANGED <<graph, pkg, waits, path, visited, unhandled, command>>
  PROVE  OrderInv'
<1>. USE DEF OrderInv
<1>1. /\ call' \in CallType
      /\ call'.work = "none" /\ call'.mode = "serial" /\ call'.state = "none"
  BY DEF CallType, CallTasks, Modes, NoCall
<1>2. TypeOK' /\ CallsAreOrderly' /\ RunsAtOnce' /\ WaitsForAll'
  BY <1>1 DEF TypeOK, CallsAreOrderly, RunsAtOnce, WaitsForAll
<1>3. PathLeadsOn'
  BY DEF PathLeadsOn, Leads
<1>4. \A p \in Packages : graph.deps[p] \subseteq Needs(p)
  BY NeedsArePackages DEF TypeOK
<1>5. call.mode \in Modes
  BY DEF TypeOK, CallType
<1>6. WalksInOrder'
  <2>. SUFFICES ASSUME NEW p \in Packages
                PROVE  /\ pkg[p] \in {"unseen", "done", "failed"}
                       /\ pkg[p] \in Run => \A d \in graph.deps[p] : pkg[d] = "done" \/ Leads(d, p)
    BY <1>1 DEF WalksInOrder, Leads, Run, Active
  <2>1. CASE call.mode = "serial"
    BY <2>1 DEF WalksInOrder, Run, Active
  <2>2. CASE call.mode = "parallel"
    <3>1. \A q \in Packages : pkg[q] = "done"
      BY <2>2 DEF RunsAtOnce
    <3>. QED
      BY <1>4, <3>1, NeedsArePackages DEF TypeOK
  <2>3. CASE call.mode = "parallel-wait"
    BY <1>4, <2>3 DEF WaitsForAll
  <2>. QED
    BY <1>5, <2>1, <2>2, <2>3 DEF Modes
<1>. QED
  BY <1>2, <1>3, <1>6

\* The next stage of a command calls, or goes on without a call.
LEMMA GoOnToKeepsOrder ==
  ASSUME OrderInv, UNCHANGED command, NEW next \in {"check", "build", "prepublish", "pack"},
         NEW ts, GoOnTo(next, ts),
         call.state = "resolved" \/ call = NoCall
  PROVE  OrderInv'
<1>1. CASE next \in {"build", "prepublish"}
  <2>1. Call("script", command.mode, TaskOf(next))
    BY <1>1 DEF GoOnTo
  <2>2. command.mode \in Modes
    BY OptionsAssumption DEF OrderInv, TypeOK, CommandType
  <2>3. TaskOf(next) \in CallTasks
    BY <1>1 DEF CallTasks
  <2>. QED
    BY <2>1, <2>2, <2>3, CallKeepsOrder
<1>2. CASE next \notin {"build", "prepublish"}
  <2>1. call' = NoCall /\ UNCHANGED <<graph, pkg, waits, path, visited, unhandled, command>>
    BY <1>2 DEF GoOnTo
  <2>2. CASE call.state = "resolved"
    BY <2>1, <2>2, NoCallKeepsOrder
  <2>3. CASE call = NoCall
    BY <2>1, <2>3, UnchangedKeepsOrder DEF buildVars
  <2>. QED
    BY <2>2, <2>3
<1>. QED
  BY <1>1, <1>2

LEMMA FollowsIsAStage ==
  ASSUME NEW s
  PROVE  /\ Follows(s) \in {"check", "build", "prepublish", "pack"}
         /\ Follows(s) = "check" => s = "start"
BY DEF Follows

LEMMA CommandStepKeepsInv ==
  ASSUME BuildInv, CommandStep
  PROVE  BuildInv'
<1>1. CASE StartRun
  <2>1. Call("script", command.mode, Prep) /\ UNCHANGED command /\ stage' = "run"
    BY <1>1 DEF StartRun
  <2>2. command.mode \in Modes
    BY OptionsAssumption DEF BuildInv, OrderInv, TypeOK, CommandType
  <2>3. OrderInv'
    BY <2>1, <2>2, CallKeepsOrder DEF BuildInv, CallTasks
  <2>. QED
    BY <2>1, <2>3 DEF BuildInv, NothingCalledYet
<1>2. CASE RunReturns
  <2>1. UNCHANGED <<buildVars, command>> /\ stage' \notin {"start", "check"}
    BY <1>2 DEF RunReturns
  <2>. QED
    BY <2>1, UnchangedKeepsOrder DEF BuildInv, NothingCalledYet
<1>3. CASE StartPublish
  <2>1. /\ GoOnTo(Follows("start"), AddTask(tasks, Prep)) /\ UNCHANGED command
        /\ call = NoCall
    BY <1>3 DEF StartPublish, BuildInv, NothingCalledYet
  <2>2. OrderInv'
    BY <2>1, FollowsIsAStage, GoOnToKeepsOrder DEF BuildInv
  <2>3. stage' \in {"start", "check"} => call' = NoCall
    BY <2>1, FollowsIsAStage DEF GoOnTo
  <2>. QED
    BY <2>2, <2>3 DEF BuildInv, NothingCalledYet
<1>4. CASE CheckReturns
  <2>1. stage = "check" /\ call = NoCall /\ UNCHANGED command
    BY <1>4 DEF CheckReturns, BuildInv, NothingCalledYet
  <2>2. CASE GoOnTo(Follows("check"), Finish(tasks, TaskOf("check")))
    <3>1. OrderInv'
      BY <2>1, <2>2, FollowsIsAStage, GoOnToKeepsOrder DEF BuildInv
    <3>2. stage' \notin {"start", "check"}
      BY <2>2, FollowsIsAStage DEF GoOnTo
    <3>. QED
      BY <3>1, <3>2 DEF BuildInv, NothingCalledYet
  <2>3. CASE UNCHANGED buildVars
    BY <2>1, <2>3, UnchangedKeepsOrder DEF BuildInv, NothingCalledYet, buildVars
  <2>. QED
    BY <1>4, <2>2, <2>3 DEF CheckReturns
<1>5. CASE ScriptsReturn
  <2>1. stage \in {"build", "prepublish"} /\ UNCHANGED command
    BY <1>5 DEF ScriptsReturn
  <2>2. CASE call.state = "resolved" /\ GoOnTo(Follows(stage), Finish(tasks, TaskOf(stage)))
    <3>1. OrderInv'
      BY <2>1, <2>2, FollowsIsAStage, GoOnToKeepsOrder DEF BuildInv
    <3>2. stage' \notin {"start", "check"}
      BY <2>1, <2>2, FollowsIsAStage DEF GoOnTo
    <3>. QED
      BY <3>1, <3>2 DEF BuildInv, NothingCalledYet
  <2>3. CASE UNCHANGED buildVars /\ stage' = "ended"
    BY <2>1, <2>3, UnchangedKeepsOrder DEF BuildInv, NothingCalledYet
  <2>. QED
    BY <1>5, <2>2, <2>3 DEF ScriptsReturn, Return
<1>6. CASE PackReturns
  <2>1. UNCHANGED <<buildVars, command>> /\ stage' \in {"login", "ended"}
    BY <1>6 DEF PackReturns, Return
  <2>. QED
    BY <2>1, UnchangedKeepsOrder DEF BuildInv, NothingCalledYet
<1>7. CASE LoginReturns
  <2>1. UNCHANGED command /\ stage' \in {"publish", "crashed"}
    BY <1>7 DEF LoginReturns
  <2>2. CASE Call("publish", "serial", <<>>)
    <3>1. OrderInv'
      BY <2>1, <2>2, CallKeepsOrder DEF BuildInv, CallTasks, Modes
    <3>. QED
      BY <2>1, <3>1 DEF BuildInv, NothingCalledYet
  <2>3. CASE UNCHANGED buildVars
    BY <2>1, <2>3, UnchangedKeepsOrder DEF BuildInv, NothingCalledYet
  <2>. QED
    BY <1>7, <2>2, <2>3 DEF LoginReturns
<1>8. CASE PublishReturns
  <2>1. UNCHANGED <<buildVars, command>> /\ stage' = "ended"
    BY <1>8 DEF PublishReturns, Return
  <2>. QED
    BY <2>1, UnchangedKeepsOrder DEF BuildInv, NothingCalledYet
<1>. QED
  BY <1>1, <1>2, <1>3, <1>4, <1>5, <1>6, <1>7, <1>8 DEF CommandStep

LEMMA ExitKeepsInv ==
  ASSUME BuildInv, NEW p \in Packages, NEW exit \in Exits, Exit(p, exit)
  PROVE  BuildInv'
<1>1. /\ pkg[p] = "running"
      /\ ScriptEnds(p, exit) \/ PublishEnds(p, exit)
      /\ UNCHANGED <<graph, waits, visited, command, stage>>
  BY DEF Exit, ProcessExits
<1>2. OrderInv'
  BY <1>1, ScriptEndKeepsOrder, PublishEndKeepsOrder DEF BuildInv
<1>3. call # NoCall
  BY <1>1, RunningIsOnTop DEF BuildInv, NoCall, Active
<1>. QED
  BY <1>1, <1>2, <1>3 DEF BuildInv, NothingCalledYet

LEMMA ReactKeepsInv ==
  ASSUME BuildInv, React
  PROVE  BuildInv'
<1>1. UNCHANGED <<command, stage>> /\ (Begin \/ Reactions)
  BY DEF React
<1>2. OrderInv'
  BY <1>1, BeginKeepsOrder, DependencyReadyKeepsOrder, DependencyFailedKeepsOrder,
     AllVisitedKeepsOrder, EnterKeepsOrder, VisitTopKeepsOrder, WalkEndsKeepsOrder
  DEF BuildInv, Reactions
<1>3. ASSUME call = NoCall PROVE call' = NoCall
  <2>1. call.state = "none" /\ ~Active /\ ~Begin
    BY <1>3 DEF NoCall, Active, Begin
  <2>2. ASSUME NEW p \in Packages, NEW d \in Packages, DependencyFailed(p, d)
        PROVE  FALSE
    BY <1>3, <2>2, OnlyOneModeWaits DEF DependencyFailed, BuildInv, NoCall
  <2>3. ASSUME NEW p \in Packages, NEW d \in Packages, DependencyReady(p, d)
        PROVE  call' = call
    BY <2>3 DEF DependencyReady
  <2>. QED
    BY <1>1, <1>3, <2>1, <2>2, <2>3 DEF Reactions, AllVisited, Enter, VisitTop, WalkEnds
<1>. QED
  BY <1>1, <1>2, <1>3 DEF BuildInv, NothingCalledYet

\* The order of the packages holds in every state of every command.
THEOREM BuildInvariant == Spec => []BuildInv
<1>1. Init => BuildInv
  <2>. SUFFICES ASSUME Init PROVE BuildInv
    OBVIOUS
  <2>1. /\ graph \in Graphs /\ call = NoCall
        /\ pkg = [p \in Packages |-> "unseen"] /\ waits = [p \in Packages |-> {}]
        /\ path = <<>> /\ visited = {} /\ unhandled = {}
    BY DEF Init, BuildInit
  <2>2. /\ call \in CallType
        /\ call.work = "none" /\ call.mode = "serial" /\ call.state = "none"
    BY <2>1 DEF CallType, CallTasks, Modes, NoCall
  <2>3. command \in CommandType
    BY DEF Init, CommandType
  <2>4. TypeOK
    BY <2>1, <2>2, <2>3, EmptySeq DEF TypeOK, Progress
  <2>5. CallsAreOrderly /\ RunsAtOnce /\ WaitsForAll /\ PathLeadsOn
    BY <2>1, <2>2 DEF CallsAreOrderly, RunsAtOnce, WaitsForAll, PathLeadsOn
  <2>6. WalksInOrder
    BY <2>1, <2>2 DEF WalksInOrder, Run, Active
  <2>. QED
    BY <2>1, <2>4, <2>5, <2>6 DEF BuildInv, OrderInv, NothingCalledYet
<1>2. BuildInv /\ [Next]_vars => BuildInv'
  <2>. SUFFICES ASSUME BuildInv, [Next]_vars PROVE BuildInv'
    OBVIOUS
  <2>1. CASE CommandStep
    BY <2>1, CommandStepKeepsInv
  <2>2. CASE \E p \in Packages, exit \in Exits : Exit(p, exit)
    BY <2>2, ExitKeepsInv
  <2>3. CASE React
    BY <2>3, ReactKeepsInv
  <2>4. CASE ListTimers \/ Dies
    <3>1. UNCHANGED <<buildVars, command>>
      BY <2>4 DEF ListTimers, Timer, Dies
    <3>2. stage' = stage \/ stage' = "crashed"
      BY <2>4 DEF ListTimers, Timer, Dies
    <3>. QED
      BY <3>1, <3>2, UnchangedKeepsOrder DEF BuildInv, NothingCalledYet, buildVars
  <2>5. CASE UNCHANGED vars
    BY <2>5, UnchangedKeepsOrder DEF BuildInv, NothingCalledYet, buildVars, vars
  <2>. QED
    BY <2>1, <2>2, <2>3, <2>4, <2>5 DEF Next
<1>. QED
  BY <1>1, <1>2, PTL DEF Spec

\* The state of a build is of the types its declarations give it.
THEOREM BuildTypes == Spec => []TypeOK
<1>1. BuildInv => TypeOK
  BY DEF BuildInv, OrderInv
<1>. QED
  BY <1>1, BuildInvariant, PTL

\* No script of a package runs, and no package is published, before what it needs
\* is done (visitPackageInDependencyOrder, visitInDependencyOrderParallel): only in a
\* circle may a walk come to a package before one of its dependencies.
THEOREM DependenciesComeFirst == Spec => []DependenciesFirst
<1>1. BuildInv => DependenciesFirst
  BY DEF BuildInv, OrderInv, WaitsForAll, WalksInOrder, DependenciesFirst, Run, Leads
<1>. QED
  BY <1>1, BuildInvariant, PTL

\* runInAll() that returns well has run every package, whatever the packages need, but
\* for one whose failure nobody waits for.
THEOREM FailuresCount == Spec => []NoFailureIsPassedOver
<1>1. BuildInv => NoFailureIsPassedOver
  <2>. SUFFICES ASSUME BuildInv, call.state = "resolved", call.work = "script",
                       call.mode # "parallel", NEW p \in Packages, pkg[p] # "done"
                PROVE  p \in unhandled
    BY DEF NoFailureIsPassedOver
  <2>. USE DEF BuildInv, OrderInv
  <2>1. call.mode = "parallel-wait"
    BY DEF TypeOK, CallType, Modes, WalksInOrder
  <2>2. \A q \in Packages : pkg[q] \in {"done", "failed"}
    BY <2>1 DEF WaitsForAll
  <2>3. \A q \in Packages : p \notin Needs(q)
    BY <2>1, <2>2 DEF WaitsForAll, Run
  <2>. QED
    BY <2>1, <2>2, <2>3 DEF WaitsForAll, Dependents
<1>. QED
  BY <1>1, BuildInvariant, PTL

-----------------------------------------------------------------------------
(***************************************************************************)
(* Numbers and sequences                                                   *)
(***************************************************************************)
\* A set of natural numbers that is not empty has a least element.
LEMMA Smallest ==
  ASSUME NEW T \in SUBSET Nat, T # {}
  PROVE  \E x \in T : \A y \in T : x <= y
<1> DEFINE R == {ss \in Nat \X Nat : ss[1] < ss[2]}
<1>1. IsWellFoundedOn(R, Nat)
  BY NatLessThanWellFounded DEF OpToRel
<1>2. PICK x \in T : \A y \in T : ~ (<<y, x>> \in R)
  <2> HIDE DEF R
  <2> QED BY <1>1, WFMin
<1>3. ASSUME NEW y \in T PROVE x <= y
  <2>1. <<y, x>> \in Nat \X Nat /\ <<y, x>>[1] = y /\ <<y, x>>[2] = x
    OBVIOUS
  <2>2. ~(y < x)
    BY <1>2, <2>1
  <2> QED BY <2>2
<1> QED BY <1>3

\* What holds of 0, and of a number whenever it holds of the one before, holds of all.
LEMMA AllNumbers ==
  ASSUME NEW N \in Nat, NEW H \in SUBSET (0..N), 0 \in H, \A d \in 1..N : d - 1 \in H => d \in H
  PROVE  H = 0..N
<1> SUFFICES ASSUME 0..N \ H # {} PROVE FALSE
  OBVIOUS
<1>1. PICK m \in 0..N \ H : \A y \in 0..N \ H : m <= y
  <2>1. 0..N \ H \in SUBSET Nat
    OBVIOUS
  <2> QED BY <2>1, Smallest
<1>2. m \in 1..N /\ m - 1 \in 0..N /\ ~(m <= m - 1)
  OBVIOUS
<1>3. m - 1 \in H
  BY <1>1, <1>2
<1> QED BY <1>2, <1>3

\* SetToSeq() of a finite set enumerates it.
LEMMA SetToSeqIs ==
  ASSUME NEW S, IsFiniteSet(S)
  PROVE  /\ Cardinality(S) \in Nat /\ SetToSeq(S) \in [1..Cardinality(S) -> S]
         /\ \A x \in S : \E k \in 1..Cardinality(S) : SetToSeq(S)[k] = x
<1> DEFINE n == Cardinality(S)
           f == SetToSeq(S)
<1>1. n \in Nat /\ IsFiniteSet(1..n) /\ Cardinality(1..n) = n
  BY FS_CardinalityType, FS_Interval
<1>2. \E g : g \in Injection(1..n, S)
  <2>1. ExistsBijection(1..n, S)
    BY <1>1, FS_SameCardinalityBij
  <2> QED BY <2>1 DEF ExistsBijection, Bijection
<1>3. f \in [1..n -> S] /\ IsInjective(f)
  <2>1. \E g : g \in [1..n -> S] /\ IsInjective(g)
    BY <1>2 DEF Injection
  <2> QED BY <2>1 DEF SetToSeq
<1>4. f \in Injection(1..n, S)
  BY <1>3 DEF Injection
<1> HIDE DEF f, n
<1>5. f \in Surjection(1..n, S)
  <2>1. Cardinality(1..n) = Cardinality(S)
    BY <1>1 DEF n
  <2> QED BY <1>4, <2>1, FS_Injection
<1> QED BY <1>1, <1>3, <1>5 DEF Surjection, f, n


-----------------------------------------------------------------------------
\* The tasks with a status, of a finite set.
LEMMA HavingIs ==
  ASSUME NEW ts, NEW S, IsFiniteSet(S), NEW status
  PROVE  LET s == Having(ts, S, status)
         IN  s \in Seq(S) /\ (\A k \in 1..Len(s) : ts[s[k]] = status)
             /\ \A u \in S : ts[u] = status => \E k \in 1..Len(s) : s[k] = u
<1> DEFINE T == {u \in S : ts[u] = status}
           n == Cardinality(T)
           s == Having(ts, S, status)
<1>1. IsFiniteSet(T)
  BY FS_Subset
<1>2. n \in Nat /\ SetToSeq(T) \in [1..n -> T] /\ \A x \in T : \E k \in 1..n : SetToSeq(T)[k] = x
  <2> HIDE DEF T
  <2> QED BY <1>1, SetToSeqIs
<1>3. s = SetToSeq(T)
  BY DEF Having
<1> HIDE DEF s, n
<1>4. s \in [1..n -> T] /\ \A x \in T : \E k \in 1..n : s[k] = x
  BY <1>2, <1>3
<1>5. Len(s) = n /\ s \in Seq(S)
  BY <1>2, <1>4
<1> QED BY <1>4, <1>5 DEF s

\* A sequence without its first elements.
LEMMA WithoutType ==
  ASSUME NEW E, NEW s \in Seq(E), NEW n \in Nat
  PROVE  Without(s, n) \in Seq(E)
BY DEF Without

\* No more subtasks are shown than there are lines; if one of them is not running, none that
\* runs is left out.
LEMMA DisplayedIs ==
  ASSUME NEW ts, IsFiniteSet(DOMAIN ts), NEW log, NEW stale, NEW t, NEW max \in Nat, NEW parentFinished \in BOOLEAN,
         NEW shown, shown = Displayed(ts, log, stale, t, max, parentFinished),
         NEW running, running = {u \in Children(ts, t) : u \notin stale /\ ts[u] = "running"}
  PROVE  /\ shown \in Seq(Children(ts, t)) /\ Len(shown) \in 0..max
         /\ ~parentFinished => \/ \A k \in 1..Len(shown) : shown[k] \in running
                               \/ \A u \in running : \E k \in 1..Len(shown) : shown[k] = u
<1> DEFINE C == Children(ts, t)
           fit == {u \in C : IF parentFinished THEN ContainsLogsOrError(ts, log, u) ELSE u \notin stale}
           finished == Having(ts, fit, "finished")
           excess == Excess(Cardinality(fit), max)
           R == Having(ts, fit, "running")
           E == Without(Having(ts, fit, "error"), Excess(excess, Len(finished)))
           F == Without(finished, excess)
           W == Having(ts, fit, "waiting")
           left == R \o E \o F \o W
<1>1. shown = SubSeq(left, 1, Smaller(max, Len(left)))
  BY DEF Displayed
<1>2. IsFiniteSet(fit)
  <2>1. fit \subseteq DOMAIN ts
    BY DEF Children
  <2> HIDE DEF fit
  <2> QED BY <2>1, FS_Subset
<1>3. /\ \A status : Having(ts, fit, status) \in Seq(fit)
      /\ \A u \in fit : ts[u] = "running" => \E k \in 1..Len(R) : R[k] = u
  <2> HIDE DEF fit
  <2> QED BY <1>2, HavingIs
<1>4. excess \in Nat /\ Excess(excess, Len(finished)) \in Nat
  <2> HIDE DEF fit
  <2>1. Cardinality(fit) \in Nat /\ Len(finished) \in Nat
    BY <1>2, <1>3, FS_CardinalityType
  <2> QED BY <2>1 DEF Excess
<1>5. R \in Seq(fit) /\ E \in Seq(fit) /\ F \in Seq(fit) /\ W \in Seq(fit)
  <2> HIDE DEF fit, excess
  <2> QED BY <1>3, <1>4, WithoutType
<1>6. \A k \in 1..Len(R) : R[k] \in fit /\ ts[R[k]] = "running"
  <2> HIDE DEF fit
  <2>1. \A k \in 1..Len(R) : ts[R[k]] = "running"
    BY <1>2, HavingIs
  <2> QED BY <1>5, <2>1
<1> DEFINE n == Smaller(max, Len(left))
<1> HIDE DEF R, E, F, W
<1>7. /\ left \in Seq(fit) /\ Len(left) >= Len(R) /\ \A k \in 1..Len(R) : left[k] = R[k]
      /\ Len(left) \in Nat /\ Len(R) \in Nat
  <2> HIDE DEF fit
  <2>1. R \o E \in Seq(fit) /\ R \o E \o F \in Seq(fit)
    BY <1>5
  <2> QED BY <1>5, <2>1
<1> HIDE DEF left
<1>8. n \in 0..max /\ n <= Len(left)
  BY <1>7 DEF Smaller
<1> HIDE DEF n
<1>9. shown \in Seq(fit) /\ Len(shown) = n /\ \A k \in 1..n : shown[k] = left[k]
  <2> HIDE DEF fit
  <2> QED BY <1>1, <1>7, <1>8 DEF n
<1>10. shown \in Seq(C)
  BY <1>9
<1>11. ASSUME ~parentFinished
       PROVE  \/ \A k \in 1..Len(shown) : shown[k] \in running
              \/ \A u \in running : \E k \in 1..Len(shown) : shown[k] = u
  <2>1. \A k \in 1..Len(R) : R[k] \in running
    BY <1>6, <1>11
  <2>2. \A u \in running : \E k \in 1..Len(R) : R[k] = u
    BY <1>3, <1>11 DEF R
  <2>3. CASE n <= Len(R)
    <3>1. \A k \in 1..Len(shown) : k \in 1..Len(R) /\ shown[k] = R[k]
      BY <1>7, <1>8, <1>9, <2>3
    <3> QED BY <2>1, <3>1
  <2>4. CASE ~(n <= Len(R))
    <3>1. \A k \in 1..Len(R) : k \in 1..Len(shown) /\ shown[k] = R[k]
      BY <1>7, <1>8, <1>9, <2>4
    <3> QED BY <2>2, <3>1
  <2> QED BY <2>3, <2>4
<1> HIDE DEF C
<1> QED BY <1>8, <1>9, <1>10, <1>11 DEF C

-----------------------------------------------------------------------------
(***************************************************************************)
(* The lines of a frame.  What a list of subtasks and what a task takes are *)
(* functions by recursion, on the subtasks and on the lines given: there   *)
(* is such a function because what is taken of `max` lines depends only on *)
(* what is taken of fewer, and no more than these are asked for because    *)
(* nobody takes more than given.                                           *)
(***************************************************************************)
\* The step of renderChildren() for one subtask.
StepOf(lines, u, pf, before) ==
  LET used == lines[1 + before.extra][u][pf]
  IN  [lines |-> before.lines + used, extra |-> Leftover(before.extra, used)]

\* The right sides of the equations for the function Used of LinesOfChildren, and for Lines.
UsedBy(shown, max, pf, lines, g) ==
  [k \in 0..Len(shown) |-> IF k = 0 THEN [lines |-> 0, extra |-> max - Len(shown)]
                                    ELSE StepOf(lines, shown[k], pf, g[k - 1])]

Tabled(ts, log, stale, n, L) ==
  [max \in 1..n |-> [t \in DOMAIN ts |-> [parentFinished \in BOOLEAN |->
     LinesOfTask(ts, log, stale, t, max, parentFinished, L)]]]

\* Of up to n lines no task of T takes more than it may.
Bounded(lines, n, T) == \A m \in 1..n : \A u \in T : \A pf \in BOOLEAN : lines[m][u][pf] \in 0..m

\* Two functions agree on up to n lines.
Alike(l, g, n, T) == \A m \in 1..n : \A u \in T : \A pf \in BOOLEAN : l[m][u][pf] = g[m][u][pf]

Logged(ts, log) == \A u \in DOMAIN ts : log[u] \in Nat

AreFinished(stale, ts) == \A u \in stale : ts[u] = "finished"

\* The definitions, with their equations named.
LEMMA LinesOfChildrenIs ==
  ASSUME NEW ts, NEW log, NEW stale, NEW t, NEW max, NEW pf, NEW lines,
         NEW shown, shown = Displayed(ts, log, stale, t, max, pf),
         NEW made, made = CHOOSE g : g = UsedBy(shown, max, pf, lines, g)
  PROVE  LinesOfChildren(ts, log, stale, t, max, pf, lines)
           = IF max <= 0 THEN 0 ELSE made[Len(shown)].lines
BY DEF LinesOfChildren, UsedBy, StepOf

LEMMA LinesIs ==
  ASSUME NEW ts, NEW log, NEW stale, NEW rows
  PROVE  Lines(ts, log, stale, rows) = CHOOSE L : L = Tabled(ts, log, stale, rows, L)
BY DEF Lines, Tabled

\* The function Used is one that satisfies its equation.
LEMMA UsedIsDefined ==
  ASSUME NEW C, NEW shown \in Seq(C), NEW max, NEW pf, NEW lines,
         NEW made, made = CHOOSE g : g = UsedBy(shown, max, pf, lines, g)
  PROVE  made = UsedBy(shown, max, pf, lines, made)
<1> DEFINE n == Len(shown)
           first == [lines |-> 0, extra |-> max - n]
           next(k, before) == StepOf(lines, shown[k], pf, before)
           upTo(d, g) == [k \in 0..d |-> IF k = 0 THEN first ELSE next(k, g[k - 1])]
           H == {d \in 0..n : \E g : g = upTo(d, g)}
<1>1. n \in Nat
  OBVIOUS
<1>2. H = 0..n
  <2> HIDE DEF n, first, next
  <2>1. 0 \in H
    <3>1. [k \in 0..0 |-> first] = upTo(0, [k \in 0..0 |-> first])
      OBVIOUS
    <3>2. \E g : g = upTo(0, g)
      <4> HIDE DEF upTo
      <4> QED BY <3>1
    <3> QED BY <1>1, <3>2
  <2>2. ASSUME NEW d \in 1..n, d - 1 \in H PROVE d \in H
    <3>1. PICK g : g = upTo(d - 1, g)
      BY <2>2
    <3> DEFINE h == [k \in 0..d |-> IF k < d THEN g[k] ELSE next(d, g[d - 1])]
    <3>2. ASSUME NEW k \in 0..d PROVE h[k] = IF k = 0 THEN first ELSE next(k, h[k - 1])
      <4>1. CASE k = d
        <5>1. k # 0 /\ k - 1 \in 0..d /\ k - 1 < d
          BY <1>1, <4>1
        <5> QED BY <4>1, <5>1
      <4>2. CASE k # d
        <5>1. k \in 0..d-1 /\ h[k] = g[k]
          BY <1>1, <4>2
        <5>2. g[k] = IF k = 0 THEN first ELSE next(k, g[k - 1])
          BY <3>1, <5>1
        <5>3. k # 0 => h[k - 1] = g[k - 1]
          <6>1. k # 0 => k - 1 \in 0..d /\ k - 1 < d
            BY <1>1, <4>2
          <6> QED BY <6>1
        <5> QED BY <5>1, <5>2, <5>3
      <4> QED BY <4>1, <4>2
    <3>3. h = upTo(d, h)
      <4>1. h = [k \in 0..d |-> h[k]]
        OBVIOUS
      <4> HIDE DEF h
      <4> QED BY <3>2, <4>1
    <3> HIDE DEF h
    <3> QED BY <3>3
  <2> HIDE DEF H
  <2>3. H \in SUBSET (0..n)
    BY DEF H
  <2> QED BY <1>1, <2>1, <2>2, <2>3, AllNumbers
<1>3. \E g : g = UsedBy(shown, max, pf, lines, g)
  <2>1. n \in H
    BY <1>1, <1>2
  <2> QED BY <2>1 DEF UsedBy
<1> QED BY <1>3

\* What the subtasks shown so far took, what is left over for the others beyond their own line,
\* and these lines are no more than `max`.
LEMMA UsedFits ==
  ASSUME NEW T, NEW shown \in Seq(T), NEW max \in Nat, Len(shown) <= max, NEW pf \in BOOLEAN,
         NEW lines, Bounded(lines, max, T),
         NEW f, f = UsedBy(shown, max, pf, lines, f)
  PROVE  \A k \in 0..Len(shown) :
           /\ f[k].lines \in Nat /\ f[k].extra \in Nat
           /\ f[k].lines + f[k].extra + (Len(shown) - k) <= max
<1> PICK n \in Nat : n = Len(shown)
  OBVIOUS
<1> DEFINE Good(k) == /\ f[k].lines \in Nat /\ f[k].extra \in Nat
                      /\ f[k].lines + f[k].extra + (n - k) <= max
           H == {k \in 0..n : Good(k)}
<1>1. \A k \in 0..n : f[k] = IF k = 0 THEN [lines |-> 0, extra |-> max - n]
                                      ELSE StepOf(lines, shown[k], pf, f[k - 1])
  BY DEF UsedBy
<1>2. 0 \in H
  <2>1. f[0] = [lines |-> 0, extra |-> max - n]
    BY <1>1
  <2> QED BY <2>1
<1>3. ASSUME NEW k \in 1..n, k - 1 \in H PROVE k \in H
  <2>1. f[k] = StepOf(lines, shown[k], pf, f[k - 1])
    BY <1>1
  <2>2. PICK l, e : l = f[k - 1].lines /\ e = f[k - 1].extra
    OBVIOUS
  <2>3. l \in Nat /\ e \in Nat /\ l + e + (n - k + 1) <= max
    BY <1>3, <2>2
  <2>4. 1 + e \in 1..max /\ shown[k] \in T
    BY <2>3
  <2>5. PICK used : used = lines[1 + e][shown[k]][pf]
    OBVIOUS
  <2>6. used \in 0..(1 + e)
    BY <2>4, <2>5 DEF Bounded
  <2>7. f[k].lines = l + used /\ f[k].extra = Leftover(e, used)
    BY <2>1, <2>2, <2>5 DEF StepOf
  <2>8. Leftover(e, used) \in Nat /\ used + Leftover(e, used) <= 1 + e
    BY <2>3, <2>6 DEF Leftover
  <2> QED BY <2>3, <2>6, <2>7, <2>8
<1> HIDE DEF H
<1>4. H \in SUBSET (0..n)
  BY DEF H
<1>5. H = 0..n
  BY <1>2, <1>3, <1>4, AllNumbers
<1> QED BY <1>5 DEF H

\* Used depends on what is taken of up to `max` lines.
LEMMA UsedAlike ==
  ASSUME NEW T, NEW shown \in Seq(T), NEW max \in Nat, Len(shown) <= max, NEW pf \in BOOLEAN,
         NEW lines, Bounded(lines, max, T), NEW other, Alike(lines, other, max, T),
         NEW f, f = UsedBy(shown, max, pf, lines, f),
         NEW g, g = UsedBy(shown, max, pf, other, g)
  PROVE  \A k \in 0..Len(shown) : f[k] = g[k]
<1> PICK n \in Nat : n = Len(shown)
  OBVIOUS
<1> DEFINE H == {k \in 0..n : f[k] = g[k]}
<1>1. \A k \in 0..n : /\ f[k] = IF k = 0 THEN [lines |-> 0, extra |-> max - n]
                                         ELSE StepOf(lines, shown[k], pf, f[k - 1])
                      /\ g[k] = IF k = 0 THEN [lines |-> 0, extra |-> max - n]
                                         ELSE StepOf(other, shown[k], pf, g[k - 1])
  BY DEF UsedBy
<1>2. 0 \in H
  BY <1>1
<1>3. ASSUME NEW k \in 1..n, k - 1 \in H PROVE k \in H
  <2>1. k - 1 \in 0..n /\ f[k - 1] = g[k - 1]
    BY <1>3
  <2>2. PICK e : e = f[k - 1].extra
    OBVIOUS
  <2>3. e \in Nat /\ f[k - 1].lines \in Nat /\ f[k - 1].lines + e + (n - (k - 1)) <= max
    BY <2>1, <2>2, UsedFits
  <2>4. 1 + e \in 1..max /\ shown[k] \in T
    BY <2>3
  <2>5. lines[1 + e][shown[k]][pf] = other[1 + e][shown[k]][pf]
    BY <2>4 DEF Alike
  <2>6. f[k] = StepOf(lines, shown[k], pf, f[k - 1]) /\ g[k] = StepOf(other, shown[k], pf, f[k - 1])
    BY <1>1, <2>1
  <2> QED BY <2>2, <2>5, <2>6 DEF StepOf
<1> HIDE DEF H
<1>4. H \in SUBSET (0..n)
  BY DEF H
<1>5. H = 0..n
  BY <1>2, <1>3, <1>4, AllNumbers
<1> QED BY <1>5 DEF H

\* What the subtasks of a task take: no more than they are given, and nothing depends on what
\* `lines` tells of more.
LEMMA ChildrenFit ==
  ASSUME NEW ts, IsFiniteSet(DOMAIN ts), NEW log, NEW stale, NEW t, NEW max \in Nat,
         NEW pf \in BOOLEAN, NEW lines, Bounded(lines, max, DOMAIN ts)
  PROVE  /\ LinesOfChildren(ts, log, stale, t, max, pf, lines) \in 0..max
         /\ \A other : Alike(lines, other, max, DOMAIN ts) =>
              LinesOfChildren(ts, log, stale, t, max, pf, other)
                = LinesOfChildren(ts, log, stale, t, max, pf, lines)
<1>1. PICK shown : shown = Displayed(ts, log, stale, t, max, pf)
  OBVIOUS
<1>2. shown \in Seq(DOMAIN ts) /\ Len(shown) \in Nat /\ Len(shown) <= max
  <2>1. shown \in Seq(Children(ts, t)) /\ Len(shown) \in 0..max
    BY <1>1, DisplayedIs
  <2>2. Children(ts, t) \subseteq DOMAIN ts
    BY DEF Children
  <2> QED BY <2>1, <2>2
<1>3. ASSUME NEW l
      PROVE  \E f : /\ f = UsedBy(shown, max, pf, l, f)
                    /\ LinesOfChildren(ts, log, stale, t, max, pf, l)
                         = IF max <= 0 THEN 0 ELSE f[Len(shown)].lines
  <2>1. PICK f : f = CHOOSE g : g = UsedBy(shown, max, pf, l, g)
    OBVIOUS
  <2>2. f = UsedBy(shown, max, pf, l, f)
    BY <1>2, <2>1, UsedIsDefined
  <2>3. LinesOfChildren(ts, log, stale, t, max, pf, l) = IF max <= 0 THEN 0 ELSE f[Len(shown)].lines
    BY <1>1, <2>1, LinesOfChildrenIs
  <2> QED BY <2>2, <2>3
<1>4. PICK f : /\ f = UsedBy(shown, max, pf, lines, f)
               /\ LinesOfChildren(ts, log, stale, t, max, pf, lines)
                    = IF max <= 0 THEN 0 ELSE f[Len(shown)].lines
  BY <1>3
<1>5. LinesOfChildren(ts, log, stale, t, max, pf, lines) \in 0..max
  <2>1. Len(shown) \in 0..Len(shown)
    BY <1>2
  <2>2. /\ f[Len(shown)].lines \in Nat /\ f[Len(shown)].extra \in Nat
        /\ f[Len(shown)].lines + f[Len(shown)].extra + (Len(shown) - Len(shown)) <= max
    BY <1>2, <1>4, <2>1, UsedFits
  <2> QED BY <1>2, <1>4, <2>2
<1>6. ASSUME NEW other, Alike(lines, other, max, DOMAIN ts)
      PROVE  LinesOfChildren(ts, log, stale, t, max, pf, other)
               = LinesOfChildren(ts, log, stale, t, max, pf, lines)
  <2>1. PICK h : /\ h = UsedBy(shown, max, pf, other, h)
                 /\ LinesOfChildren(ts, log, stale, t, max, pf, other)
                      = IF max <= 0 THEN 0 ELSE h[Len(shown)].lines
    BY <1>3
  <2>2. \A k \in 0..Len(shown) : f[k] = h[k]
    BY <1>2, <1>4, <1>6, <2>1, UsedAlike
  <2>3. f[Len(shown)] = h[Len(shown)]
    BY <1>2, <2>2
  <2> QED BY <1>4, <2>1, <2>3
<1> QED BY <1>5, <1>6

\* A task takes no more lines than it may; what it takes depends on what its subtasks take of
\* fewer.
LEMMA TaskFits ==
  ASSUME NEW ts, IsFiniteSet(DOMAIN ts), NEW log, Logged(ts, log), NEW stale,
         NEW t \in DOMAIN ts, NEW max \in Nat \ {0}, NEW pf \in BOOLEAN,
         NEW lines, Bounded(lines, max - 1, DOMAIN ts)
  PROVE  /\ LinesOfTask(ts, log, stale, t, max, pf, lines) \in 0..max
         /\ \A other : Alike(lines, other, max - 1, DOMAIN ts) =>
              LinesOfTask(ts, log, stale, t, max, pf, other)
                = LinesOfTask(ts, log, stale, t, max, pf, lines)
<1>f. PICK flag \in BOOLEAN : flag = (pf \/ t \in stale)
  OBVIOUS
<1>b. PICK below : below = LinesOfChildren(ts, log, stale, t, max - 1, flag, lines)
  OBVIOUS
<1>1. max - 1 \in Nat /\ log[t] \in Nat
  BY DEF Logged
<1>2. below \in 0..(max - 1)
  BY <1>b, <1>1, ChildrenFit
<1>3. LinesOfTask(ts, log, stale, t, max, pf, lines) =
        IF pf /\ ~ContainsLogsOrError(ts, log, t) THEN 0
        ELSE 1 + below + IF below > max - 1 THEN 0 ELSE Smaller(log[t], max - 1 - below)
  BY <1>f, <1>b DEF LinesOfTask
<1>4. LinesOfTask(ts, log, stale, t, max, pf, lines) \in 0..max
  BY <1>1, <1>2, <1>3 DEF Smaller
<1>5. ASSUME NEW other, Alike(lines, other, max - 1, DOMAIN ts)
      PROVE  LinesOfTask(ts, log, stale, t, max, pf, other)
               = LinesOfTask(ts, log, stale, t, max, pf, lines)
  <2>1. LinesOfChildren(ts, log, stale, t, max - 1, flag, other) = below
    <3>1. \A l : Alike(lines, l, max - 1, DOMAIN ts) =>
            LinesOfChildren(ts, log, stale, t, max - 1, flag, l)
              = LinesOfChildren(ts, log, stale, t, max - 1, flag, lines)
      BY <1>1, ChildrenFit
    <3> QED BY <1>b, <1>5, <3>1
  <2>2. LinesOfTask(ts, log, stale, t, max, pf, other) =
          IF pf /\ ~ContainsLogsOrError(ts, log, t) THEN 0
          ELSE 1 + below + IF below > max - 1 THEN 0 ELSE Smaller(log[t], max - 1 - below)
    BY <1>f, <2>1 DEF LinesOfTask
  <2> QED BY <1>3, <2>2
<1> QED BY <1>4, <1>5

\* A function that satisfies the equation of Lines is bounded ...
LEMMA TabledFits ==
  ASSUME NEW ts, IsFiniteSet(DOMAIN ts), NEW log, Logged(ts, log), NEW stale,
         NEW rows \in Nat, NEW L, L = Tabled(ts, log, stale, rows, L)
  PROVE  Bounded(L, rows, DOMAIN ts)
<1> PICK T : T = DOMAIN ts
  OBVIOUS
<1> DEFINE H == {n \in 0..rows : Bounded(L, n, T)}
<1>1. 0 \in H
  BY DEF Bounded
<1>2. ASSUME NEW n \in 1..rows, n - 1 \in H PROVE n \in H
  <2>1. n \in Nat \ {0} /\ Bounded(L, n - 1, T)
    BY <1>2
  <2>2. ASSUME NEW u \in T, NEW pf \in BOOLEAN PROVE L[n][u][pf] \in 0..n
    <3>1. L[n][u][pf] = LinesOfTask(ts, log, stale, u, n, pf, L)
      <4>1. L[n] = [v \in T |-> [p \in BOOLEAN |-> LinesOfTask(ts, log, stale, v, n, p, L)]]
        BY DEF Tabled
      <4> QED BY <4>1
    <3> QED BY <2>1, <3>1, TaskFits
  <2>3. \A m \in 1..n : m = n \/ m \in 1..(n - 1)
    OBVIOUS
  <2> QED BY <2>1, <2>2, <2>3 DEF Bounded
<1> HIDE DEF H
<1>3. H \in SUBSET (0..rows)
  BY DEF H
<1>4. H = 0..rows
  BY <1>1, <1>2, <1>3, AllNumbers
<1> QED BY <1>4 DEF H

\* ... and there is one, so that Lines is.
LEMMA LinesAreDefined ==
  ASSUME NEW ts, IsFiniteSet(DOMAIN ts), NEW log, Logged(ts, log), NEW stale,
         NEW rows \in Nat, NEW L, L = Lines(ts, log, stale, rows)
  PROVE  L = Tabled(ts, log, stale, rows, L)
<1> PICK T : T = DOMAIN ts
  OBVIOUS
<1> DEFINE row(m, l) == [t \in T |-> [pf \in BOOLEAN |-> LinesOfTask(ts, log, stale, t, m, pf, l)]]
           H == {n \in 0..rows : \E l : l = Tabled(ts, log, stale, n, l)}
<1>1. \A n, l : Tabled(ts, log, stale, n, l) = [m \in 1..n |-> row(m, l)]
  BY DEF Tabled
<1>2. ASSUME NEW m \in Nat \ {0}, NEW l, NEW other, Bounded(l, m - 1, T), Alike(l, other, m - 1, T)
      PROVE  row(m, l) = row(m, other)
  <2>1. \A t \in T : \A pf \in BOOLEAN : LinesOfTask(ts, log, stale, t, m, pf, other)
                                          = LinesOfTask(ts, log, stale, t, m, pf, l)
    BY <1>2, TaskFits
  <2> QED BY <2>1
<1> HIDE DEF row
<1>3. 0 \in H
  <2>1. [m \in 1..0 |-> row(m, 0)] = [m \in 1..0 |-> row(m, [k \in 1..0 |-> row(k, 0)])]
    OBVIOUS
  <2>2. \E l : l = Tabled(ts, log, stale, 0, l)
    BY <1>1, <2>1
  <2> QED BY <2>2
<1>4. ASSUME NEW n \in 1..rows, n - 1 \in H PROVE n \in H
  <2>1. PICK l : l = Tabled(ts, log, stale, n - 1, l)
    BY <1>4
  <2>2. n - 1 \in Nat /\ Bounded(l, n - 1, T)
    BY <2>1, TabledFits
  <2>3. PICK g : g = [m \in 1..n |-> IF m < n THEN l[m] ELSE row(n, l)]
    OBVIOUS
  <2>4. Alike(l, g, n - 1, T)
    <3>1. \A m \in 1..(n - 1) : g[m] = l[m]
      BY <2>3
    <3> QED BY <3>1 DEF Alike
  <2>5. ASSUME NEW m \in 1..n PROVE g[m] = row(m, g)
    <3>1. g[m] = row(m, l)
      <4>1. CASE m < n
        <5>1. m \in 1..(n - 1)
          BY <4>1
        <5> QED BY <1>1, <2>1, <2>3, <4>1, <5>1
      <4>2. CASE m = n
        BY <2>3, <4>2
      <4> QED BY <4>1, <4>2
    <3>2. m \in Nat \ {0} /\ Bounded(l, m - 1, T) /\ Alike(l, g, m - 1, T)
      BY <2>2, <2>4 DEF Bounded, Alike
    <3> QED BY <1>2, <3>1, <3>2
  <2>6. g = [m \in 1..n |-> g[m]]
    BY <2>3
  <2>7. g = Tabled(ts, log, stale, n, g)
    BY <1>1, <2>5, <2>6
  <2> QED BY <2>7
<1> HIDE DEF H
<1>5. H \in SUBSET (0..rows)
  BY DEF H
<1>6. H = 0..rows
  BY <1>3, <1>4, <1>5, AllNumbers
<1>7. \E l : l = Tabled(ts, log, stale, rows, l)
  BY <1>6 DEF H
<1> QED BY <1>7, LinesIs

\* renderChildren(), renderSelf() and renderLogs() with their LineTrackers: a frame of any
\* finite list of tasks, however nested, with any numbers of log lines and on a terminal of any
\* size, takes no more lines than there are, and leaves out no running task of a parent while
\* one that has ended is shown.
THEOREM AnyFrameFits ==
  ASSUME NEW ts, IsFiniteSet(DOMAIN ts), NEW log, Logged(ts, log),
         NEW stale, AreFinished(stale, ts), NEW rows \in Nat \ {0}
  PROVE  FitsAndShowsWork(ts, log, stale, rows)
<1> PICK L : L = Lines(ts, log, stale, rows)
  OBVIOUS
<1>1. Bounded(L, rows - 1, DOMAIN ts)
  <2>1. Bounded(L, rows, DOMAIN ts)
    BY LinesAreDefined, TabledFits
  <2>2. \A m \in 1..(rows - 1) : m \in 1..rows
    OBVIOUS
  <2> QED BY <2>1, <2>2 DEF Bounded
<1>2. Frame(ts, log, stale, rows) <= rows - 1
  <2>1. rows - 1 \in Nat
    OBVIOUS
  <2>x. PICK x : x = LinesOfChildren(ts, log, stale, <<>>, rows - 1, FALSE, L)
    OBVIOUS
  <2>2. x <= rows - 1
    <3>1. x \in 0..(rows - 1)
      BY <1>1, <2>x, <2>1, ChildrenFit
    <3> QED BY <2>1, <3>1
  <2>3. Frame(ts, log, stale, rows) = x
    BY <2>x DEF Frame
  <2> QED BY <2>2, <2>3
<1>3. ASSUME NEW parent
      PROVE  LET shown == ToSet(Displayed(ts, log, stale, parent, rows - 1, FALSE))
                 running == {t \in Children(ts, parent) : ts[t] = "running"}
             IN  shown \subseteq running \/ running \subseteq shown
  <2>s. PICK shown : shown = Displayed(ts, log, stale, parent, rows - 1, FALSE)
    OBVIOUS
  <2>r. PICK running : running = {u \in Children(ts, parent) : u \notin stale /\ ts[u] = "running"}
    OBVIOUS
  <2>1. running = {t \in Children(ts, parent) : ts[t] = "running"}
    BY <2>r DEF AreFinished
  <2>2. /\ shown \in Seq(Children(ts, parent))
        /\ \/ \A k \in 1..Len(shown) : shown[k] \in running
           \/ \A u \in running : \E k \in 1..Len(shown) : shown[k] = u
    <3>m. PICK max \in Nat : max = rows - 1
      OBVIOUS
    <3>p. PICK pf \in BOOLEAN : pf = FALSE
      OBVIOUS
    <3>1. shown = Displayed(ts, log, stale, parent, max, pf)
      BY <2>s, <3>m, <3>p
    <3>2. /\ shown \in Seq(Children(ts, parent))
          /\ ~pf => \/ \A k \in 1..Len(shown) : shown[k] \in running
                    \/ \A u \in running : \E k \in 1..Len(shown) : shown[k] = u
      BY <2>r, <3>1, DisplayedIs
    <3> QED BY <3>p, <3>2
  <2>3. ToSet(shown) = {shown[k] : k \in 1..Len(shown)}
    <3>1. DOMAIN shown = 1..Len(shown)
      BY <2>2
    <3> QED BY <3>1 DEF ToSet
  <2>4. ToSet(shown) \subseteq running \/ running \subseteq ToSet(shown)
    <3> PICK S : S = ToSet(shown)
      OBVIOUS
    <3> QED BY <2>2, <2>3
  <2> QED BY <2>s, <2>1, <2>4
<1> QED BY <1>2, <1>3 DEF FitsAndShowsWork

-----------------------------------------------------------------------------
(***************************************************************************)
(* The tasks of a command are finitely many.                               *)
(***************************************************************************)
LEMMA TaskAdded ==
  ASSUME NEW ts, NEW t, IsFiniteSet(DOMAIN ts)
  PROVE  IsFiniteSet(DOMAIN AddTask(ts, t))
<1>1. DOMAIN AddTask(ts, t) = DOMAIN ts \union {t}
  BY DEF AddTask
<1> QED BY <1>1, FS_AddElement

LEMMA TaskChanged ==
  ASSUME NEW ts, NEW t, NEW status
  PROVE  /\ DOMAIN Finish(ts, t) = DOMAIN ts
         /\ DOMAIN Fail(ts, t) = DOMAIN ts
         /\ DOMAIN Mark(ts, t, status) = DOMAIN ts
BY DEF Finish, Fail, Mark

LEMMA BeginAddsFinitelyMany ==
  ASSUME IsFiniteSet(DOMAIN tasks), Begin
  PROVE  IsFiniteSet(DOMAIN tasks')
<1>1. CASE call.mode = "serial"
  BY <1>1 DEF Begin
<1>2. CASE call.mode # "serial"
  <2> DEFINE new == {SubtaskOf(p) : p \in Packages}
             f == [p \in Packages |-> SubtaskOf(p)]
  <2>1. IsFiniteSet(new)
    <3>1. f \in Surjection(Packages, new)
      BY DEF Surjection
    <3> HIDE DEF f, new
    <3> QED BY <3>1, GraphsAssumption, FS_Surjection
  <2>2. DOMAIN tasks' = DOMAIN AddTasks(tasks, new)
    BY <1>2 DEF Begin
  <2>3. DOMAIN AddTasks(tasks, new) = DOMAIN tasks \union new
    BY DEF AddTasks
  <2> HIDE DEF new
  <2> QED BY <2>1, <2>2, <2>3, FS_Union
<1> QED BY <1>1, <1>2

LEMMA CommandAddsFinitelyMany ==
  ASSUME IsFiniteSet(DOMAIN tasks), CommandStep
  PROVE  IsFiniteSet(DOMAIN tasks')
<1>1. CASE StartRun
  BY <1>1, TaskAdded DEF StartRun
<1>2. CASE RunReturns
  BY <1>2 DEF RunReturns
<1>3. CASE StartPublish
  BY <1>3, TaskAdded DEF StartPublish, GoOnTo
<1>4. CASE CheckReturns
  <2>1. CASE tasks' = AddTask(Finish(tasks, TaskOf("check")), TaskOf(Follows("check")))
    <3>1. IsFiniteSet(DOMAIN Finish(tasks, TaskOf("check")))
      BY TaskChanged
    <3> QED BY <2>1, <3>1, TaskAdded
  <2>2. CASE tasks' = Fail(Fail(tasks, TaskOf("check")), Prep)
    <3>1. DOMAIN tasks' = DOMAIN Fail(tasks, TaskOf("check"))
      BY <2>2, TaskChanged
    <3> QED BY <3>1, TaskChanged
  <2> QED BY <1>4, <2>1, <2>2 DEF CheckReturns, GoOnTo, Return
<1>5. CASE ScriptsReturn
  BY <1>5, TaskAdded, TaskChanged DEF ScriptsReturn, GoOnTo, Return
<1>6. CASE PackReturns
  BY <1>6, TaskChanged DEF PackReturns, Return
<1>7. CASE LoginReturns
  BY <1>7 DEF LoginReturns
<1>8. CASE PublishReturns
  BY <1>8 DEF PublishReturns, Return
<1> QED BY <1>1, <1>2, <1>3, <1>4, <1>5, <1>6, <1>7, <1>8 DEF CommandStep

LEMMA ExitAddsNone ==
  ASSUME NEW p \in Packages, NEW exit \in Exits, Exit(p, exit)
  PROVE  DOMAIN tasks' = DOMAIN tasks
<1>1. CASE ScriptEnds(p, exit)
  BY <1>1, TaskChanged DEF ScriptEnds
<1>2. CASE PublishEnds(p, exit)
  BY <1>2 DEF PublishEnds
<1> QED BY <1>1, <1>2 DEF Exit, ProcessExits

LEMMA ReactAddsFinitelyMany ==
  ASSUME IsFiniteSet(DOMAIN tasks), React
  PROVE  IsFiniteSet(DOMAIN tasks')
<1>1. ASSUME NEW p \in Packages, NEW d \in Packages, DependencyReady(p, d)
      PROVE  IsFiniteSet(DOMAIN tasks')
  BY <1>1, TaskChanged DEF DependencyReady
<1>2. ASSUME NEW p \in Packages, NEW d \in Packages, DependencyFailed(p, d)
      PROVE  IsFiniteSet(DOMAIN tasks')
  BY <1>2 DEF DependencyFailed
<1>3. CASE VisitTop
  BY <1>3, TaskAdded DEF VisitTop
<1>4. CASE AllVisited \/ WalkEnds \/ \E p \in Packages : Enter(p)
  BY <1>4 DEF AllVisited, WalkEnds, Enter
<1> QED BY <1>1, <1>2, <1>3, <1>4, BeginAddsFinitelyMany DEF React, Reactions

FinitelyManyTasks == IsFiniteSet(DOMAIN tasks)

\* A command makes a finite number of tasks: its stages and one for each package.
THEOREM TasksAreFinite == Spec => []FinitelyManyTasks
<1>1. Init => FinitelyManyTasks
  <2>1. Init => DOMAIN tasks = {}
    BY DEF Init
  <2> QED BY <2>1, FS_EmptySet DEF FinitelyManyTasks
<1>2. FinitelyManyTasks /\ [Next]_vars => FinitelyManyTasks'
  <2> SUFFICES ASSUME IsFiniteSet(DOMAIN tasks), [Next]_vars PROVE IsFiniteSet(DOMAIN tasks')
    BY DEF FinitelyManyTasks
  <2>1. CASE ListTimers \/ Dies
    BY <2>1 DEF ListTimers, Timer, Tick, IdleFires, Dies, taskVars
  <2>2. CASE UNCHANGED vars
    BY <2>2 DEF vars, taskVars
  <2>3. CASE \E p \in Packages, exit \in Exits : Exit(p, exit)
    BY <2>3, ExitAddsNone
  <2> QED BY <2>1, <2>2, <2>3, CommandAddsFinitelyMany, ReactAddsFinitelyMany DEF Next
<1> QED BY <1>1, <1>2, PTL DEF Spec

\* Whatever the tasks have logged, whichever of the finished ones are stale and whatever
\* the size of the terminal.
EveryFrameFits ==
  \A rows \in Nat \ {0} : \A log \in [DOMAIN tasks -> Nat] :
    \A stale \in SUBSET {t \in DOMAIN tasks : tasks[t] = "finished"} :
      FitsAndShowsWork(tasks, log, stale, rows)

\* Every frame that a command of alterior-build may draw fits and shows what runs.
THEOREM EveryFrameOfACommandFits == Spec => []EveryFrameFits
<1>1. FinitelyManyTasks => EveryFrameFits
  <2> SUFFICES ASSUME IsFiniteSet(DOMAIN tasks), NEW rows \in Nat \ {0},
                      NEW log \in [DOMAIN tasks -> Nat],
                      NEW stale \in SUBSET {t \in DOMAIN tasks : tasks[t] = "finished"}
               PROVE  FitsAndShowsWork(tasks, log, stale, rows)
    BY DEF EveryFrameFits, FinitelyManyTasks
  <2>1. Logged(tasks, log) /\ AreFinished(stale, tasks)
    BY DEF Logged, AreFinished
  <2> QED BY <2>1, AnyFrameFits
<1> QED BY <1>1, TasksAreFinite, PTL

\* The frames the runs look at, for any sizes and numbers of log lines.
THEOREM FramesFit == Spec => []FrameFits
<1>1. EveryFrameFits => FrameFits
  <2> SUFFICES ASSUME EveryFrameFits, NEW rows \in Terminals, NEW lines \in LogLines,
                      NEW fresh \in BOOLEAN
               PROVE  FitsAndShowsWork(tasks,
                        [t \in DOMAIN tasks |-> IF tasks[t] = "error" THEN lines + 1 ELSE lines],
                        {t \in DOMAIN tasks : tasks[t] = "finished" /\ ~fresh}, rows)
    BY DEF FrameFits
  <2>1. PICK log : log = [t \in DOMAIN tasks |-> IF tasks[t] = "error" THEN lines + 1 ELSE lines]
    OBVIOUS
  <2>2. PICK stale : stale = {t \in DOMAIN tasks : tasks[t] = "finished" /\ ~fresh}
    OBVIOUS
  <2>3. rows \in Nat \ {0} /\ lines \in Nat
    BY TerminalsAssumption
  <2>4. log \in [DOMAIN tasks -> Nat]
    BY <2>1, <2>3
  <2>5. stale \in SUBSET {t \in DOMAIN tasks : tasks[t] = "finished"}
    BY <2>2
  <2>6. FitsAndShowsWork(tasks, log, stale, rows)
    BY <2>3, <2>4, <2>5 DEF EveryFrameFits
  <2> QED BY <2>1, <2>2, <2>6
<1> QED BY <1>1, EveryFrameOfACommandFits, PTL
=============================================================================
