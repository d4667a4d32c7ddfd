--------------------------- MODULE WebServerProofs ---------------------------
(***************************************************************************)
(* Theorems about WebServer, for any set of calls and configurations,      *)
(* about a request to it in RouteExecution, for any number of middlewares  *)
(* and interceptors, and about WebService, for any classes, paths,         *)
(* signatures and requests.                                                *)
(***************************************************************************)
EXTENDS WebServer, RouteExecution, WebService, SequenceTheorems, FiniteSetTheorems,
        WellFoundedInduction, TLAPS

StageType == stage \in [Calls -> {"unused"} \cup InProgress \cup Settled]

LEMMA StageTypeStep == StageType /\ [Next]_vars => StageType'
<1> SUFFICES ASSUME StageType, [Next]_vars PROVE StageType'
  OBVIOUS
<1> USE DEF StageType, InProgress, Settled
<1>1. ASSUME NEW c \in Calls, Start(c) PROVE StageType'
  BY <1>1 DEF Start
<1>2. ASSUME NEW c \in Calls, Stop(c) PROVE StageType'
  BY <1>2 DEF Stop
<1>3. ASSUME NEW c \in Calls, CertificateReady(c) PROVE StageType'
  BY <1>3 DEF CertificateReady
<1>4. ASSUME NEW c \in Calls, ListenReturns(c) PROVE StageType'
  BY <1>4 DEF ListenReturns
<1>5. ASSUME NEW c \in Calls, InsecureReturns(c) \/ ControllersStart(c) PROVE StageType'
  BY <1>5 DEF InsecureReturns, ControllersStart
<1>6. CASE UNCHANGED vars
  BY <1>6 DEF vars
<1> QED
  BY <1>1, <1>2, <1>3, <1>4, <1>5, <1>6 DEF Next, Progress
-----------------------------------------------------------------------------
(***************************************************************************)
(* However calls overlap, the server that is noted listens: a call between *)
(* listen() and its return has opened its server, and no stop() can close  *)
(* it, since stop() closes the noted server only and that is another one.  *)
(***************************************************************************)
ListeningIsOpen == \A c \in Calls : stage[c] = "listening" => <<"primary", c>> \in open

NotedIsPast == httpServer # None => httpServer \in Calls /\ stage[httpServer] \notin
                                       {"unused", "generating", "listening"}

NotedInv == StageType /\ ListeningIsOpen /\ NotedIsPast /\ NotedServerListens

LEMMA NotedStep == NotedInv /\ [Next]_vars => NotedInv'
<1> SUFFICES ASSUME NotedInv, [Next]_vars PROVE NotedInv'
  OBVIOUS
<1> USE WebServerAssumption DEF NotedInv, ListeningIsOpen, NotedIsPast, NotedServerListens
<1>0. StageType'
  BY StageTypeStep
<1>1. ASSUME NEW c \in Calls, Start(c) PROVE NotedInv'
  BY <1>0, <1>1 DEF Start, StageType, Called, Listen
<1>2. ASSUME NEW c \in Calls, Stop(c) PROVE NotedInv'
  BY <1>0, <1>2 DEF Stop, StageType, Called
<1>3. ASSUME NEW c \in Calls, CertificateReady(c) PROVE NotedInv'
  BY <1>0, <1>3 DEF CertificateReady, StageType, Listen
<1>4. ASSUME NEW c \in Calls, ListenReturns(c) PROVE NotedInv'
  BY <1>0, <1>4 DEF ListenReturns, StageType, Listen
<1>5. ASSUME NEW c \in Calls, InsecureReturns(c) \/ ControllersStart(c) PROVE NotedInv'
  BY <1>0, <1>5 DEF InsecureReturns, ControllersStart, StageType
<1>6. CASE UNCHANGED vars
  BY <1>0, <1>6 DEF vars
<1> QED
  BY <1>1, <1>2, <1>3, <1>4, <1>5, <1>6 DEF Next, Progress

\* Whatever calls overlap, the server WebServer keeps in _httpServer is listening.
THEOREM NotedServerHolds == Spec => []NotedServerListens
<1>1. Init => NotedInv
  BY DEF Init, NotedInv, StageType, ListeningIsOpen, NotedIsPast, NotedServerListens, InProgress
<1>2. NotedInv => NotedServerListens
  BY DEF NotedInv
<1> QED
  BY <1>1, <1>2, NotedStep, PTL DEF Spec
-----------------------------------------------------------------------------
(***************************************************************************)
(* With one port and calls that wait for each other, at most one call is   *)
(* under way, and what listens is the noted server or the server of that   *)
(* call.                                                                   *)
(***************************************************************************)
OneUnderWay == \A c, d \in Calls : stage[c] \in InProgress /\ stage[d] \in InProgress => c = d

OpenAccounted == \A s \in open : /\ s \in {"primary"} \X Calls
                                 /\ s[2] = httpServer \/ stage[s[2]] = "listening"

NoneNotedYet == \A c \in Calls : stage[c] \in {"generating", "listening"} => httpServer = None

AfterStop == lastCall = "stop" => httpServer = None /\ AllSettled

AwaitedInv == /\ StageType
              /\ OneUnderWay /\ OpenAccounted /\ NoneNotedYet /\ AfterStop /\ ~conflict
              /\ \A c \in Calls : stage[c] = "generating" => open = {}

LEMMA AwaitedStep ==
  ASSUME AwaitedInv, ~config.insecurePort, ~overlapped', [Next]_vars
  PROVE  AwaitedInv'
<1> USE WebServerAssumption
    DEF AwaitedInv, OneUnderWay, OpenAccounted, NoneNotedYet, AfterStop, AllSettled, InProgress
<1>0. StageType'
  BY StageTypeStep
<1>1. ASSUME NEW c \in Calls, Start(c) PROVE AwaitedInv'
  <2>1. \A d \in Calls : stage[d] \notin InProgress
    BY <1>1 DEF Start, Called
  <2>2. httpServer = None => open = {}
    BY <2>1 DEF StageType
  <2>3. \A d \in Calls : d # c => stage'[d] = stage[d]
    BY <1>1 DEF Start, StageType
  <2>4. OneUnderWay' /\ AfterStop'
    BY <1>1, <2>1, <2>3 DEF Start, Called
  <2>5. CASE httpServer # None
    BY <1>0, <1>1, <2>1, <2>3, <2>4, <2>5 DEF Start, StageType
  <2>6. CASE httpServer = None /\ UNCHANGED <<open, conflict>>
    BY <1>0, <1>1, <2>1, <2>2, <2>3, <2>4, <2>6 DEF Start, StageType
  <2>7. CASE httpServer = None /\ Listen("primary", c) /\ stage'[c] = "listening"
    <3>1. ~conflict' /\ open' = {<<"primary", c>>}
      BY <2>2, <2>7 DEF Listen
    <3>. QED  BY <1>0, <1>1, <2>1, <2>3, <2>4, <2>7, <3>1 DEF Start
  <2> QED
    BY <1>1, <2>5, <2>6, <2>7 DEF Start, StageType
<1>2. ASSUME NEW c \in Calls, Stop(c) PROVE AwaitedInv'
  <2>1. \A d \in Calls : stage[d] \notin InProgress
    BY <1>2 DEF Stop, Called
  <2>2. /\ open' = open \ {<<"primary", httpServer>>} /\ httpServer' = None
        /\ stage' = [stage EXCEPT ![c] = "stopped"] /\ conflict' = conflict
    BY <1>2 DEF Stop
  <2> QED
    BY <1>0, <2>1, <2>2 DEF StageType
<1>3. ASSUME NEW c \in Calls, CertificateReady(c) PROVE AwaitedInv'
  BY <1>0, <1>3 DEF CertificateReady, StageType, Listen, history
<1>4. ASSUME NEW c \in Calls, ListenReturns(c) PROVE AwaitedInv'
  <2>1. httpServer = None /\ \A d \in Calls : stage[d] \in InProgress => d = c
    BY <1>4 DEF ListenReturns
  <2>2. /\ httpServer' = c /\ UNCHANGED <<config, open, conflict, lastCall>>
        /\ stage' = [stage EXCEPT ![c] = "serverUp"]
    BY <1>4 DEF ListenReturns, history
  <2>3. \A s \in open : s \in {"primary"} \X Calls /\ s[2] = c
    BY <2>1
  <2>4. \A d \in Calls : stage'[d] \in InProgress => d = c /\ stage'[d] = "serverUp"
    BY <2>1, <2>2 DEF StageType
  <2>5. lastCall # "stop"
    BY <1>4 DEF ListenReturns
  <2> QED
    BY <1>0, <2>2, <2>3, <2>4, <2>5
<1>5. ASSUME NEW c \in Calls, InsecureReturns(c) \/ ControllersStart(c) PROVE AwaitedInv'
  BY <1>0, <1>5 DEF InsecureReturns, ControllersStart, StageType, history
<1>6. CASE UNCHANGED vars
  BY <1>0, <1>6 DEF vars
<1> QED
  BY <1>1, <1>2, <1>3, <1>4, <1>5, <1>6 DEF Next, Progress

ConditionalInv == StageType /\ (Awaited => AwaitedInv)

LEMMA ConditionalInvariant == Spec => []ConditionalInv
<1>1. Init => ConditionalInv
  BY DEF Init, ConditionalInv, AwaitedInv, StageType, OneUnderWay, OpenAccounted, NoneNotedYet,
         AfterStop, InProgress
<1>2. ConditionalInv /\ [Next]_vars => ConditionalInv'
  <2> SUFFICES ASSUME ConditionalInv, [Next]_vars PROVE ConditionalInv'
    OBVIOUS
  <2>1. config' = config /\ (overlapped => overlapped')
    <3>1. ASSUME NEW c \in Calls, Start(c) \/ Stop(c)
          PROVE  config' = config /\ (overlapped => overlapped')
      BY <3>1, Zenon DEF Start, Stop, Called
    <3>2. ASSUME NEW c \in Calls,
                 CertificateReady(c) \/ ListenReturns(c) \/ InsecureReturns(c) \/ ControllersStart(c)
          PROVE  config' = config /\ overlapped' = overlapped
      BY <3>2 DEF CertificateReady, ListenReturns, InsecureReturns, ControllersStart, history
    <3>3. ASSUME UNCHANGED vars PROVE config' = config /\ overlapped' = overlapped
      BY <3>3 DEF vars
    <3> QED
      BY <3>1, <3>2, <3>3 DEF Next, Progress
  <2>2. StageType'
    BY StageTypeStep DEF ConditionalInv
  <2>3. ASSUME Awaited' PROVE AwaitedInv'
    BY <2>1, <2>3, AwaitedStep DEF ConditionalInv, Awaited
  <2> QED
    BY <2>2, <2>3 DEF ConditionalInv
<1> QED
  BY <1>1, <1>2, PTL DEF Spec

\* Calls that are awaited never ask for a port in use.
THEOREM AwaitedCallsNeverConflict == Spec => []NoConflict
<1>1. ConditionalInv => NoConflict
  BY DEF ConditionalInv, AwaitedInv, NoConflict
<1> QED
  BY <1>1, ConditionalInvariant, PTL

\* With one port and awaited calls, nothing listens once the server was stopped.
THEOREM AwaitedStopCloses == Spec => []AwaitedStopClosesPorts
<1>1. ConditionalInv => AwaitedStopClosesPorts
  BY WebServerAssumption
  DEF ConditionalInv, AwaitedInv, AwaitedStopClosesPorts, StopClosesPorts, OpenAccounted, AfterStop,
      AllSettled, InProgress
<1> QED
  BY <1>1, ConditionalInvariant, PTL

-----------------------------------------------------------------------------
(***************************************************************************)
(* A start() that has a server up, whatever becomes of its second port,    *)
(* leaves it noted until the controllers know: only a stop() forgets it.   *)
(***************************************************************************)
UpIsNoted == \A c \in Calls : HasServer(c) /\ c \notin stoppedUnder => httpServer # None

LEMMA UpIsNotedStep == StageType /\ UpIsNoted /\ [Next]_vars => UpIsNoted'
<1> SUFFICES ASSUME StageType, UpIsNoted, [Next]_vars PROVE UpIsNoted'
  OBVIOUS
<1> USE WebServerAssumption DEF UpIsNoted, StageType, HasServer
<1>1. ASSUME NEW c \in Calls, Start(c) PROVE UpIsNoted'
  BY <1>1 DEF Start, Called
<1>2. ASSUME NEW c \in Calls, Stop(c) PROVE UpIsNoted'
  BY <1>2 DEF Stop, Called
<1>3. ASSUME NEW c \in Calls, CertificateReady(c) PROVE UpIsNoted'
  BY <1>3 DEF CertificateReady, history
<1>4. ASSUME NEW c \in Calls, ListenReturns(c) PROVE UpIsNoted'
  BY <1>4 DEF ListenReturns, history
<1>5. ASSUME NEW c \in Calls, InsecureReturns(c) \/ ControllersStart(c) PROVE UpIsNoted'
  BY <1>5 DEF InsecureReturns, ControllersStart, history
<1>6. CASE UNCHANGED vars
  BY <1>6 DEF vars
<1>. QED
  BY <1>1, <1>2, <1>3, <1>4, <1>5, <1>6 DEF Next, Progress

(***************************************************************************)
(* Whatever the configuration, however calls overlap and however often the *)
(* server was started and stopped: a start() calls altOnListen() while the *)
(* service listens, unless a stop() came between its server and that call. *)
(***************************************************************************)
THEOREM ControllersHearInTime == Spec => ControllersHearOfListening
<1> DEFINE Heard == \A c \in Calls : ControllersStart(c) /\ c \notin stoppedUnder
                       => httpServer # None /\ <<"primary", httpServer>> \in open
<1>1. Init => NotedInv /\ UpIsNoted
  BY DEF Init, NotedInv, UpIsNoted, HasServer, StageType, ListeningIsOpen, NotedIsPast,
         NotedServerListens, InProgress
<1>2. NotedInv /\ UpIsNoted /\ [Next]_vars => [Heard]_vars
  BY DEF ControllersStart, HasServer, UpIsNoted, NotedInv, NotedServerListens
<1>3. NotedInv /\ UpIsNoted /\ [Next]_vars => NotedInv' /\ UpIsNoted'
  BY NotedStep, UpIsNotedStep DEF NotedInv
<1>. QED  BY <1>1, <1>2, <1>3, PTL DEF Spec, ControllersHearOfListening

-----------------------------------------------------------------------------
(***************************************************************************)
(* A request: the theorems about RouteExecution.                           *)
(***************************************************************************)
ResponseType == [status : Codes, wire : {0} \cup Codes, ended : BOOLEAN]

\* RequestTypes in the parts the actions keep together, and the bound on `at` that makes
\* it inductive.
Control ==
    /\ pc \in {"accepted"} \cup Running \cup Terminal
    /\ at \in 1..(NumMiddleware + 1)
    /\ pc = "accepted" => at = 1
    /\ pc = "middleware" => at \in 1..NumMiddleware
    /\ depth \in 0..NumInterceptors
Exchange ==
    /\ options \in Options /\ response \in ResponseType
    /\ outcome \in Errors \cup Results \cup {NoOutcome}
    /\ pc = "lastChance" => outcome \in Errors
Flags == loud \in BOOLEAN /\ touched \in BOOLEAN /\ filtered \in BOOLEAN /\ late \in BOOLEAN
Reporting == timers \subseteq {"long", "hung"}

Types == Control /\ Exchange /\ Flags /\ Reporting

LEMMA TypesImplyRequestTypes == Types => RequestTypes
BY DEF Types, RequestTypes, Control, Exchange, Flags, Reporting, ResponseType

LEMMA AnsweredType ==
    ASSUME Exchange, NEW status \in Codes
    PROVE  Answered(status) \in ResponseType /\ Begun(status) \in ResponseType
BY DEF Exchange, Answered, Begun, HeadersSent, ResponseType

LEMMA StatusForType ==
    ASSUME Exchange, NEW result \in Results
    PROVE  StatusFor(result) \in Codes
<1>1. result.status \in Statuses \/ result.kind \in {"undefined", "null", "json", "unencodable"}
  BY DEF Results
<1>2. response.status \in Codes /\ 200 \in Codes /\ 204 \in Codes /\ Statuses \subseteq Codes
  BY DEF Exchange, ResponseType, Codes
<1>. QED  BY <1>1, <1>2 DEF StatusFor, NoContent

\* What handleError() throws, and what it leaves of the response: it answers with the
\* status that tells the error, it was silent, or the application answered.
Handling(err, thrown) ==
    /\ thrown \in Errors \cup {NoOutcome}
    /\ response' \in ResponseType /\ touched' \in BOOLEAN
    /\ touched => touched'
    /\ thrown # NoOutcome => /\ UNCHANGED touched
                             /\ response'.wire = response.wire /\ response'.ended = response.ended
                             /\ \/ HeadersSent \/ options.onErrorThrows
                                \/ options.handleError = "throws"
                                \/ err.kind \in {"nullish", "unserializable", "unsendable"}
    /\ thrown = NoOutcome =>
          \/ /\ options.handleError = "silent" /\ err \in PlainErrors
             /\ UNCHANGED <<response, touched>>
          \/ touched' /\ response'.ended /\ response'.wire # 0
          \/ /\ ~HeadersSent /\ UNCHANGED touched
             /\ response'.ended /\ response'.wire # 0
             /\ response'.wire \in Telling(err)

LEMMA KindsDiffer ==
    /\ \A e \in HttpErrors : e.kind \in {"http", "unsendable"} /\ e.status \in Statuses
    /\ \A e \in PlainErrors : e.kind \in {"nullish", "unserializable", "other"}
    /\ \A o \in Results : o.kind \in {"undefined", "null", "json", "unencodable", "body", "empty",
                                      "unknownBody"}
    /\ \A e \in Errors : e # NoOutcome
    /\ Other \in PlainErrors
    /\ NoOutcome.kind = "none"
    /\ Statuses \subseteq Nat \ {0} /\ Codes \subseteq Nat \ {0}
BY StatusesAssumption
   DEF HttpErrors, PlainErrors, Errors, Results, Other, NoOutcome, Outcome, Codes

LEMMA HandleErrorIs ==
    ASSUME Exchange, touched \in BOOLEAN, NEW err \in Errors, NEW thrown, HandleError(err, thrown)
    PROVE  Handling(err, thrown)
<1> USE KindsDiffer
<1>0. /\ \A s \in Codes : Answered(s) \in ResponseType /\ Begun(s) \in ResponseType
      /\ response \in ResponseType /\ 500 \in Codes /\ Statuses \subseteq Codes
      /\ Other \in Errors /\ NoOutcome \notin Errors
  BY AnsweredType DEF Exchange, Codes, Errors
<1>1. \A s \in Codes : /\ Answered(s).ended /\ Answered(s).wire # 0
                       /\ ~HeadersSent => Answered(s).wire = s
                       /\ Begun(s).wire = response.wire /\ Begun(s).ended = response.ended
  BY <1>0 DEF Answered, Begun, HeadersSent, ResponseType
<1>2. CASE TellHttpError(err, thrown)
  <2>1. err \in HttpErrors /\ UNCHANGED touched /\ err.status \in Codes /\ err.status \in Statuses
    BY <1>0, <1>2 DEF TellHttpError
  <2>2. CASE err.kind = "http" /\ ~HeadersSent
    <3>1. thrown = NoOutcome /\ response' = Answered(err.status)
      BY <1>2, <2>2 DEF TellHttpError
    <3>2. Telling(err) = {err.status}
      BY <2>1, <2>2 DEF Telling
    <3>. QED  BY <1>0, <1>1, <2>1, <2>2, <3>1, <3>2 DEF Handling
  <2>3. CASE ~(err.kind = "http" /\ ~HeadersSent)
    <3>1. thrown \in Errors /\ response' = Begun(err.status)
      BY <1>0, <1>2, <2>3 DEF TellHttpError
    <3>2. HeadersSent \/ err.kind = "unsendable"
      BY <2>1, <2>3
    <3>. QED  BY <1>0, <1>1, <2>1, <3>1, <3>2 DEF Handling
  <2>. QED  BY <2>2, <2>3
<1>3. CASE /\ err.kind = "nullish"
           /\ thrown = Other /\ UNCHANGED <<response, touched>>
  BY <1>0, <1>3 DEF Handling
<1>4. ASSUME err \in PlainErrors, options.onErrorThrows \/ options.handleError = "throws",
             thrown \in Errors, UNCHANGED <<response, touched>>
      PROVE  Handling(err, thrown)
  BY <1>0, <1>4 DEF Handling
<1>5. ASSUME err \in PlainErrors, err.kind # "nullish", TellError(err, thrown)
      PROVE  Handling(err, thrown)
  <2>1. UNCHANGED touched
    BY <1>5 DEF TellError
  <2>2. CASE err.kind = "other" /\ ~HeadersSent
    <3>1. thrown = NoOutcome /\ response' = Answered(500)
      BY <1>5, <2>2 DEF TellError
    <3>2. Telling(err) = {500}
      BY <1>5 DEF Telling
    <3>. QED  BY <1>0, <1>1, <2>1, <2>2, <3>1, <3>2 DEF Handling
  <2>3. CASE ~(err.kind = "other" /\ ~HeadersSent)
    <3>1. thrown \in Errors /\ response' = Begun(500)
      BY <1>0, <1>5, <2>3 DEF TellError
    <3>2. HeadersSent \/ err.kind = "unserializable"
      BY <1>5, <2>3
    <3>. QED  BY <1>0, <1>1, <2>1, <3>1, <3>2 DEF Handling
  <2>. QED  BY <2>2, <2>3
<1>6. ASSUME err \in PlainErrors, HookHandles(thrown)
      PROVE  Handling(err, thrown)
  <2>1. CASE /\ options.handleError = "answers" /\ thrown = NoOutcome /\ touched' = TRUE
             /\ \E s \in Statuses : response' = Answered(s)
    <3>1. PICK s \in Statuses : response' = Answered(s)
      BY <2>1
    <3>2. s \in Codes /\ response'.ended /\ response'.wire # 0 /\ response' \in ResponseType
      BY <1>0, <1>1, <3>1
    <3>3. thrown = NoOutcome /\ touched'
      BY <2>1
    <3>. QED  BY <3>2, <3>3 DEF Handling
  <2>2. CASE /\ options.handleError = "silent"
             /\ thrown = NoOutcome /\ UNCHANGED <<response, touched>>
    BY <1>0, <1>6, <2>2 DEF Handling
  <2>3. CASE /\ options.handleError = "throws"
             /\ thrown \in Errors /\ UNCHANGED <<response, touched>>
    BY <1>4, <1>6, <2>3
  <2>. QED  BY <1>6, <2>1, <2>2, <2>3 DEF HookHandles
<1>. QED  BY <1>2, <1>3, <1>4, <1>5, <1>6 DEF HandleError

(***************************************************************************)
(* How a request goes on after handleError() and a report: by what they    *)
(* did, without how.                                                       *)
(***************************************************************************)
\* The report ends well and the request goes on to `next`, or it throws.
Reported(out, next, orElse) ==
    \/ /\ timers' = IF loud THEN {} ELSE timers
       /\ pc' = next /\ outcome' = out /\ late' = late
    \/ /\ options.reporterThrows
       /\ pc' = orElse /\ outcome' \in Errors /\ timers' = timers
       /\ late' = (late \/ response'.ended)

\* The error path of the middleware, the parameters and the method.
Aborted(err) ==
    \E thrown \in Errors \cup {NoOutcome} :
        /\ Handling(err, thrown)
        /\ \/ thrown = NoOutcome /\ Reported(err, "done", "lastChance")
           \/ /\ thrown # NoOutcome /\ pc = "ascending"
              /\ Reported(thrown, "lastChance", "lastChance")
           \/ /\ thrown # NoOutcome /\ pc # "ascending"
              /\ pc' = "lastChance" /\ outcome' = thrown /\ UNCHANGED <<timers, late>>

Sent ==
    \E thrown \in SendThrows(outcome) :
        /\ UNCHANGED touched
        /\ IF thrown = NoOutcome
           THEN response' = Answered(StatusFor(outcome)) /\ Reported(outcome, "done", "lastChance")
           ELSE response' = Begun(StatusFor(outcome)) /\ Reported(thrown, "lastChance", "lastChance")

LEMMA AbortedIs ==
    ASSUME Types, NEW err \in Errors,
           MiddlewareFails(err) \/ ParamsFail(err) \/ (ExecutionFailed /\ err = outcome)
    PROVE  /\ Aborted(err) /\ UNCHANGED <<options, at, depth, loud, filtered>>
           /\ pc \in {"middleware", "params", "ascending"}
<1> USE DEF Types, Flags
<1>1. ASSUME pc \in {"middleware", "params"}, Abort(err) PROVE Aborted(err) /\ UNCHANGED <<options, at, depth, loud, filtered>>
  <2>1. PICK thrown \in Errors \cup {NoOutcome} :
            /\ HandleError(err, thrown)
            /\ IF thrown = NoOutcome THEN ReportFinished(err, "done", "lastChance")
               ELSE pc' = "lastChance" /\ outcome' = thrown /\ UNCHANGED reporting
    BY <1>1 DEF Abort
  <2>2. Handling(err, thrown)
    BY <2>1, HandleErrorIs
  <2>3. CASE thrown = NoOutcome
    <3>1. ReportFinished(err, "done", "lastChance")
      BY <2>1, <2>3
    <3>2. Reported(err, "done", "lastChance") /\ UNCHANGED <<loud, filtered>>
      BY <3>1 DEF ReportFinished, Reported
    <3>. QED  BY <1>1, <2>2, <2>3, <3>2 DEF Aborted, Abort
  <2>4. CASE thrown # NoOutcome
    <3>1. pc' = "lastChance" /\ outcome' = thrown /\ UNCHANGED <<timers, late, loud, filtered>>
      BY <2>1, <2>4 DEF reporting
    <3>. QED  BY <1>1, <2>2, <2>4, <3>1 DEF Aborted, Abort
  <2>. QED  BY <2>3, <2>4
<1>2. ASSUME ExecutionFailed, err = outcome
      PROVE  Aborted(err) /\ UNCHANGED <<options, at, depth, loud, filtered>> /\ pc = "ascending"
  <2>1. PICK thrown \in Errors \cup {NoOutcome} :
            /\ HandleError(err, thrown)
            /\ IF thrown = NoOutcome THEN ReportFinished(err, "done", "lastChance")
               ELSE ReportFinished(thrown, "lastChance", "lastChance")
    BY <1>2 DEF ExecutionFailed
  <2>2. Handling(err, thrown) /\ pc = "ascending" /\ UNCHANGED <<options, at, depth>>
    BY <1>2, <2>1, HandleErrorIs DEF ExecutionFailed
  <2>3. CASE thrown = NoOutcome
    <3>1. ReportFinished(err, "done", "lastChance")
      BY <2>1, <2>3
    <3>2. Reported(err, "done", "lastChance") /\ UNCHANGED <<loud, filtered>>
      BY <3>1 DEF ReportFinished, Reported
    <3>. QED  BY <2>2, <2>3, <3>2 DEF Aborted
  <2>4. CASE thrown # NoOutcome
    <3>1. ReportFinished(thrown, "lastChance", "lastChance")
      BY <2>1, <2>4
    <3>2. Reported(thrown, "lastChance", "lastChance") /\ UNCHANGED <<loud, filtered>>
      BY <3>1 DEF ReportFinished, Reported
    <3>. QED  BY <2>2, <2>4, <3>2 DEF Aborted
  <2>. QED  BY <2>3, <2>4
<1>. QED  BY <1>1, <1>2 DEF MiddlewareFails, ParamsFail

LEMMA SentIs ==
    ASSUME SendResult
    PROVE  /\ Sent /\ UNCHANGED <<options, at, depth, touched, loud, filtered>>
           /\ pc = "ascending" /\ outcome \in Results
<1>1. PICK thrown \in SendThrows(outcome) :
        IF thrown = NoOutcome
        THEN response' = Answered(StatusFor(outcome)) /\ ReportFinished(outcome, "done", "lastChance")
        ELSE response' = Begun(StatusFor(outcome)) /\ ReportFinished(thrown, "lastChance", "lastChance")
  BY DEF SendResult
<1>2. UNCHANGED <<options, at, depth, touched>> /\ pc = "ascending" /\ outcome \in Results
  BY DEF SendResult
<1>3. CASE thrown = NoOutcome
  <2>1. response' = Answered(StatusFor(outcome)) /\ ReportFinished(outcome, "done", "lastChance")
    BY <1>1, <1>3
  <2>2. Reported(outcome, "done", "lastChance") /\ UNCHANGED <<loud, filtered>>
    BY <2>1 DEF ReportFinished, Reported
  <2>. QED  BY <1>2, <1>3, <2>1, <2>2 DEF Sent
<1>4. CASE thrown # NoOutcome
  <2>1. response' = Begun(StatusFor(outcome)) /\ ReportFinished(thrown, "lastChance", "lastChance")
    BY <1>1, <1>4
  <2>2. Reported(thrown, "lastChance", "lastChance") /\ UNCHANGED <<loud, filtered>>
    BY <2>1 DEF ReportFinished, Reported
  <2>. QED  BY <1>2, <1>4, <2>1, <2>2 DEF Sent
<1>. QED  BY <1>3, <1>4

\* The three ways out of the last-chance handler.
AtLast ==
    \/ /\ outcome.kind = "nullish"
       /\ pc' = "lost" /\ UNCHANGED <<outcome, response, touched, timers, late>>
    \/ Handling(outcome, NoOutcome) /\ Reported(outcome, "done", "lost")
    \/ \E thrown \in Errors : /\ Handling(outcome, thrown)
                              /\ pc' = "lost" /\ UNCHANGED <<outcome, timers, late>>

LEMMA LastIs ==
    ASSUME Types, LastChance
    PROVE  /\ AtLast /\ UNCHANGED <<options, at, depth, loud, filtered>>
           /\ pc = "lastChance" /\ outcome \in Errors
<1>1. outcome \in Errors /\ pc = "lastChance" /\ UNCHANGED <<options, at, depth>>
  BY DEF LastChance, Types, Exchange
<1>2. CASE /\ outcome.kind = "nullish"
           /\ pc' = "lost" /\ UNCHANGED <<outcome, response, reporting, touched>>
  BY <1>1, <1>2 DEF AtLast, reporting
<1>3. ASSUME NEW thrown \in Errors \cup {NoOutcome}, HandleError(outcome, thrown),
             IF thrown = NoOutcome THEN ReportFinished(outcome, "done", "lost")
             ELSE pc' = "lost" /\ UNCHANGED <<outcome, reporting>>
      PROVE  AtLast /\ UNCHANGED <<loud, filtered>>
  <2>1. Handling(outcome, thrown)
    BY <1>1, <1>3, HandleErrorIs DEF Types, Flags
  <2>2. CASE thrown = NoOutcome
    <3>1. ReportFinished(outcome, "done", "lost")
      BY <1>3, <2>2
    <3>2. Reported(outcome, "done", "lost") /\ UNCHANGED <<loud, filtered>>
      BY <3>1 DEF ReportFinished, Reported
    <3>. QED  BY <2>1, <2>2, <3>2 DEF AtLast
  <2>3. CASE thrown # NoOutcome
    <3>1. pc' = "lost" /\ UNCHANGED <<outcome, timers, late, loud, filtered>>
      BY <1>3, <2>3 DEF reporting
    <3>. QED  BY <1>3, <2>1, <2>3, <3>1 DEF AtLast
  <2>. QED  BY <2>2, <2>3
<1>4. \/ /\ outcome.kind = "nullish"
         /\ pc' = "lost" /\ UNCHANGED <<outcome, response, reporting, touched>>
      \/ \E thrown \in Errors \cup {NoOutcome} :
            /\ HandleError(outcome, thrown)
            /\ IF thrown = NoOutcome THEN ReportFinished(outcome, "done", "lost")
               ELSE pc' = "lost" /\ UNCHANGED <<outcome, reporting>>
  BY DEF LastChance
<1>. QED  BY <1>1, <1>2, <1>3, <1>4

\* The steps that neither handle an error nor send anything.
Quiet ==
    \/ Accept \/ MiddlewareNext \/ MiddlewareStops \/ ParamsResolve
    \/ EnterInterceptor \/ CallMethod
    \/ \E out \in Errors \cup Results :
          ShortCircuit(out) \/ MethodSettles(out) \/ LeaveInterceptor(out)
    \/ FiltersChange \/ TimerFires \/ UNCHANGED requestVars

LEMMA QuietIs ==
    ASSUME Types, Quiet
    PROVE  /\ UNCHANGED <<options, response, touched, late>>
           /\ outcome' \in Errors \cup Results \cup {NoOutcome}
           /\ \/ pc' = pc /\ (pc \in {"done", "lost", "lastChance"} => UNCHANGED outcome)
              \/ pc \notin {"done", "lost", "lastChance", "abandoned"} /\ pc' \notin {"done", "lost"}
           /\ pc' = "lastChance" => outcome' \in Errors
<1> USE DEF Types, Exchange
<1>1. CASE Accept
  BY <1>1, KindsDiffer DEF Accept, reporting, Errors
<1>2. CASE MiddlewareNext \/ MiddlewareStops
  BY <1>2 DEF MiddlewareNext, MiddlewareStops, reporting
<1>3. CASE ParamsResolve
  BY <1>3, KindsDiffer DEF ParamsResolve, Errors
<1>4. CASE EnterInterceptor \/ CallMethod
  BY <1>4 DEF EnterInterceptor, CallMethod, reporting
<1>5. ASSUME NEW out \in Errors \cup Results,
             ShortCircuit(out) \/ MethodSettles(out) \/ LeaveInterceptor(out)
      PROVE  /\ UNCHANGED <<options, response, touched, late>>
             /\ outcome' \in Errors \cup Results
             /\ pc \in {"descending", "handler", "ascending"} /\ pc' = "ascending"
  BY <1>5 DEF ShortCircuit, MethodSettles, LeaveInterceptor, reporting
<1>6. CASE FiltersChange \/ TimerFires \/ UNCHANGED requestVars
  BY <1>6 DEF FiltersChange, TimerFires, requestVars
<1>. QED  BY <1>1, <1>2, <1>3, <1>4, <1>5, <1>6 DEF Quiet

\* Every step of a request is one of these.
LEMMA RequestSteps ==
    ASSUME Types, [RequestNext]_requestVars
    PROVE  \/ \E err \in Errors : /\ Aborted(err) /\ UNCHANGED <<options, at, depth, loud, filtered>>
                                  /\ pc \in {"middleware", "params", "ascending"}
           \/ /\ Sent /\ UNCHANGED <<options, at, depth, touched, loud, filtered>>
              /\ pc = "ascending" /\ outcome \in Results
           \/ /\ AtLast /\ UNCHANGED <<options, at, depth, loud, filtered>>
              /\ pc = "lastChance" /\ outcome \in Errors
           \/ UserSetsStatus \/ UserResponds \/ Quiet
<1>1. ASSUME NEW err \in Errors, MiddlewareFails(err) \/ ParamsFail(err)
      PROVE  /\ Aborted(err) /\ UNCHANGED <<options, at, depth, loud, filtered>>
             /\ pc \in {"middleware", "params", "ascending"}
  BY <1>1, AbortedIs
<1>2. ASSUME ExecutionFailed
      PROVE  /\ Aborted(outcome) /\ UNCHANGED <<options, at, depth, loud, filtered>>
             /\ pc \in {"middleware", "params", "ascending"} /\ outcome \in Errors
  <2>1. outcome \in Errors
    BY <1>2 DEF ExecutionFailed
  <2>. QED  BY <1>2, <2>1, AbortedIs
<1>. QED  BY <1>1, <1>2, SentIs, LastIs DEF RequestNext, Execute, Quiet

LEMMA TypesInit == RequestInit => Types
<1>1. RequestInit => Control
  BY CountsAssumption DEF RequestInit, Control
<1>2. RequestInit => Exchange
  BY DEF RequestInit, Exchange, ResponseType, Codes
<1>3. RequestInit => Flags
  BY Zenon DEF RequestInit, Flags
<1>4. RequestInit => Reporting
  BY DEF RequestInit, Reporting
<1> QED
  BY <1>1, <1>2, <1>3, <1>4 DEF Types

LEMMA TypesStep == Types /\ [RequestNext]_requestVars => Types'
<1> SUFFICES ASSUME Types, [RequestNext]_requestVars PROVE Types'
  OBVIOUS
<1>1. ASSUME NEW err \in Errors, Aborted(err), UNCHANGED <<options, at, depth, loud, filtered>>,
             pc \in {"middleware", "params", "ascending"}
      PROVE  Types'
  <2>1. PICK thrown \in Errors \cup {NoOutcome} :
            /\ Handling(err, thrown)
            /\ \/ thrown = NoOutcome /\ Reported(err, "done", "lastChance")
               \/ /\ thrown # NoOutcome /\ pc = "ascending"
                  /\ Reported(thrown, "lastChance", "lastChance")
               \/ /\ thrown # NoOutcome /\ pc # "ascending"
                  /\ pc' = "lastChance" /\ outcome' = thrown /\ UNCHANGED <<timers, late>>
    BY <1>1 DEF Aborted
  <2>2. response' \in ResponseType /\ touched' \in BOOLEAN
    BY <2>1 DEF Handling
  <2>3. response'.ended \in BOOLEAN
    BY <2>2 DEF ResponseType
  <2>4. /\ pc' \in {"done", "lastChance"} /\ outcome' \in Errors
        /\ timers' \in {{}, timers} /\ late' \in BOOLEAN
    BY <1>1, <2>1, <2>3 DEF Reported, Types, Flags
  <2>5. Control' /\ Flags' /\ Reporting'
    BY <1>1, <2>2, <2>4 DEF Types, Control, Flags, Reporting, Running, Terminal
  <2>6. Exchange'
    BY <1>1, <2>2, <2>4 DEF Types, Exchange
  <2>. QED  BY <2>5, <2>6 DEF Types
<1>2. ASSUME Sent, UNCHANGED <<options, at, depth, touched, loud, filtered>>,
             pc = "ascending", outcome \in Results
      PROVE  Types'
  <2>1. PICK thrown \in SendThrows(outcome) :
            IF thrown = NoOutcome
            THEN response' = Answered(StatusFor(outcome)) /\ Reported(outcome, "done", "lastChance")
            ELSE response' = Begun(StatusFor(outcome)) /\ Reported(thrown, "lastChance", "lastChance")
    BY <1>2 DEF Sent
  <2>2. thrown \in Errors \cup {NoOutcome}
    BY <1>2, KindsDiffer DEF SendThrows, Results, Errors
  <2>3. response' \in ResponseType
    BY <1>2, <2>1, StatusForType, AnsweredType DEF Types
  <2>4. response'.ended \in BOOLEAN
    BY <2>3 DEF ResponseType
  <2>5. /\ pc' \in {"done", "lastChance"} /\ outcome' \in Errors \cup Results
        /\ pc' = "lastChance" => outcome' \in Errors
        /\ timers' \in {{}, timers} /\ late' \in BOOLEAN
    <3>1. CASE thrown = NoOutcome
      BY <1>2, <2>1, <2>4, <3>1 DEF Reported, Types, Flags
    <3>2. CASE thrown # NoOutcome
      BY <1>2, <2>1, <2>2, <2>4, <3>2 DEF Reported, Types, Flags
    <3>. QED  BY <3>1, <3>2
  <2>6. Control' /\ Flags' /\ Reporting'
    BY <1>2, <2>5 DEF Types, Control, Flags, Reporting, Running, Terminal
  <2>7. Exchange'
    BY <1>2, <2>3, <2>5 DEF Types, Exchange
  <2>. QED  BY <2>6, <2>7 DEF Types
<1>3. ASSUME AtLast, UNCHANGED <<options, at, depth, loud, filtered>>,
             pc = "lastChance", outcome \in Errors
      PROVE  Types'
  <2>1. /\ response' \in ResponseType /\ touched' \in BOOLEAN
        /\ pc' \in {"done", "lost"} /\ outcome' \in Errors
        /\ timers' \in {{}, timers} /\ late' \in BOOLEAN
    <3>1. CASE /\ outcome.kind = "nullish"
               /\ pc' = "lost" /\ UNCHANGED <<outcome, response, touched, timers, late>>
      BY <1>3, <3>1 DEF Types, Exchange, Flags
    <3>2. CASE Handling(outcome, NoOutcome) /\ Reported(outcome, "done", "lost")
      <4>1. response' \in ResponseType /\ touched' \in BOOLEAN
        BY <3>2 DEF Handling
      <4>2. response'.ended \in BOOLEAN
        BY <4>1 DEF ResponseType
      <4>. QED  BY <1>3, <3>2, <4>1, <4>2 DEF Reported, Types, Flags
    <3>3. ASSUME NEW thrown \in Errors, Handling(outcome, thrown),
                 pc' = "lost", UNCHANGED <<outcome, timers, late>>
          PROVE  /\ response' \in ResponseType /\ touched' \in BOOLEAN
                 /\ pc' \in {"done", "lost"} /\ outcome' \in Errors
                 /\ timers' \in {{}, timers} /\ late' \in BOOLEAN
      BY <1>3, <3>3 DEF Handling, Types, Flags
    <3>. QED  BY <1>3, <3>1, <3>2, <3>3 DEF AtLast
  <2>2. Control' /\ Flags' /\ Reporting'
    BY <1>3, <2>1 DEF Types, Control, Flags, Reporting, Running, Terminal
  <2>3. Exchange'
    BY <1>3, <2>1 DEF Types, Exchange
  <2>. QED  BY <2>2, <2>3 DEF Types
<1>4. CASE UserSetsStatus
  <2>1. response' \in ResponseType
    BY <1>4, AnsweredType DEF UserSetsStatus, Types, Codes
  <2>. QED
    BY <1>4, <2>1 DEF UserSetsStatus, Types, Control, Exchange, Flags, Reporting, reporting
<1>5. CASE UserResponds
  <2>1. Answered(response.status) \in ResponseType
    BY AnsweredType DEF Types, Exchange, ResponseType
  <2>2. response' \in ResponseType
    BY <1>5, <2>1 DEF UserResponds, ResponseType
  <2>. QED
    BY <1>5, <2>2 DEF UserResponds, Types, Control, Exchange, Flags, Reporting, reporting
<1>6. CASE Quiet
  <2>1. Exchange' /\ touched' \in BOOLEAN /\ late' \in BOOLEAN
    BY <1>6, QuietIs DEF Types, Exchange, Flags
  <2>2. Control' /\ loud' \in BOOLEAN /\ filtered' \in BOOLEAN /\ Reporting'
    <3> USE CountsAssumption DEF Types, Control, Flags, Reporting, Running, Terminal, reporting
    <3>1. CASE Accept
      BY <3>1 DEF Accept
    <3>2. CASE MiddlewareNext
      <4>1. at \in 1..NumMiddleware /\ NumMiddleware \in Nat
        BY <3>2 DEF MiddlewareNext
      <4>2. /\ at + 1 \in 1..(NumMiddleware + 1)
            /\ at # NumMiddleware => at + 1 \in 1..NumMiddleware
        BY <4>1
      <4>3. at' = at + 1 /\ pc' = IF at = NumMiddleware THEN "params" ELSE "middleware"
        BY <3>2 DEF MiddlewareNext
      <4>4. UNCHANGED <<depth, timers, loud, filtered>>
        BY <3>2 DEF MiddlewareNext
      <4>. QED  BY <4>2, <4>3, <4>4
    <3>9. CASE MiddlewareStops
      BY <3>9 DEF MiddlewareStops
    <3>3. CASE ParamsResolve
      BY <3>3 DEF ParamsResolve
    <3>4. CASE EnterInterceptor
      <4>1. /\ depth + 1 \in 0..NumInterceptors /\ depth' = depth + 1 /\ pc' = pc
            /\ UNCHANGED <<at, timers, loud, filtered>>
        BY <3>4 DEF EnterInterceptor
      <4>. QED  BY <4>1
    <3>10. CASE CallMethod
      BY <3>10 DEF CallMethod
    <3>5. ASSUME NEW out \in Errors \cup Results,
                 ShortCircuit(out) \/ MethodSettles(out) \/ LeaveInterceptor(out)
          PROVE  Control' /\ loud' \in BOOLEAN /\ filtered' \in BOOLEAN /\ Reporting'
      <4>1. CASE ShortCircuit(out)
        <5>1. /\ depth - 1 \in 0..NumInterceptors /\ depth' = depth - 1 /\ pc' = "ascending"
              /\ UNCHANGED <<at, timers, loud, filtered>>
          BY <4>1 DEF ShortCircuit
        <5>. QED  BY <5>1
      <4>2. CASE MethodSettles(out)
        BY <4>2 DEF MethodSettles
      <4>3. CASE LeaveInterceptor(out)
        <5>1. /\ depth - 1 \in 0..NumInterceptors /\ depth' = depth - 1 /\ pc' = pc
              /\ UNCHANGED <<at, timers, loud, filtered>>
          BY <4>3 DEF LeaveInterceptor
        <5>. QED  BY <5>1
      <4>. QED  BY <3>5, <4>1, <4>2, <4>3
    <3>6. CASE FiltersChange
      BY <3>6 DEF FiltersChange
    <3>7. CASE TimerFires
      BY <3>7 DEF TimerFires
    <3>8. CASE UNCHANGED requestVars
      BY <3>8 DEF requestVars
    <3>. QED  BY <1>6, <3>1, <3>2, <3>3, <3>4, <3>5, <3>6, <3>7, <3>8, <3>9, <3>10 DEF Quiet
  <2>. QED  BY <2>1, <2>2 DEF Types, Flags
<1>. QED  BY <1>1, <1>2, <1>3, <1>4, <1>5, <1>6, RequestSteps

\* The variables of a request keep their types.
THEOREM RouteTypes == RequestSpec => []RequestTypes
BY TypesInit, TypesStep, TypesImplyRequestTypes, PTL DEF RequestSpec
-----------------------------------------------------------------------------
(***************************************************************************)
(* What is true before a request is over: timers are set only between the  *)
(* reports 'starting' and 'finished', and never while the filters keep the *)
(* request quiet; a report can throw after the end of the response only on *)
(* the way to mount(); whatever else is sent before that application code  *)
(* sent; and the status code is the application's.                         *)
(***************************************************************************)
TimersInv ==
    ~filtered =>
        /\ ~loud => timers = {}
        /\ pc \in {"accepted", "middleware", "params", "abandoned", "done"} => timers = {}
        /\ pc \in {"lastChance", "lost"} /\ ~options.reporterThrows => timers = {}

Sending ==
    /\ late => options.reporterThrows /\ response.ended /\ pc \in {"lastChance", "done", "lost"}
    /\ response.ended => HeadersSent
    /\ HeadersSent => touched \/ late \/ pc = "done" \/ (pc = "lost" /\ response.ended /\ options.reporterThrows)

Unset == pc \notin {"lastChance", "done", "lost"} => response.status \in Statuses \cup {200}

RequestInv == Types /\ TimersInv /\ Sending /\ Unset

LEMMA TimersStep == Types /\ TimersInv /\ [RequestNext]_requestVars => TimersInv'
<1> SUFFICES ASSUME Types, TimersInv, [RequestNext]_requestVars PROVE TimersInv'
  OBVIOUS
<1>1. ASSUME NEW err \in Errors, Aborted(err), UNCHANGED <<options, at, depth, loud, filtered>>,
             pc \in {"middleware", "params", "ascending"}
      PROVE  TimersInv'
  BY <1>1 DEF Aborted, Reported, TimersInv
<1>2. ASSUME Sent, UNCHANGED <<options, at, depth, touched, loud, filtered>>, pc = "ascending"
      PROVE  TimersInv'
  BY <1>2 DEF Sent, Reported, TimersInv
<1>3. ASSUME AtLast, UNCHANGED <<options, at, depth, loud, filtered>>, pc = "lastChance"
      PROVE  TimersInv'
  BY <1>3 DEF AtLast, Reported, TimersInv
<1>4. CASE UserSetsStatus \/ UserResponds
  BY <1>4 DEF UserSetsStatus, UserResponds, reporting, TimersInv
<1>5. CASE Quiet
  <2> USE DEF TimersInv, reporting
  <2>1. CASE Accept
    BY <2>1 DEF Accept
  <2>2. CASE MiddlewareNext \/ MiddlewareStops
    BY <2>2 DEF MiddlewareNext, MiddlewareStops
  <2>3. CASE ParamsResolve
    BY <2>3 DEF ParamsResolve
  <2>4. CASE EnterInterceptor \/ CallMethod
    BY <2>4 DEF EnterInterceptor, CallMethod
  <2>5. ASSUME NEW out, ShortCircuit(out) \/ MethodSettles(out) \/ LeaveInterceptor(out)
        PROVE  TimersInv'
    BY <2>5 DEF ShortCircuit, MethodSettles, LeaveInterceptor
  <2>6. CASE FiltersChange
    BY <2>6 DEF FiltersChange
  <2>7. CASE TimerFires
    BY <2>7 DEF TimerFires
  <2>8. CASE UNCHANGED requestVars
    BY <2>8 DEF requestVars
  <2>. QED  BY <1>5, <2>1, <2>2, <2>3, <2>4, <2>5, <2>6, <2>7, <2>8 DEF Quiet
<1>. QED  BY <1>1, <1>2, <1>3, <1>4, <1>5, RequestSteps

\* What is left of a response when the status code is set and something throws.
LEMMA BegunIs ==
    ASSUME Exchange, NEW s \in Codes
    PROVE  Begun(s).wire = response.wire /\ Begun(s).ended = response.ended /\ Begun(s).status = s
BY DEF Exchange, ResponseType, Begun

LEMMA AnsweredIs ==
    ASSUME Exchange, NEW s \in Codes
    PROVE  /\ Answered(s).ended /\ Answered(s).wire # 0 /\ Answered(s).status = s
           /\ ~HeadersSent => Answered(s).wire = s
BY KindsDiffer DEF Exchange, ResponseType, Answered, HeadersSent

LEMMA SendingStep == Types /\ Sending /\ [RequestNext]_requestVars => Sending'
<1> SUFFICES ASSUME Types, Sending, [RequestNext]_requestVars PROVE Sending'
  OBVIOUS
<1> USE DEF Sending, HeadersSent
<1>1. ASSUME NEW err \in Errors, NEW thrown \in Errors \cup {NoOutcome}, Handling(err, thrown)
      PROVE  /\ response.ended => response'.ended
             /\ response'.ended => response'.wire # 0
             /\ thrown = NoOutcome /\ response'.wire # 0 =>
                    response'.ended \/ touched' \/ response'.wire = response.wire
             /\ thrown # NoOutcome => response'.wire = response.wire
             /\ (touched => touched') /\ response'.ended \in BOOLEAN /\ late \in BOOLEAN
  <2>1. response'.ended \in BOOLEAN /\ late \in BOOLEAN
    BY <1>1 DEF Handling, ResponseType, Types, Flags
  <2>. QED  BY <1>1, <2>1 DEF Handling
<1>2. ASSUME NEW err \in Errors, Aborted(err), UNCHANGED <<options, at, depth, loud, filtered>>,
             pc \in {"middleware", "params", "ascending"}
      PROVE  Sending'
  <2>1. PICK thrown \in Errors \cup {NoOutcome} :
            /\ Handling(err, thrown)
            /\ \/ thrown = NoOutcome /\ Reported(err, "done", "lastChance")
               \/ /\ thrown # NoOutcome /\ pc = "ascending"
                  /\ Reported(thrown, "lastChance", "lastChance")
               \/ /\ thrown # NoOutcome /\ pc # "ascending"
                  /\ pc' = "lastChance" /\ outcome' = thrown /\ UNCHANGED <<timers, late>>
    BY <1>2 DEF Aborted
  <2>2. ~late /\ (HeadersSent => touched) /\ (touched => touched')
    BY <1>2, <2>1 DEF Handling
  <2>3. CASE thrown = NoOutcome
    <3>1. Reported(err, "done", "lastChance")
      BY <2>1, <2>3
    <3>2. CASE pc' = "done" /\ late' = late
      BY <1>1, <2>1, <2>2, <2>3, <3>2
    <3>3. CASE options.reporterThrows /\ pc' = "lastChance" /\ late' = (late \/ response'.ended)
      BY <1>1, <1>2, <2>1, <2>2, <2>3, <3>3
    <3>. QED  BY <3>1, <3>2, <3>3 DEF Reported
  <2>4. CASE thrown # NoOutcome
    <3>1. CASE pc' = "lastChance" /\ late' = late
      BY <1>1, <1>2, <2>1, <2>2, <2>4, <3>1
    <3>2. CASE options.reporterThrows /\ pc' = "lastChance" /\ late' = (late \/ response'.ended)
      BY <1>1, <1>2, <2>1, <2>2, <2>4, <3>2
    <3>3. Reported(thrown, "lastChance", "lastChance") \/ (pc' = "lastChance" /\ UNCHANGED late)
      BY <2>1, <2>4
    <3>. QED  BY <3>1, <3>2, <3>3 DEF Reported
  <2>. QED  BY <2>3, <2>4
<1>3. ASSUME Sent, UNCHANGED <<options, at, depth, touched, loud, filtered>>,
             pc = "ascending", outcome \in Results
      PROVE  Sending'
  <2>1. PICK thrown \in SendThrows(outcome) :
            IF thrown = NoOutcome
            THEN response' = Answered(StatusFor(outcome)) /\ Reported(outcome, "done", "lastChance")
            ELSE response' = Begun(StatusFor(outcome)) /\ Reported(thrown, "lastChance", "lastChance")
    BY <1>3 DEF Sent
  <2>2. ~late /\ (HeadersSent => touched) /\ StatusFor(outcome) \in Codes
    BY <1>3, StatusForType DEF Types
  <2>3. CASE thrown = NoOutcome
    <3>1. response'.ended /\ response'.wire # 0
      BY <2>1, <2>2, <2>3, AnsweredIs DEF Types
    <3>. QED  BY <1>3, <2>1, <2>2, <2>3, <3>1 DEF Reported
  <2>4. CASE thrown # NoOutcome
    <3>1. response'.ended = response.ended /\ response'.wire = response.wire
      BY <2>1, <2>2, <2>4, BegunIs DEF Types
    <3>. QED  BY <1>3, <2>1, <2>2, <2>4, <3>1 DEF Reported
  <2>. QED  BY <2>3, <2>4
<1>4. ASSUME AtLast, UNCHANGED <<options, at, depth, loud, filtered>>,
             pc = "lastChance", outcome \in Errors
      PROVE  Sending'
  <2>1. CASE /\ outcome.kind = "nullish"
             /\ pc' = "lost" /\ UNCHANGED <<outcome, response, touched, timers, late>>
    BY <1>4, <2>1
  <2>2. CASE Handling(outcome, NoOutcome) /\ Reported(outcome, "done", "lost")
    <3>1. /\ response.ended => response'.ended
          /\ response'.ended => response'.wire # 0
          /\ response'.wire # 0 => response'.ended \/ touched' \/ response'.wire = response.wire
          /\ touched => touched'
          /\ response'.ended \in BOOLEAN /\ late \in BOOLEAN
      BY <1>1, <1>4, <2>2
    <3>2. CASE pc' = "done" /\ late' = late
      BY <1>4, <3>1, <3>2
    <3>3. CASE options.reporterThrows /\ pc' = "lost" /\ late' = (late \/ response'.ended)
      BY <1>4, <3>1, <3>3
    <3>. QED  BY <2>2, <3>2, <3>3 DEF Reported
  <2>3. ASSUME NEW thrown \in Errors, Handling(outcome, thrown),
               pc' = "lost", UNCHANGED <<outcome, timers, late>>
        PROVE  Sending'
    <3>1. UNCHANGED touched /\ response'.wire = response.wire /\ response'.ended = response.ended
      BY <2>3, KindsDiffer DEF Handling
    <3>. QED  BY <1>4, <2>3, <3>1
  <2>. QED  BY <1>4, <2>1, <2>2, <2>3 DEF AtLast
<1>5. CASE UserSetsStatus
  <2>1. PICK s \in Statuses : response' = Begun(s)
    BY <1>5 DEF UserSetsStatus
  <2>2. response'.ended = response.ended /\ response'.wire = response.wire
    BY <2>1, BegunIs DEF Types, Codes
  <2>3. UNCHANGED <<options, pc, touched, late>>
    BY <1>5 DEF UserSetsStatus, reporting
  <2>. QED  BY <2>2, <2>3
<1>6. CASE UserResponds
  <2>1. response.status \in Codes /\ Answered(response.status) \in ResponseType
    BY AnsweredType DEF Types, Exchange, ResponseType
  <2>2. response'.wire # 0 /\ touched'
    BY <1>6, <2>1, AnsweredIs DEF UserResponds, Types, ResponseType
  <2>3. UNCHANGED <<options, pc, late>> /\ ~response.ended
    BY <1>6 DEF UserResponds, reporting
  <2>. QED  BY <2>2, <2>3
<1>7. CASE Quiet
  <2>1. /\ UNCHANGED <<options, response, touched, late>>
        /\ \/ pc' = pc
           \/ pc \notin {"done", "lost", "lastChance"} /\ pc' \notin {"done", "lost"}
    BY <1>7, QuietIs
  <2>. QED  BY <2>1
<1>. QED  BY <1>2, <1>3, <1>4, <1>5, <1>6, <1>7, RequestSteps

LEMMA UnsetStep == Types /\ Unset /\ [RequestNext]_requestVars => Unset'
<1> SUFFICES ASSUME Types, Unset, [RequestNext]_requestVars PROVE Unset'
  OBVIOUS
<1> USE DEF Unset
<1>1. ASSUME NEW err, Aborted(err) PROVE Unset'
  BY <1>1 DEF Aborted, Reported
<1>2. CASE Sent
  BY <1>2 DEF Sent, Reported
<1>3. CASE AtLast
  BY <1>3 DEF AtLast, Reported
<1>4. CASE UserSetsStatus
  BY <1>4, BegunIs DEF UserSetsStatus, Types, Codes
<1>5. CASE UserResponds
  <2>1. response.status \in Codes
    BY DEF Types, Exchange, ResponseType
  <2>2. response'.status = response.status /\ pc' = pc
    BY <1>5, <2>1, AnsweredIs, AnsweredType DEF UserResponds, Types, ResponseType
  <2>. QED  BY <2>2
<1>6. CASE Quiet
  BY <1>6, QuietIs
<1>. QED  BY <1>1, <1>2, <1>3, <1>4, <1>5, <1>6, RequestSteps

LEMMA RequestInvInit == RequestInit => RequestInv
<1>1. RequestInit => TimersInv /\ Sending /\ Unset
  BY DEF RequestInit, TimersInv, Sending, Unset, HeadersSent
<1>. QED  BY <1>1, TypesInit DEF RequestInv

LEMMA RequestInvStep == RequestInv /\ [RequestNext]_requestVars => RequestInv'
BY TypesStep, TimersStep, SendingStep, UnsetStep DEF RequestInv

\* With constant filters, no timer is left behind by a request that is over, but for
\* one that is lost because its report threw.
THEOREM RequestLeavesNoTimer == RequestSpec => []QuietWhenDone
<1>1. RequestInv => QuietWhenDone
  BY DEF RequestInv, TimersInv, QuietWhenDone
<1> QED
  BY <1>1, RequestInvInit, RequestInvStep, PTL DEF RequestSpec

-----------------------------------------------------------------------------
\* The three claims about the end of a request, together.
Ends == AnsweredWhenDone /\ LostOnlyWhenBegun /\ ErrorsReachClient

\* A step after which they hold, when nothing of what they are about is disturbed.
LEMMA EndsStay ==
    ASSUME Ends, UNCHANGED <<options, response, touched, late>>,
           \/ pc' = pc /\ (pc \in {"done", "lost"} => UNCHANGED outcome)
           \/ pc' \notin {"done", "lost"}
    PROVE  Ends'
BY DEF Ends, AnsweredWhenDone, LostOnlyWhenBegun, ErrorsReachClient, Telling

\* What was handled without throwing and reported, or sent, is told.
LEMMA HandledIsTold ==
    ASSUME Types, Sending, NEW err \in Errors, Handling(err, NoOutcome), UNCHANGED options,
           pc \notin {"done", "lost"}, Reported(err, "done", "lastChance")
    PROVE  Ends'
<1>1. \/ options.handleError = "silent" /\ err \in PlainErrors /\ UNCHANGED <<response, touched>>
      \/ touched' /\ response'.ended
      \/ response'.ended /\ response'.wire \in Telling(err)
  BY DEF Handling
<1>2. CASE pc' = "done" /\ outcome' = err /\ UNCHANGED late
  <2>1. AnsweredWhenDone' /\ LostOnlyWhenBegun'
    BY <1>1, <1>2 DEF AnsweredWhenDone, LostOnlyWhenBegun
  <2>2. ErrorsReachClient'
    <3>1. CASE UNCHANGED <<response, touched>>
      BY <1>2, <3>1 DEF ErrorsReachClient, Sending
    <3>2. CASE touched'
      BY <3>2 DEF ErrorsReachClient
    <3>3. CASE response'.wire \in Telling(err)
      BY <1>2, <3>3 DEF ErrorsReachClient, Telling
    <3>. QED  BY <1>1, <3>1, <3>2, <3>3
  <2>. QED  BY <2>1, <2>2 DEF Ends
<1>3. CASE pc' = "lastChance"
  BY <1>3 DEF Ends, AnsweredWhenDone, LostOnlyWhenBegun, ErrorsReachClient
<1>. QED  BY <1>2, <1>3 DEF Reported

\* The status a result is sent with tells it, when nothing was sent before.
LEMMA StatusTells ==
    ASSUME Types, Unset, ~HeadersSent, pc = "ascending", NEW result \in Results,
           NoOutcome \in SendThrows(result)
    PROVE  StatusFor(result) \in Telling(result)
<1>1. response.status \in Statuses \cup {200}
  BY DEF Unset
<1>2. result.kind \in {"undefined", "null", "json", "body", "empty"}
  BY KindsDiffer DEF SendThrows, Other, Outcome, NoOutcome
<1>3. result \notin PlainErrors
  BY <1>2, KindsDiffer
<1>. QED  BY <1>1, <1>2, <1>3 DEF StatusFor, NoContent, Telling

LEMMA EndsStep == RequestInv /\ Ends /\ [RequestNext]_requestVars => Ends'
<1> SUFFICES ASSUME Types, Sending, Unset, Ends, [RequestNext]_requestVars PROVE Ends'
  BY DEF RequestInv
<1>0. ASSUME pc' \notin {"done", "lost"} PROVE Ends'
  BY <1>0 DEF Ends, AnsweredWhenDone, LostOnlyWhenBegun, ErrorsReachClient
<1>1. ASSUME NEW err \in Errors, Aborted(err), UNCHANGED <<options, at, depth, loud, filtered>>,
             pc \in {"middleware", "params", "ascending"}
      PROVE  Ends'
  <2>1. PICK thrown \in Errors \cup {NoOutcome} :
            /\ Handling(err, thrown)
            /\ \/ thrown = NoOutcome /\ Reported(err, "done", "lastChance")
               \/ /\ thrown # NoOutcome /\ pc = "ascending"
                  /\ Reported(thrown, "lastChance", "lastChance")
               \/ /\ thrown # NoOutcome /\ pc # "ascending"
                  /\ pc' = "lastChance" /\ outcome' = thrown /\ UNCHANGED <<timers, late>>
    BY <1>1 DEF Aborted
  <2>2. CASE thrown = NoOutcome
    BY <1>1, <2>1, <2>2, HandledIsTold
  <2>3. CASE thrown # NoOutcome
    BY <1>0, <2>1, <2>3 DEF Reported
  <2>. QED  BY <2>2, <2>3
<1>2. ASSUME Sent, UNCHANGED <<options, at, depth, touched, loud, filtered>>,
             pc = "ascending", outcome \in Results
      PROVE  Ends'
  <2>1. PICK thrown \in SendThrows(outcome) :
            IF thrown = NoOutcome
            THEN response' = Answered(StatusFor(outcome)) /\ Reported(outcome, "done", "lastChance")
            ELSE response' = Begun(StatusFor(outcome)) /\ Reported(thrown, "lastChance", "lastChance")
    BY <1>2 DEF Sent
  <2>2. CASE pc' = "done" /\ thrown = NoOutcome
    <3>1. response' = Answered(StatusFor(outcome)) /\ outcome' = outcome /\ UNCHANGED late
      BY <2>1, <2>2 DEF Reported
    <3>2. StatusFor(outcome) \in Codes
      BY <1>2, StatusForType DEF Types
    <3>3. response'.ended
      BY <3>1, <3>2, AnsweredIs DEF Types
    <3>4. CASE HeadersSent
      <4>1. touched'
        BY <1>2, <3>4 DEF Sending
      <4>. QED  BY <2>2, <3>3, <4>1 DEF Ends, AnsweredWhenDone, LostOnlyWhenBegun, ErrorsReachClient
    <3>5. CASE ~HeadersSent
      <4>1. StatusFor(outcome) \in Telling(outcome)
        BY <1>2, <2>2, <3>5, StatusTells
      <4>2. response'.wire \in Telling(outcome)
        BY <3>1, <3>2, <3>5, <4>1, AnsweredIs DEF Types
      <4>3. ErrorsReachClient'
        BY <3>1, <4>2 DEF ErrorsReachClient, Telling
      <4>. QED  BY <2>2, <3>3, <4>3 DEF Ends, AnsweredWhenDone, LostOnlyWhenBegun
    <3>. QED  BY <3>4, <3>5
  <2>3. CASE ~(pc' = "done" /\ thrown = NoOutcome)
    BY <1>0, <2>1, <2>3 DEF Reported
  <2>. QED  BY <2>2, <2>3
<1>3. ASSUME AtLast, UNCHANGED <<options, at, depth, loud, filtered>>,
             pc = "lastChance", outcome \in Errors
      PROVE  Ends'
  <2>0. ASSUME pc' = "lost", LostOnlyWhenBegun' PROVE Ends'
    BY <2>0 DEF Ends, AnsweredWhenDone, ErrorsReachClient
  <2>1. CASE /\ outcome.kind = "nullish"
             /\ pc' = "lost" /\ UNCHANGED <<outcome, response, touched, timers, late>>
    BY <2>0, <2>1 DEF LostOnlyWhenBegun
  <2>2. CASE Handling(outcome, NoOutcome) /\ Reported(outcome, "done", "lost")
    <3>1. CASE pc' = "done"
      BY <1>3, <2>2, <3>1, HandledIsTold DEF Reported
    <3>2. CASE pc' # "done"
      <4>1. options.reporterThrows /\ pc' = "lost"
        BY <2>2, <3>2 DEF Reported
      <4>2. options.handleError = "silent" \/ touched' \/ response'.ended
        BY <2>2 DEF Handling
      <4>3. LostOnlyWhenBegun'
        BY <1>3, <4>1, <4>2 DEF LostOnlyWhenBegun
      <4>. QED  BY <2>0, <4>1, <4>3
    <3>. QED  BY <3>1, <3>2
  <2>3. ASSUME NEW thrown \in Errors, Handling(outcome, thrown),
               pc' = "lost", UNCHANGED <<outcome, timers, late>>
        PROVE  Ends'
    <3>1. /\ UNCHANGED touched /\ response'.ended = response.ended
          /\ \/ HeadersSent \/ options.onErrorThrows
             \/ options.handleError = "throws"
             \/ outcome.kind \in {"nullish", "unserializable", "unsendable"}
      BY <2>3, KindsDiffer DEF Handling
    <3>2. HeadersSent => touched \/ (options.reporterThrows /\ response.ended)
      BY <1>3 DEF Sending
    <3>3. LostOnlyWhenBegun'
      BY <1>3, <2>3, <3>1, <3>2 DEF LostOnlyWhenBegun
    <3>. QED  BY <2>0, <2>3, <3>3
  <2>. QED  BY <1>3, <2>1, <2>2, <2>3 DEF AtLast
<1>4. CASE UserSetsStatus \/ UserResponds
  BY <1>0, <1>4 DEF UserSetsStatus, UserResponds, Running
<1>5. CASE Quiet
  BY <1>5, QuietIs, EndsStay
<1>. QED  BY <1>1, <1>2, <1>3, <1>4, <1>5, RequestSteps

LEMMA EndsInit == RequestInit => Ends
BY DEF RequestInit, Ends, AnsweredWhenDone, LostOnlyWhenBegun, ErrorsReachClient

\* A request that execute() or the last-chance handler finished was answered.
THEOREM DoneIsAnswered == RequestSpec => []AnsweredWhenDone
<1>1. Ends => AnsweredWhenDone
  BY DEF Ends
<1> QED
  BY <1>1, RequestInvInit, RequestInvStep, EndsInit, EndsStep, PTL DEF RequestSpec

\* A request is only lost after application code began the response, when one of its
\* hooks throws where nothing can be told any more, or for an error that cannot be told.
THEOREM LossesExplained == RequestSpec => []LostOnlyWhenBegun
<1>1. Ends => LostOnlyWhenBegun
  BY DEF Ends
<1> QED
  BY <1>1, RequestInvInit, RequestInvStep, EndsInit, EndsStep, PTL DEF RequestSpec

\* Unless application code sent something itself, the client sees the status of the
\* last thing that went right or wrong before the response ended.
THEOREM ClientLearnsOfErrors == RequestSpec => []ErrorsReachClient
<1>1. Ends => ErrorsReachClient
  BY DEF Ends
<1> QED
  BY <1>1, RequestInvInit, RequestInvStep, EndsInit, EndsStep, PTL DEF RequestSpec

-----------------------------------------------------------------------------
(* WebService.  First what is true of numbers and sequences. *)

\* A set of natural numbers that is not empty has a least element.
LEMMA Smallest ==
  ASSUME NEW T \in SUBSET Nat, T # {}
  PROVE  \E x \in T : \A y \in T : x <= y
<1> DEFINE R == {ss \in Nat \X Nat : ss[1] < ss[2]}
<1>1. IsWellFoundedOn(R, Nat)
  BY NatLessThanWellFounded DEF OpToRel
<1>2. PICK x \in T : \A y \in T : ~ (<<y, x>> \in R)
  <2> HIDE DEF R
  <2> QED BY <1>1, WFMin
<1>3. ASSUME NEW y \in T PROVE x <= y
  <2>1. <<y, x>> \in Nat \X Nat /\ <<y, x>>[1] = y /\ <<y, x>>[2] = x
    OBVIOUS
  <2>2. ~(y < x)
    BY <1>2, <2>1
  <2> QED BY <2>2
<1> QED BY <1>3

\* The least and the greatest of some positions.
LEMMA MinIs ==
  ASSUME NEW T \in SUBSET Nat, T # {}
  PROVE  Min(T) \in T /\ \A y \in T : Min(T) <= y
BY Smallest DEF Min

LEMMA MaxIs ==
  ASSUME NEW n \in Nat, NEW T \in SUBSET (1..n), T # {}
  PROVE  Max(T) \in T /\ \A y \in T : Max(T) >= y
<1> DEFINE U == {k \in Nat : \A y \in T : y <= k}
<1>1. U \in SUBSET Nat /\ n \in U
  OBVIOUS
<1>2. PICK k \in U : \A v \in U : k <= v
  <2> HIDE DEF U
  <2> QED BY <1>1, Smallest
<1>3. k \in Nat /\ \A y \in T : y \in Nat /\ y <= k
  OBVIOUS
<1>4. k \in T
  <2> SUFFICES ASSUME k \notin T PROVE FALSE
    OBVIOUS
  <2>1. PICK y \in T : y \in 1..n
    OBVIOUS
  <2>2. k - 1 \in Nat /\ \A x \in T : x <= k - 1
    BY <1>3, <2>1
  <2>3. k - 1 \in U
    BY <2>2
  <2> HIDE DEF U
  <2> QED BY <1>2, <1>3, <2>3
<1> QED BY <1>3, <1>4 DEF Max

\* A function may be defined at each number from what it is at a smaller one: p says at
\* which, and G what it is then.
LeadsBack(p, N) == p \in [1..N -> Nat] /\ \A d \in 1..N : p[d] < d

Recursive(f, N, V, z, p, G) ==
  f \in [0..N -> V] /\ f[0] = z /\ \A d \in 1..N : f[d] = G[d][f[p[d]]]

LEMMA RecursionIsDefined ==
  ASSUME NEW N \in Nat, NEW V, NEW z \in V, NEW p, LeadsBack(p, N), NEW G \in [1..N -> [V -> V]]
  PROVE  \E f : Recursive(f, N, V, z, p, G)
<1> USE DEF LeadsBack
<1> DEFINE Defined(n) == \E f \in [0..n -> V] : f[0] = z /\ \A d \in 1..n : f[d] = G[d][f[p[d]]]
           T == {n \in 0..N : ~Defined(n)}
<1>1. Defined(0)
  <2> DEFINE g == [d \in 0..0 |-> z]
  <2>1. g \in [0..0 -> V] /\ g[0] = z
    OBVIOUS
  <2> HIDE DEF g
  <2> QED BY <2>1
<1>2. ASSUME NEW m \in 1..N, Defined(m - 1) PROVE Defined(m)
  <2>1. PICK f \in [0..(m - 1) -> V] : f[0] = z /\ \A d \in 1..(m - 1) : f[d] = G[d][f[p[d]]]
    BY <1>2
  <2> DEFINE g == [d \in 0..m |-> IF d = m THEN G[m][f[p[m]]] ELSE f[d]]
  <2>2. p[m] \in 0..(m - 1)
    OBVIOUS
  <2>3. g \in [0..m -> V]
    BY <2>2
  <2>4. g[0] = z
    BY <2>1
  <2>5. ASSUME NEW d \in 1..m PROVE g[d] = G[d][g[p[d]]]
    <3>1. p[d] \in 0..(d - 1)
      OBVIOUS
    <3>2. g[p[d]] = f[p[d]]
      BY <3>1
    <3>3. CASE d = m
      <4>1. g[m] = G[m][f[p[m]]]
        OBVIOUS
      <4> HIDE DEF g
      <4> QED BY <3>2, <3>3, <4>1
    <3>4. CASE d # m
      <4>1. g[d] = f[d] /\ d \in 1..(m - 1)
        BY <3>4
      <4> HIDE DEF g
      <4> QED BY <2>1, <3>2, <4>1
    <3> QED BY <3>3, <3>4
  <2> HIDE DEF g
  <2> QED BY <2>3, <2>4, <2>5
<1>3. T = {}
  <2> SUFFICES ASSUME T # {} PROVE FALSE
    OBVIOUS
  <2>1. PICK m \in T : \A n \in T : m <= n
    <3>1. T \in SUBSET Nat
      OBVIOUS
    <3> HIDE DEF T
    <3> QED BY <3>1, Smallest
  <2>2. m # 0 /\ m \in 0..N
    BY <1>1
  <2>3. m - 1 \in 0..N /\ ~(m <= m - 1)
    BY <2>2
  <2>4. Defined(m - 1)
    <3>1. m - 1 \notin T
      <4> HIDE DEF T
      <4> QED BY <2>1, <2>3
    <3> HIDE DEF Defined
    <3> QED BY <2>3, <3>1
  <2> HIDE DEF Defined
  <2> QED BY <1>2, <2>2, <2>4
<1>4. Defined(N)
  <2> HIDE DEF Defined
  <2> QED BY <1>3
<1> QED BY <1>4 DEF Recursive

\* F holds the first n of the sequences S one after the other: position k of F is position
\* place[k] of the sequence of[k], and no position is left out.
InOrder(of, place, F, S, n) ==
  /\ of \in [1..Len(F) -> 1..n] /\ place \in [1..Len(F) -> Nat]
  /\ \A k \in 1..Len(F) : place[k] \in 1..Len(S[of[k]]) /\ F[k] = S[of[k]][place[k]]
  /\ \A j \in 1..n : \A q \in 1..Len(S[j]) : \E k \in 1..Len(F) : of[k] = j /\ place[k] = q
  /\ \A k, l \in 1..Len(F) : k < l => of[k] < of[l] \/ (of[k] = of[l] /\ place[k] < place[l])

LEMMA InOrderStep ==
  ASSUME NEW E, NEW S \in Seq(Seq(E)), NEW n \in 1..Len(S), NEW F \in Seq(E),
         \E of, place : InOrder(of, place, F, S, n - 1)
  PROVE  \E of, place : InOrder(of, place, F \o S[n], S, n)
<1>1. PICK of, place : InOrder(of, place, F, S, n - 1)
  OBVIOUS
<1> DEFINE L == Len(F)
           H == F \o S[n]
           of2 == [k \in 1..Len(H) |-> IF k <= L THEN of[k] ELSE n]
           place2 == [k \in 1..Len(H) |-> IF k <= L THEN place[k] ELSE k - L]
<1>2. /\ S[n] \in Seq(E) /\ H \in Seq(E) /\ L \in Nat /\ Len(H) = L + Len(S[n]) /\ Len(S[n]) \in Nat
      /\ \A k \in 1..L : H[k] = F[k]
      /\ \A k \in 1..Len(H) : ~(k <= L) => k - L \in 1..Len(S[n]) /\ H[k] = S[n][k - L]
  OBVIOUS
<1>3. n - 1 \in Nat /\ 1..(n - 1) \subseteq 1..n /\ n \in Nat
  OBVIOUS
<1>4. of \in [1..L -> 1..(n - 1)] /\ place \in [1..L -> Nat]
  BY <1>1 DEF InOrder
<1>5. of2 \in [1..Len(H) -> 1..n] /\ place2 \in [1..Len(H) -> Nat]
  <2> HIDE DEF H, L
  <2> QED BY <1>2, <1>3, <1>4
<1>6. ASSUME NEW k \in 1..Len(H) PROVE place2[k] \in 1..Len(S[of2[k]]) /\ H[k] = S[of2[k]][place2[k]]
  <2>1. CASE k <= L
    <3>1. k \in 1..L /\ of2[k] = of[k] /\ place2[k] = place[k] /\ H[k] = F[k]
      BY <1>2, <2>1
    <3>2. place[k] \in 1..Len(S[of[k]]) /\ F[k] = S[of[k]][place[k]]
      BY <1>1, <3>1 DEF InOrder
    <3> HIDE DEF H, of2, place2
    <3> QED BY <3>1, <3>2
  <2>2. CASE ~(k <= L)
    <3>1. of2[k] = n /\ place2[k] = k - L
      BY <2>2
    <3> HIDE DEF H, of2, place2, L
    <3> QED BY <1>2, <2>2, <3>1
  <2> QED BY <2>1, <2>2
<1>7. ASSUME NEW j \in 1..n, NEW q \in 1..Len(S[j]) PROVE \E k \in 1..Len(H) : of2[k] = j /\ place2[k] = q
  <2>1. CASE j = n
    <3>1. PICK k \in 1..Len(H) : ~(k <= L) /\ k - L = q
      <4>1. L + q \in 1..Len(H) /\ ~(L + q <= L) /\ L + q - L = q
        <5> HIDE DEF H, L
        <5> QED BY <1>2, <2>1
      <4>2. q \in Nat
        BY <1>2, <2>1
      <4> HIDE DEF H, L
      <4> QED BY <1>2, <4>1, <4>2
    <3>2. of2[k] = n /\ place2[k] = q
      <4> HIDE DEF H, L
      <4> QED BY <3>1
    <3> HIDE DEF of2, place2, H, L
    <3> QED BY <2>1, <3>1, <3>2
  <2>2. CASE j # n
    <3>1. PICK k \in 1..L : of[k] = j /\ place[k] = q
      BY <1>1, <1>3, <2>2 DEF InOrder
    <3>2. k \in 1..Len(H) /\ of2[k] = j /\ place2[k] = q
      <4> HIDE DEF H, L
      <4> QED BY <1>2, <3>1
    <3> HIDE DEF of2, place2, H, L
    <3> QED BY <3>2
  <2> QED BY <2>1, <2>2
<1>8. ASSUME NEW k \in 1..Len(H), NEW l \in 1..Len(H), k < l
      PROVE  of2[k] < of2[l] \/ (of2[k] = of2[l] /\ place2[k] < place2[l])
  <2> HIDE DEF H, L
  <2>1. CASE l <= L
    <3>1. k \in 1..L /\ l \in 1..L
      BY <1>2, <1>8, <2>1
    <3>2. of2[k] = of[k] /\ of2[l] = of[l] /\ place2[k] = place[k] /\ place2[l] = place[l]
      BY <2>1, <3>1
    <3>3. of[k] < of[l] \/ (of[k] = of[l] /\ place[k] < place[l])
      BY <1>1, <1>8, <3>1 DEF InOrder, L
    <3> HIDE DEF of2, place2
    <3> QED BY <3>2, <3>3
  <2>2. CASE k <= L /\ ~(l <= L)
    <3>1. k \in 1..L
      BY <2>2
    <3>2. of[k] \in 1..(n - 1) /\ of2[k] = of[k] /\ of2[l] = n
      BY <1>4, <2>2, <3>1
    <3> HIDE DEF of2, place2
    <3> QED BY <3>2
  <2>3. CASE ~(k <= L)
    <3>1. ~(l <= L)
      BY <1>2, <1>8, <2>3
    <3>2. of2[k] = n /\ of2[l] = n /\ place2[k] = k - L /\ place2[l] = l - L
      BY <2>3, <3>1
    <3> HIDE DEF of2, place2
    <3> QED BY <1>2, <1>8, <3>2
  <2> QED BY <2>1, <2>2, <2>3
<1>9. InOrder(of2, place2, H, S, n)
  <2> HIDE DEF of2, place2, H
  <2> QED BY <1>5, <1>6, <1>7, <1>8 DEF InOrder
<1> QED BY <1>9

\* The sequences of a sequence one after the other.
LEMMA FlatIs ==
  ASSUME NEW E, NEW S \in Seq(Seq(E))
  PROVE  FlattenSeq(S) \in Seq(E) /\ \E of, place : InOrder(of, place, FlattenSeq(S), S, Len(S))
<1> DEFINE N == Len(S)
           G == [d \in 1..N |-> [s \in Seq(E) |-> s \o S[d]]]
           p == [d \in 1..N |-> d - 1]
<1>1. PICK f \in [0..N -> Seq(E)] : f[0] = <<>> /\ \A d \in 1..N : f[d] = f[d - 1] \o S[d]
  <2> DEFINE V == Seq(E)
             z == <<>>
  <2>1. N \in Nat /\ z \in V /\ p \in [1..N -> Nat] /\ \A d \in 1..N : p[d] < d
    OBVIOUS
  <2>2. G \in [1..N -> [V -> V]]
    OBVIOUS
  <2>3. PICK f \in [0..N -> V] : f[0] = z /\ \A d \in 1..N : f[d] = G[d][f[p[d]]]
    <3> HIDE DEF G, p, N, V, z
    <3>1. LeadsBack(p, N)
      BY <2>1 DEF LeadsBack
    <3>2. \E f : Recursive(f, N, V, z, p, G)
      BY <2>1, <2>2, <3>1, RecursionIsDefined
    <3> QED BY <3>2 DEF Recursive
  <2>4. \A d \in 1..N : p[d] = d - 1 /\ f[d - 1] \in V
    <3>1. \A d \in 1..N : d - 1 \in 0..N
      BY <2>1
    <3>2. \A d \in 1..N : p[d] = d - 1
      OBVIOUS
    <3> HIDE DEF G, V, z, N
    <3> QED BY <3>1, <3>2
  <2>5. \A d \in 1..N : G[d][f[p[d]]] = f[d - 1] \o S[d]
    BY <2>4
  <2> QED BY <2>3, <2>5
<1>2. N # 0 => FlattenSeq(S) = f[N]
  <2> SUFFICES ASSUME N # 0 PROVE FlattenSeq(S) = f[N]
    OBVIOUS
  <2> DEFINE body(g) == [i \in 1..N |-> IF i = 1 THEN S[i] ELSE g[i - 1] \o S[i]]
             flatten == CHOOSE g : g = body(g)
  <2>1. FlattenSeq(S) = flatten[N]
    BY DEF FlattenSeq
  <2>2. \A d \in 1..N : f[d] = IF d = 1 THEN S[d] ELSE f[d - 1] \o S[d]
    <3>1. 1 \in 1..N => S[1] \in Seq(E) /\ <<>> \o S[1] = S[1]
      OBVIOUS
    <3>2. \A d \in 1..N : d = 1 => f[d] = f[0] \o S[1]
      <4> HIDE DEF N
      <4>1. ASSUME 1 \in 1..N PROVE f[1] = f[1 - 1] \o S[1]
        BY <1>1, <4>1
      <4>2. 1 - 1 = 0
        OBVIOUS
      <4> QED BY <4>1, <4>2
    <3> QED BY <1>1, <3>1, <3>2
  <2> DEFINE h == [d \in 1..N |-> f[d]]
  <2>3. h = body(h)
    BY <2>2
  <2>4. flatten = body(flatten)
    <3> HIDE DEF body, h
    <3> QED BY <2>3
  <2>5. \A d \in 1..N : flatten[d] = IF d = 1 THEN S[d] ELSE flatten[d - 1] \o S[d]
    <3> HIDE DEF flatten
    <3> QED BY <2>4
  <2> DEFINE T == {d \in 1..N : flatten[d] # f[d]}
  <2>6. T = {}
    <3> HIDE DEF flatten
    <3> SUFFICES ASSUME T # {} PROVE FALSE
      OBVIOUS
    <3>1. PICK m \in T : \A n \in T : m <= n
      <4>1. T \in SUBSET Nat
        OBVIOUS
      <4> HIDE DEF T
      <4> QED BY <4>1, Smallest
    <3>2. m \in 1..N /\ flatten[m] # f[m]
      OBVIOUS
    <3>3. m # 1
      BY <2>2, <2>5, <3>2
    <3>4. m - 1 \in 1..N /\ ~(m <= m - 1)
      BY <3>2, <3>3
    <3>5. m - 1 \notin T
      <4> HIDE DEF T
      <4> QED BY <3>1, <3>4
    <3>6. flatten[m - 1] = f[m - 1]
      BY <3>4, <3>5
    <3> QED BY <2>2, <2>5, <3>2, <3>3, <3>6
  <2>7. flatten[N] = f[N]
    <3> HIDE DEF flatten
    <3> QED BY <2>6
  <2> QED BY <2>1, <2>7
<1>3. CASE N = 0
  <2>1. S = <<>> /\ FlattenSeq(S) = <<>>
    BY <1>3 DEF FlattenSeq
  <2>2. InOrder(<<>>, <<>>, <<>>, S, 0)
    BY DEF InOrder
  <2>3. <<>> \in Seq(E) /\ InOrder(<<>>, <<>>, FlattenSeq(S), S, Len(S))
    BY <2>1, <2>2, <1>3
  <2> QED BY <2>1, <2>3
<1>4. CASE N # 0
  <2> DEFINE Placed(i) == \E of, place : InOrder(of, place, f[i], S, i)
             T == {i \in 0..N : ~Placed(i)}
  <2>1. Placed(0)
    <3>1. InOrder(<<>>, <<>>, <<>>, S, 0)
      BY DEF InOrder
    <3> QED BY <1>1, <3>1
  <2>2. ASSUME NEW m \in 1..N, Placed(m - 1) PROVE Placed(m)
    <3>1. m - 1 \in 0..N
      OBVIOUS
    <3>2. f[m - 1] \in Seq(E) /\ f[m] = f[m - 1] \o S[m]
      <4> HIDE DEF N
      <4> QED BY <1>1, <3>1
    <3> QED BY <2>2, <3>2, InOrderStep
  <2>3. T = {}
    <3> HIDE DEF Placed
    <3> SUFFICES ASSUME T # {} PROVE FALSE
      OBVIOUS
    <3>1. PICK m \in T : \A n \in T : m <= n
      <4>1. T \in SUBSET Nat
        OBVIOUS
      <4> HIDE DEF T
      <4> QED BY <4>1, Smallest
    <3>2. m \in 1..N /\ ~Placed(m)
      BY <2>1
    <3>3. m - 1 \in 0..N /\ ~(m <= m - 1)
      BY <3>2
    <3>4. m - 1 \notin T
      <4> HIDE DEF T
      <4> QED BY <3>1, <3>3
    <3> QED BY <2>2, <3>2, <3>3, <3>4
  <2>4. Placed(N)
    <3> HIDE DEF Placed
    <3> QED BY <2>3
  <2>5. f[N] \in Seq(E)
    <3>1. N \in 0..N
      OBVIOUS
    <3> HIDE DEF N
    <3> QED BY <1>1, <3>1
  <2> QED BY <1>2, <1>4, <2>4, <2>5
<1> QED BY <1>3, <1>4

-----------------------------------------------------------------------------
(* The chains along which classes and instances inherit. *)

LEMMA AppendEndsIn ==
  ASSUME NEW A, NEW s \in Seq(A), NEW a \in A
  PROVE  /\ Append(s, a) \in Seq(A) /\ Append(s, a) # <<>>
         /\ Append(s, a)[Len(Append(s, a))] = a
OBVIOUS

BaseFollows == base \in Seq(Nat) /\ \A c \in 1..Len(base) : base[c] < c

\* A class comes last in its own lineage, and what is in it was declared before.
LEMMA LineageIs ==
  ASSUME BaseFollows, NEW c \in 0..Len(base)
  PROVE  /\ Lineage(c) \in Seq(1..c)
         /\ c # 0 => Lineage(c) # <<>> /\ Lineage(c)[Len(Lineage(c))] = c
<1> DEFINE N == Len(base)
           V == Seq(1..N)
           z == <<>>
           G == [d \in 1..N |-> [s \in V |-> Append(s, d)]]
           body(g) == [d \in 0..N |-> IF d = 0 THEN <<>> ELSE Append(g[base[d]], d)]
           chain == CHOOSE g : g = body(g)
<1>1. N \in Nat /\ z \in V /\ LeadsBack(base, N) /\ G \in [1..N -> [V -> V]]
  BY DEF LeadsBack, BaseFollows
<1>2. PICK f : Recursive(f, N, V, z, base, G)
  <2> HIDE DEF G, N, V, z
  <2> QED BY <1>1, RecursionIsDefined
<1>3. f \in [0..N -> V] /\ f[0] = <<>> /\ \A d \in 1..N : f[d] = G[d][f[base[d]]]
  BY <1>2 DEF Recursive
<1>4. \A d \in 1..N : base[d] \in 0..N /\ base[d] < d
  BY DEF BaseFollows
<1>5. \A d \in 1..N : f[d] = Append(f[base[d]], d)
  <2> HIDE DEF N, V
  <2> QED BY <1>3, <1>4
<1>6. f = body(f)
  <2> HIDE DEF G, V
  <2> QED BY <1>3, <1>5
<1>7. chain = body(chain)
  <2> HIDE DEF body
  <2> QED BY <1>6
<1>8. chain[0] = <<>> /\ \A d \in 1..N : chain[d] = Append(chain[base[d]], d)
  <2> HIDE DEF chain, N
  <2>1. \A d \in 0..N : chain[d] = IF d = 0 THEN <<>> ELSE Append(chain[base[d]], d)
    BY <1>7
  <2>2. 0 \in 0..N /\ \A d \in 1..N : d \in 0..N /\ d # 0
    BY <1>1
  <2> HIDE DEF body
  <2> QED BY <2>1, <2>2
<1>9. Lineage(c) = chain[c]
  BY DEF Lineage
<1> HIDE DEF chain, N
<1> DEFINE Good(d) == /\ chain[d] \in Seq(1..d)
                      /\ d # 0 => chain[d] # <<>> /\ chain[d][Len(chain[d])] = d
           T == {d \in 0..N : ~Good(d)}
<1>10. Good(0)
  BY <1>8
<1>11. ASSUME NEW m \in 1..N, Good(base[m]) PROVE Good(m)
  <2>1. base[m] \in 0..(m - 1) /\ m \in Nat
    BY <1>1, <1>4
  <2>2. 1..base[m] \subseteq 1..m
    BY <2>1
  <2>3. chain[base[m]] \in Seq(1..m)
    BY <1>11, <2>2, SeqMonotonic
  <2>4. m \in 1..m
    BY <2>1
  <2>5. chain[m] = Append(chain[base[m]], m)
    BY <1>8
  <2> QED BY <2>3, <2>4, <2>5, AppendEndsIn
<1>12. T = {}
  <2> HIDE DEF Good
  <2> SUFFICES ASSUME T # {} PROVE FALSE
    OBVIOUS
  <2>1. PICK m \in T : \A n \in T : m <= n
    <3>1. T \in SUBSET Nat
      OBVIOUS
    <3> HIDE DEF T
    <3> QED BY <3>1, Smallest
  <2>2. m \in 1..N /\ ~Good(m)
    BY <1>10
  <2>3. base[m] \in 0..N /\ ~(m <= base[m])
    BY <1>1, <1>4, <2>2
  <2>4. base[m] \notin T
    <3> HIDE DEF T
    <3> QED BY <2>1, <2>3
  <2> QED BY <1>11, <2>2, <2>3, <2>4
<1>13. Good(c)
  <2> HIDE DEF Good
  <2> QED BY <1>12 DEF N
<1> QED BY <1>9, <1>13

ParentsFollow ==
  DOMAIN nodes = 1..Len(nodes) /\ Len(nodes) \in Nat
  /\ \A n \in 1..Len(nodes) : nodes[n].parent \in Nat /\ nodes[n].parent < n

\* An instance comes after those it is mounted from.
LEMMA AncestryIs ==
  ASSUME ParentsFollow
  PROVE  /\ Ancestry(0) = {}
         /\ \A n \in 1..Len(nodes) :
              Ancestry(n) = {n} \union Ancestry(nodes[n].parent) /\ Ancestry(n) \subseteq 1..n
<1> DEFINE N == Len(nodes)
           V == SUBSET (1..N)
           z == {}
           p == [k \in 1..N |-> nodes[k].parent]
           G == [d \in 1..N |-> [s \in V |-> {d} \union s]]
           body(g) == [k \in 0..N |-> IF k = 0 THEN {} ELSE {k} \union g[nodes[k].parent]]
           up == CHOOSE g : g = body(g)
<1>1. N \in Nat /\ z \in V /\ LeadsBack(p, N) /\ G \in [1..N -> [V -> V]]
  BY DEF LeadsBack, ParentsFollow
<1>2. PICK f : Recursive(f, N, V, z, p, G)
  <2> HIDE DEF G, N, V, z, p
  <2> QED BY <1>1, RecursionIsDefined
<1>3. f \in [0..N -> V] /\ f[0] = {} /\ \A d \in 1..N : f[d] = G[d][f[p[d]]]
  BY <1>2 DEF Recursive
<1>4. \A d \in 1..N : nodes[d].parent \in 0..N /\ nodes[d].parent < d /\ p[d] = nodes[d].parent
  BY DEF ParentsFollow
<1>5. \A d \in 1..N : f[d] = {d} \union f[nodes[d].parent]
  <2> HIDE DEF N, V, p
  <2> QED BY <1>3, <1>4
<1>6. f = body(f)
  <2> HIDE DEF G, V, p
  <2> QED BY <1>3, <1>5
<1>7. up = body(up)
  <2> HIDE DEF body
  <2> QED BY <1>6
<1>8. up[0] = {} /\ \A d \in 1..N : up[d] = {d} \union up[nodes[d].parent]
  <2> HIDE DEF up, N
  <2>1. \A d \in 0..N : up[d] = IF d = 0 THEN {} ELSE {d} \union up[nodes[d].parent]
    BY <1>7
  <2>2. 0 \in 0..N /\ \A d \in 1..N : d \in 0..N /\ d # 0
    BY <1>1
  <2> HIDE DEF body
  <2> QED BY <2>1, <2>2
<1>9. \A n : Ancestry(n) = up[n]
  BY DEF Ancestry
<1> HIDE DEF up, N
<1> DEFINE Good(d) == up[d] \subseteq 1..d
           T == {d \in 0..N : ~Good(d)}
<1>10. Good(0)
  BY <1>8
<1>11. ASSUME NEW m \in 1..N, Good(nodes[m].parent) PROVE Good(m)
  <2>1. nodes[m].parent \in 0..N /\ nodes[m].parent < m /\ m \in Nat
    BY <1>1, <1>4
  <2>2. 1..nodes[m].parent \subseteq 1..m /\ m \in 1..m
    BY <2>1
  <2>3. up[m] = {m} \union up[nodes[m].parent]
    BY <1>8
  <2> QED BY <1>11, <2>2, <2>3
<1>12. T = {}
  <2> HIDE DEF Good
  <2> SUFFICES ASSUME T # {} PROVE FALSE
    OBVIOUS
  <2>1. PICK m \in T : \A n \in T : m <= n
    <3>1. T \in SUBSET Nat
      OBVIOUS
    <3> HIDE DEF T
    <3> QED BY <3>1, Smallest
  <2>2. m \in 1..N /\ ~Good(m)
    BY <1>10
  <2>3. nodes[m].parent \in 0..N /\ ~(m <= nodes[m].parent)
    BY <1>1, <1>4, <2>2
  <2>4. nodes[m].parent \notin T
    <3> HIDE DEF T
    <3> QED BY <2>1, <2>3
  <2> QED BY <1>11, <2>2, <2>3, <2>4
<1>13. \A n \in 1..N : Good(n)
  <2>1. \A n \in 1..N : n \in 0..N
    BY <1>1
  <2> HIDE DEF Good
  <2> QED BY <1>12, <2>1
<1> QED BY <1>8, <1>9, <1>13 DEF N

\* An element of a lineage that is the greatest of some of its positions.
LEMMA LineagePlace ==
  ASSUME BaseFollows, NEW c \in 1..Len(base), NEW T \in SUBSET DOMAIN Lineage(c), T # {}
  PROVE  Max(T) \in T /\ Lineage(c)[Max(T)] \in 1..c /\ Lineage(c)[Max(T)] \in ToSet(Lineage(c))
<1>1. Lineage(c) \in Seq(1..c)
  BY LineageIs
<1>2. DOMAIN Lineage(c) = 1..Len(Lineage(c)) /\ Len(Lineage(c)) \in Nat
  BY <1>1
<1>3. Max(T) \in T
  BY <1>2, MaxIs
<1>4. Max(T) \in 1..Len(Lineage(c))
  BY <1>2, <1>3
<1>5. Lineage(c)[Max(T)] \in 1..c
  BY <1>1, <1>4, ElementOfSeq
<1> QED BY <1>2, <1>3, <1>4, <1>5 DEF ToSet

\* A list read as a property is that of a class of the lineage, and its own where none has one.
LEMMA HolderIs ==
  ASSUME BaseFollows, NEW c \in 1..Len(base), NEW lists
  PROVE  /\ Holder(lists, c) \in 1..c /\ Holder(lists, c) \in ToSet(Lineage(c))
         /\ lists[Holder(lists, c)] = <<>> => Holder(lists, c) = c
<1> DEFINE having == {i \in DOMAIN Lineage(c) : lists[Lineage(c)[i]] # <<>>}
<1>1. Lineage(c) \in Seq(1..c) /\ Lineage(c) # <<>> /\ Lineage(c)[Len(Lineage(c))] = c
  BY LineageIs
<1>2. c \in ToSet(Lineage(c))
  BY <1>1 DEF ToSet
<1>3. CASE having = {}
  BY <1>2, <1>3 DEF Holder
<1>4. CASE having # {}
  <2>1. Holder(lists, c) = Lineage(c)[Max(having)]
    BY <1>4 DEF Holder
  <2>2. having \in SUBSET DOMAIN Lineage(c)
    OBVIOUS
  <2>3. Max(having) \in having /\ Lineage(c)[Max(having)] \in 1..c /\ Lineage(c)[Max(having)] \in ToSet(Lineage(c))
    <3> HIDE DEF having
    <3> QED BY <1>4, <2>2, LineagePlace
  <2>4. lists[Lineage(c)[Max(having)]] # <<>>
    BY <2>3
  <2> QED BY <2>1, <2>3, <2>4
<1> QED BY <1>3, <1>4

-----------------------------------------------------------------------------
(* What is declared. *)

ControllerAnnotations == [name : {"Controller"}, path : Seq(STRING), options : Nat, guards : BOOLEAN]

ClassesAnnotated ==
  classAnnotations \in Seq(Seq(ControllerAnnotations)) /\ Len(classAnnotations) = Len(base)

\* The annotations of a class are those of the classes in its lineage.
LEMMA ListForClassIs ==
  ASSUME BaseFollows, ClassesAnnotated, NEW c \in 1..Len(base)
  PROVE  /\ ListForClass(c) \in Seq(ControllerAnnotations)
         /\ \A k \in 1..Len(ListForClass(c)) : \E d \in 1..c : \E i \in 1..Len(classAnnotations[d]) :
              ListForClass(c)[k] = classAnnotations[d][i]
         /\ \A i \in 1..Len(classAnnotations[c]) : \E k \in 1..Len(ListForClass(c)) :
              ListForClass(c)[k] = classAnnotations[c][i]
<1> DEFINE line == Lineage(c)
           S == [i \in DOMAIN line |-> classAnnotations[line[i]]]
           F == ListForClass(c)
<1>1. /\ line \in Seq(1..c) /\ line # <<>> /\ line[Len(line)] = c
      /\ Len(line) \in 1..Len(line) /\ DOMAIN line = 1..Len(line) /\ Len(line) \in Nat
  BY LineageIs
<1>2. F = FlattenSeq(S)
  BY DEF ListForClass, Combined
<1>3. \A i \in 1..Len(line) : line[i] \in 1..c
  BY <1>1, ElementOfSeq
<1>4. \A d \in 1..c : d \in 1..Len(base) /\ classAnnotations[d] \in Seq(ControllerAnnotations)
  BY DEF ClassesAnnotated, BaseFollows
<1>5. S \in Seq(Seq(ControllerAnnotations)) /\ Len(S) = Len(line)
  <2> HIDE DEF line
  <2>1. S \in [1..Len(line) -> Seq(ControllerAnnotations)]
    BY <1>1, <1>3, <1>4
  <2> HIDE DEF S
  <2> QED BY <1>1, <2>1, SeqDef
<1>6. F \in Seq(ControllerAnnotations) /\ \E of, place : InOrder(of, place, F, S, Len(S))
  <2> HIDE DEF S, F
  <2> QED BY <1>2, <1>5, FlatIs
<1>7. PICK of, place : InOrder(of, place, F, S, Len(S))
  BY <1>6
<1>8. \A i \in 1..Len(line) : S[i] = classAnnotations[line[i]]
  BY <1>1
<1> HIDE DEF F, S, line
<1>9. ASSUME NEW k \in 1..Len(F)
      PROVE  \E d \in 1..c : \E i \in 1..Len(classAnnotations[d]) : F[k] = classAnnotations[d][i]
  <2>1. of[k] \in 1..Len(line) /\ place[k] \in 1..Len(S[of[k]]) /\ F[k] = S[of[k]][place[k]]
    BY <1>5, <1>7 DEF InOrder
  <2>2. line[of[k]] \in 1..c /\ S[of[k]] = classAnnotations[line[of[k]]]
    BY <1>3, <1>8, <2>1
  <2> QED BY <2>1, <2>2
<1>10. ASSUME NEW i \in 1..Len(classAnnotations[c])
       PROVE  \E k \in 1..Len(F) : F[k] = classAnnotations[c][i]
  <2>1. S[Len(line)] = classAnnotations[c]
    BY <1>1, <1>8
  <2>2. PICK k \in 1..Len(F) : of[k] = Len(line) /\ place[k] = i
    <3>1. Len(line) \in 1..Len(S) /\ i \in 1..Len(S[Len(line)])
      BY <1>1, <1>5, <2>1
    <3>2. \A j \in 1..Len(S) : \A q \in 1..Len(S[j]) : \E k \in 1..Len(F) : of[k] = j /\ place[k] = q
      BY <1>7 DEF InOrder
    <3> QED BY <3>1, <3>2
  <2>3. F[k] = S[of[k]][place[k]]
    BY <1>7 DEF InOrder
  <2> QED BY <2>1, <2>2, <2>3
<1> QED BY <1>6, <1>9, <1>10 DEF F

\* The controller of a class is one of the annotations of its lineage.
LEMMA ControllerIs ==
  ASSUME BaseFollows, ClassesAnnotated, NEW c \in 1..Len(base)
  PROVE  \/ ControllerOf(c) = <<>>
         \/ \E d \in 1..c : \E i \in 1..Len(classAnnotations[d]) :
              ControllerOf(c) = <<classAnnotations[d][i]>>
<1> DEFINE list == ListForClass(c)
           named == {i \in DOMAIN list : list[i].name = "Controller"}
<1>1. ControllerOf(c) = IF named = {} THEN <<>> ELSE <<list[Min(named)]>>
  BY DEF ControllerOf, ForClass
<1>2. DOMAIN list = 1..Len(list)
  BY ListForClassIs
<1>3. CASE named # {}
  <2>1. named \in SUBSET Nat
    BY <1>2
  <2>2. Min(named) \in named
    <3> HIDE DEF named
    <3> QED BY <1>3, <2>1, MinIs
  <2>3. Min(named) \in 1..Len(list)
    BY <1>2, <2>2
  <2>4. PICK d \in 1..c : \E i \in 1..Len(classAnnotations[d]) : list[Min(named)] = classAnnotations[d][i]
    <3> HIDE DEF named
    <3> QED BY <2>3, ListForClassIs
  <2>5. ControllerOf(c) = <<list[Min(named)]>>
    <3> HIDE DEF named
    <3> QED BY <1>1, <1>3
  <2> HIDE DEF named, list
  <2> QED BY <2>4, <2>5
<1>4. CASE named = {}
  <2> HIDE DEF named
  <2> QED BY <1>1, <1>4
<1> QED BY <1>3, <1>4

\* A class that has no controller of its own and is accepted for one has no annotation at all.
LEMMA AcceptedIsNew ==
  ASSUME BaseFollows, ClassesAnnotated, Class # 0, AcceptsClass(ControllerDecorator, Class)
  PROVE  classAnnotations[Class] = <<>>
<1>1. Class \in 1..Len(base)
  BY DEF Class, BaseFollows
<1>2. \A i \in DOMAIN ListForClass(Class) : ListForClass(Class)[i].name # "Controller"
  BY DEF AcceptsClass, Once, ControllerDecorator
<1>3. ListForClass(Class) \in Seq(ControllerAnnotations)
  BY <1>1, ListForClassIs
<1>4. \A k \in 1..Len(ListForClass(Class)) : ListForClass(Class)[k].name = "Controller"
  <2>1. \A k \in 1..Len(ListForClass(Class)) : ListForClass(Class)[k] \in ControllerAnnotations
    BY <1>3, ElementOfSeq
  <2>2. \A a \in ControllerAnnotations : a.name = "Controller"
    BY DEF ControllerAnnotations
  <2> HIDE DEF ControllerAnnotations
  <2> QED BY <2>1, <2>2
<1>5. Len(ListForClass(Class)) = 0
  BY <1>2, <1>3, <1>4
<1>6. classAnnotations[Class] \in Seq(ControllerAnnotations)
  BY <1>1 DEF ClassesAnnotated
<1>7. ~\E i \in 1..Len(classAnnotations[Class]) : TRUE
  BY <1>1, <1>5, ListForClassIs
<1> QED BY <1>6, <1>7

-----------------------------------------------------------------------------
(* The types of what classes declare. *)

Labels == [name : {"Label"}]
Injected == [position : Positions, annotation : [name : {"Inject"}]]
DeclaredRoutes == [method : Methods, path : RoutePaths]
DeclaredMounts == [field : Fields, path : MountPaths]

AnnotationTypes ==
  /\ BaseFollows /\ ClassesAnnotated
  /\ memberAnnotations \in Seq([Methods -> Seq(Labels)]) /\ Len(memberAnnotations) = Len(base)
  /\ parameterAnnotations \in Seq([Methods \X Positions -> Seq(Inputs)])
  /\ Len(parameterAnnotations) = Len(base)
  /\ constructorParameters \in Seq(Seq(Injected)) /\ Len(constructorParameters) = Len(base)

ClassTypes ==
  /\ Len(base) <= MaxClasses
  /\ signatures \in Seq([Methods -> Seq(Signatures)]) /\ Len(signatures) = Len(base)
  /\ routes \in Seq(Seq(DeclaredRoutes)) /\ Len(routes) = Len(base)
  /\ mounts \in Seq(Seq(DeclaredMounts)) /\ Len(mounts) = Len(base)
  /\ fieldTypes \in Seq([Fields -> Nat]) /\ Len(fieldTypes) = Len(base)
  /\ \A c \in 1..Len(base) : \A f \in Fields : fieldTypes[c][f] <= Len(base)
  /\ optionPaths \in [0..MaxClasses -> Seq(STRING)]
  /\ written \in Nat

DeclarationTypes == AnnotationTypes /\ ClassTypes

LEMMA Appended ==
  ASSUME NEW A, NEW s \in Seq(A), NEW a \in A
  PROVE  /\ Append(s, a) \in Seq(A) /\ Len(Append(s, a)) = Len(s) + 1
         /\ Append(s, a)[Len(s) + 1] = a /\ \A i \in 1..Len(s) : Append(s, a)[i] = s[i]
OBVIOUS

LEMMA Updated ==
  ASSUME NEW A, NEW s \in Seq(A), NEW c \in 1..Len(s), NEW a \in A
  PROVE  /\ [s EXCEPT ![c] = a] \in Seq(A) /\ Len([s EXCEPT ![c] = a]) = Len(s)
         /\ [s EXCEPT ![c] = a][c] = a
         /\ \A i \in 1..Len(s) : i # c => [s EXCEPT ![c] = a][i] = s[i]
BY ExceptSeq

LEMMA AnnotationTypesDeclare ==
  ASSUME AnnotationTypes, NEW b \in 0..Class, DeclareClass(b)
  PROVE  AnnotationTypes' /\ Len(base') = Len(base) + 1
<1>1. base \in Seq(Nat) /\ b \in Nat /\ b <= Len(base)
  BY DEF AnnotationTypes, BaseFollows, Class
<1>2. base' = Append(base, b)
  BY DEF DeclareClass
<1>3. /\ base' \in Seq(Nat) /\ Len(base') = Len(base) + 1 /\ base'[Len(base) + 1] = b
      /\ \A i \in 1..Len(base) : base'[i] = base[i]
  BY <1>1, <1>2, Appended
<1>4. BaseFollows'
  <2>1. ASSUME NEW c \in 1..Len(base') PROVE base'[c] < c
    <3>1. c \in 1..Len(base) \/ c = Len(base) + 1
      BY <1>1, <1>3
    <3>2. \A i \in 1..Len(base) : base[i] < i
      BY DEF AnnotationTypes, BaseFollows
    <3> QED BY <1>1, <1>3, <3>1, <3>2
  <2> QED BY <1>3, <2>1 DEF BaseFollows
<1>5. ClassesAnnotated'
  <2>1. <<>> \in Seq(ControllerAnnotations)
    OBVIOUS
  <2>2. classAnnotations \in Seq(Seq(ControllerAnnotations)) /\ Len(classAnnotations) = Len(base)
    BY DEF AnnotationTypes, ClassesAnnotated
  <2>3. classAnnotations' = Append(classAnnotations, <<>>)
    BY DEF DeclareClass
  <2> QED BY <1>3, <2>1, <2>2, <2>3, Appended DEF ClassesAnnotated
<1>6. memberAnnotations' \in Seq([Methods -> Seq(Labels)]) /\ Len(memberAnnotations') = Len(base')
  <2>1. [m \in Methods |-> <<>>] \in [Methods -> Seq(Labels)]
    OBVIOUS
  <2>2. memberAnnotations \in Seq([Methods -> Seq(Labels)]) /\ Len(memberAnnotations) = Len(base)
    BY DEF AnnotationTypes
  <2>3. memberAnnotations' = Append(memberAnnotations, [m \in Methods |-> <<>>])
    BY DEF DeclareClass
  <2> QED BY <1>3, <2>1, <2>2, <2>3, Appended
<1>7. /\ parameterAnnotations' \in Seq([Methods \X Positions -> Seq(Inputs)])
      /\ Len(parameterAnnotations') = Len(base')
  <2>1. [p \in Methods \X Positions |-> <<>>] \in [Methods \X Positions -> Seq(Inputs)]
    OBVIOUS
  <2>2. /\ parameterAnnotations \in Seq([Methods \X Positions -> Seq(Inputs)])
        /\ Len(parameterAnnotations) = Len(base)
    BY DEF AnnotationTypes
  <2>3. parameterAnnotations' = Append(parameterAnnotations, [p \in Methods \X Positions |-> <<>>])
    BY DEF DeclareClass
  <2> QED BY <1>3, <2>1, <2>2, <2>3, Appended
<1>8. constructorParameters' \in Seq(Seq(Injected)) /\ Len(constructorParameters') = Len(base')
  <2>1. <<>> \in Seq(Injected)
    OBVIOUS
  <2>2. constructorParameters \in Seq(Seq(Injected)) /\ Len(constructorParameters) = Len(base)
    BY DEF AnnotationTypes
  <2>3. constructorParameters' = Append(constructorParameters, <<>>)
    BY DEF DeclareClass
  <2> QED BY <1>3, <2>1, <2>2, <2>3, Appended
<1> QED BY <1>3, <1>4, <1>5, <1>6, <1>7, <1>8 DEF AnnotationTypes

LEMMA AnnotationTypesApply ==
  ASSUME AnnotationTypes, NEW c \in 1..Len(base)
  PROVE  /\ \A a \in ControllerAnnotations : ApplyToClass(c, a) => AnnotationTypes'
         /\ \A m \in Methods, a \in Labels : ApplyToMethod(c, m, a) => AnnotationTypes'
         /\ \A m \in Methods, i \in Positions, a \in Inputs : ApplyToParameter(c, m, i, a) => AnnotationTypes'
         /\ \A i \in Positions : ApplyToConstructorParameter(c, i, [name |-> "Inject"]) => AnnotationTypes'
<1>0. BaseFollows /\ (base' = base => BaseFollows')
  BY DEF AnnotationTypes, BaseFollows
<1>1. ASSUME NEW a \in ControllerAnnotations, ApplyToClass(c, a) PROVE AnnotationTypes'
  <2>1. classAnnotations \in Seq(Seq(ControllerAnnotations)) /\ Len(classAnnotations) = Len(base)
    BY DEF AnnotationTypes, ClassesAnnotated
  <2>2. classAnnotations' = [classAnnotations EXCEPT ![c] = Append(classAnnotations[c], a)]
    BY <1>1 DEF ApplyToClass
  <2>3. Append(classAnnotations[c], a) \in Seq(ControllerAnnotations)
    BY <2>1, Appended
  <2>4. classAnnotations' \in Seq(Seq(ControllerAnnotations)) /\ Len(classAnnotations') = Len(base)
    BY <2>1, <2>2, <2>3, Updated
  <2> QED BY <1>0, <1>1, <2>4 DEF AnnotationTypes, ApplyToClass, ClassesAnnotated
<1>2. ASSUME NEW m \in Methods, NEW a \in Labels, ApplyToMethod(c, m, a) PROVE AnnotationTypes'
  <2>1. memberAnnotations \in Seq([Methods -> Seq(Labels)]) /\ Len(memberAnnotations) = Len(base)
    BY DEF AnnotationTypes
  <2> DEFINE own == [memberAnnotations[c] EXCEPT ![m] = Append(memberAnnotations[c][m], a)]
  <2>2. memberAnnotations' = [memberAnnotations EXCEPT ![c] = own]
    BY <1>2 DEF ApplyToMethod
  <2>3. memberAnnotations[c] \in [Methods -> Seq(Labels)]
    BY <2>1
  <2>4. own \in [Methods -> Seq(Labels)]
    BY <2>3, Appended
  <2>5. memberAnnotations' \in Seq([Methods -> Seq(Labels)]) /\ Len(memberAnnotations') = Len(base)
    <3> HIDE DEF own
    <3> QED BY <2>1, <2>2, <2>4, Updated
  <2> QED BY <1>0, <1>2, <2>5 DEF AnnotationTypes, ApplyToMethod, ClassesAnnotated
<1>3. ASSUME NEW m \in Methods, NEW i \in Positions, NEW a \in Inputs, ApplyToParameter(c, m, i, a)
      PROVE  AnnotationTypes'
  <2>1. /\ parameterAnnotations \in Seq([Methods \X Positions -> Seq(Inputs)])
        /\ Len(parameterAnnotations) = Len(base)
    BY DEF AnnotationTypes
  <2> DEFINE own == [parameterAnnotations[c] EXCEPT ![<<m, i>>] = Append(parameterAnnotations[c][<<m, i>>], a)]
  <2>2. parameterAnnotations' = [parameterAnnotations EXCEPT ![c] = own]
    BY <1>3 DEF ApplyToParameter
  <2>3. parameterAnnotations[c] \in [Methods \X Positions -> Seq(Inputs)] /\ <<m, i>> \in Methods \X Positions
    BY <2>1, ElementOfSeq
  <2>4. own \in [Methods \X Positions -> Seq(Inputs)]
    <3>1. Append(parameterAnnotations[c][<<m, i>>], a) \in Seq(Inputs)
      BY <2>3, Appended
    <3> QED BY <2>3, <3>1
  <2>5. /\ parameterAnnotations' \in Seq([Methods \X Positions -> Seq(Inputs)])
        /\ Len(parameterAnnotations') = Len(base)
    <3> HIDE DEF own
    <3> QED BY <2>1, <2>2, <2>4, Updated
  <2> QED BY <1>0, <1>3, <2>5 DEF AnnotationTypes, ApplyToParameter, ClassesAnnotated
<1>4. ASSUME NEW i \in Positions, ApplyToConstructorParameter(c, i, [name |-> "Inject"])
      PROVE  AnnotationTypes'
  <2> DEFINE h == Holder(constructorParameters, c)
             a == [position |-> i, annotation |-> [name |-> "Inject"]]
  <2>1. constructorParameters \in Seq(Seq(Injected)) /\ Len(constructorParameters) = Len(base)
    BY DEF AnnotationTypes
  <2>2. h \in 1..Len(base)
    <3>1. h \in 1..c
      BY <1>0, HolderIs
    <3>2. Len(base) \in Nat
      BY <1>0 DEF BaseFollows
    <3> HIDE DEF h
    <3> QED BY <3>1, <3>2
  <2>3. a \in Injected
    BY DEF Injected
  <2>4. constructorParameters' = [constructorParameters EXCEPT ![h] = Append(constructorParameters[h], a)]
    BY <1>4 DEF ApplyToConstructorParameter
  <2> HIDE DEF h, a
  <2>5. Append(constructorParameters[h], a) \in Seq(Injected)
    BY <2>1, <2>2, <2>3, Appended
  <2>6. constructorParameters' \in Seq(Seq(Injected)) /\ Len(constructorParameters') = Len(base)
    BY <2>1, <2>2, <2>4, <2>5, Updated
  <2> QED BY <1>0, <1>4, <2>6 DEF AnnotationTypes, ApplyToConstructorParameter, ClassesAnnotated
<1> QED BY <1>1, <1>2, <1>3, <1>4

\* The declarations keep their types.
LEMMA TypesInitially == TreeInit => DeclarationTypes
<1> SUFFICES ASSUME TreeInit PROVE DeclarationTypes
  OBVIOUS
<1>1. /\ base = <<>> /\ classAnnotations = <<>> /\ memberAnnotations = <<>>
      /\ parameterAnnotations = <<>> /\ constructorParameters = <<>>
  BY DEF TreeInit, AnnotationsInit
<1>2. signatures = <<>> /\ routes = <<>> /\ mounts = <<>> /\ fieldTypes = <<>> /\ written = 0
  BY DEF TreeInit
<1>3. \A A : <<>> \in Seq(A)
  BY EmptySeq
<1>4. Len(base) = 0 /\ 1..Len(base) = {}
  BY <1>1
<1>5. AnnotationTypes
  BY <1>1, <1>3, <1>4 DEF AnnotationTypes, BaseFollows, ClassesAnnotated
<1>6. MaxClasses \in Nat
  BY TreeAssumption
<1>7. optionPaths \in [0..MaxClasses -> Seq(STRING)]
  BY <1>3 DEF TreeInit
<1>8. ClassTypes
  BY <1>1, <1>2, <1>3, <1>4, <1>6, <1>7 DEF ClassTypes
<1> QED BY <1>5, <1>8 DEF DeclarationTypes

LEMMA TypesDeclare ==
  ASSUME DeclarationTypes, NEW b \in 0..Class, Declare(b)
  PROVE  DeclarationTypes'
<1> USE DEF DeclarationTypes
<1>1. AnnotationTypes' /\ Len(base') = Len(base) + 1
  BY AnnotationTypesDeclare DEF Declare
<1>2. Len(base) \in Nat /\ Len(base') <= MaxClasses
  BY <1>1, TreeAssumption DEF Declare, Class, AnnotationTypes, BaseFollows
<1>3. signatures' \in Seq([Methods -> Seq(Signatures)]) /\ Len(signatures') = Len(base')
  <2>1. [m \in Methods |-> <<>>] \in [Methods -> Seq(Signatures)]
    OBVIOUS
  <2> QED BY <1>1, <2>1, Appended DEF ClassTypes, Declare
<1>4. routes' \in Seq(Seq(DeclaredRoutes)) /\ Len(routes') = Len(base')
  <2>1. <<>> \in Seq(DeclaredRoutes)
    OBVIOUS
  <2> QED BY <1>1, <2>1, Appended DEF ClassTypes, Declare
<1>5. mounts' \in Seq(Seq(DeclaredMounts)) /\ Len(mounts') = Len(base')
  <2>1. <<>> \in Seq(DeclaredMounts)
    OBVIOUS
  <2> QED BY <1>1, <2>1, Appended DEF ClassTypes, Declare
<1>6. /\ fieldTypes' \in Seq([Fields -> Nat]) /\ Len(fieldTypes') = Len(base')
      /\ fieldTypes'[Len(base')] = [f \in Fields |-> 0]
      /\ \A c \in 1..Len(base) : fieldTypes'[c] = fieldTypes[c]
  <2>1. [f \in Fields |-> 0] \in [Fields -> Nat]
    OBVIOUS
  <2> QED BY <1>1, <2>1, Appended DEF ClassTypes, Declare
<1>7. ASSUME NEW c \in 1..Len(base'), NEW f \in Fields PROVE fieldTypes'[c][f] <= Len(base')
  <2>1. CASE c = Len(base')
    <3>1. fieldTypes'[c][f] = 0
      BY <1>6, <2>1
    <3> QED BY <1>1, <1>2, <3>1
  <2>2. CASE c # Len(base')
    <3>1. c \in 1..Len(base)
      BY <1>1, <1>2, <2>2
    <3>2. fieldTypes[c][f] <= Len(base) /\ fieldTypes[c][f] \in Nat
      BY <3>1, ElementOfSeq DEF ClassTypes
    <3>3. fieldTypes'[c] = fieldTypes[c]
      BY <1>6, <3>1
    <3> QED BY <1>1, <1>2, <3>2, <3>3
  <2> QED BY <2>1, <2>2
<1>8. written' \in Nat /\ UNCHANGED optionPaths
  BY DEF Declare, Writes, ClassTypes
<1> QED BY <1>1, <1>2, <1>3, <1>4, <1>5, <1>6, <1>7, <1>8 DEF ClassTypes

LEMMA ClassIsDeclared ==
  ASSUME DeclarationTypes, Class # 0
  PROVE  Class \in 1..Len(base) /\ Class = Len(base) /\ Class \in 1..MaxClasses
BY TreeAssumption DEF Class, DeclarationTypes, AnnotationTypes, ClassTypes, BaseFollows

LEMMA TypesMember ==
  ASSUME DeclarationTypes,
         Member \/ \E i \in Positions : DecorateConstructorParameter(i)
  PROVE  DeclarationTypes'
<1> USE DEF DeclarationTypes
<1>1. Members
  BY DEF Member, Method, DecorateParameter, DecorateMethod, Route, DecorateConstructorParameter
<1>2. Class \in 1..Len(base) /\ Class = Len(base)
  BY <1>1, ClassIsDeclared DEF Members
<1>3. UNCHANGED annotationVars => AnnotationTypes'
  BY DEF annotationVars, AnnotationTypes, BaseFollows, ClassesAnnotated
<1>4. \A k \in Nat : Writes(k) => written' \in Nat
  BY DEF Writes, ClassTypes
<1>5. WritesUnread => written' \in Nat
  BY DEF WritesUnread, ClassTypes
<1>6. ASSUME NEW m \in Methods, NEW signature \in Signatures, Method(m, signature) PROVE DeclarationTypes'
  <2> DEFINE own == [signatures[Class] EXCEPT ![m] = <<signature>>]
  <2>1. signatures' = [signatures EXCEPT ![Class] = own]
    BY <1>6 DEF Method
  <2>2. signatures \in Seq([Methods -> Seq(Signatures)]) /\ Class \in 1..Len(signatures)
    BY <1>2 DEF ClassTypes
  <2>3. own \in [Methods -> Seq(Signatures)]
    <3>1. signatures[Class] \in [Methods -> Seq(Signatures)]
      BY <2>2, ElementOfSeq
    <3>2. <<signature>> \in Seq(Signatures)
      OBVIOUS
    <3> QED BY <3>1, <3>2
  <2>4. signatures' \in Seq([Methods -> Seq(Signatures)]) /\ Len(signatures') = Len(signatures)
    <3> HIDE DEF own
    <3> QED BY <2>1, <2>2, <2>3, Updated
  <2>5. Len(signature) \in Nat
    <3>1. signature \in Seq([name : STRING, type : ParameterTypes])
      BY TreeAssumption
    <3> QED BY <3>1
  <2>6. base' = base /\ AnnotationTypes' /\ written' \in Nat
    BY <1>3, <1>4, <1>6, <2>5 DEF Method, annotationVars
  <2>7. UNCHANGED <<routes, mounts, fieldTypes, optionPaths>>
    BY <1>6 DEF Method
  <2> QED BY <2>4, <2>6, <2>7 DEF ClassTypes
<1>7. ASSUME NEW m \in Methods, NEW path \in RoutePaths, Route(m, path) PROVE DeclarationTypes'
  <2> DEFINE own == Append(routes[Class], [method |-> m, path |-> path])
  <2>1. routes' = [routes EXCEPT ![Class] = own]
    BY <1>7 DEF Route
  <2>2. routes \in Seq(Seq(DeclaredRoutes)) /\ Class \in 1..Len(routes)
    BY <1>2 DEF ClassTypes
  <2>3. own \in Seq(DeclaredRoutes)
    <3>1. routes[Class] \in Seq(DeclaredRoutes)
      BY <2>2, ElementOfSeq
    <3>2. [method |-> m, path |-> path] \in DeclaredRoutes
      BY DEF DeclaredRoutes
    <3> QED BY <3>1, <3>2
  <2>4. routes' \in Seq(Seq(DeclaredRoutes)) /\ Len(routes') = Len(routes)
    <3> HIDE DEF own
    <3> QED BY <2>1, <2>2, <2>3, Updated
  <2>5. base' = base /\ AnnotationTypes' /\ written' \in Nat
    BY <1>3, <1>4, <1>7 DEF Route, annotationVars
  <2>6. UNCHANGED <<signatures, mounts, fieldTypes, optionPaths>>
    BY <1>7 DEF Route
  <2> QED BY <2>4, <2>5, <2>6 DEF ClassTypes
<1>8. ASSUME AnnotationTypes', base' = base, written' \in Nat,
             UNCHANGED <<signatures, routes, mounts, fieldTypes, optionPaths>>
      PROVE  DeclarationTypes'
  BY <1>8 DEF ClassTypes
<1>9. ASSUME NEW m \in Methods, NEW i \in Positions, NEW input \in Inputs, DecorateParameter(m, i, input)
      PROVE  DeclarationTypes'
  <2>1. AnnotationTypes' /\ base' = base
    BY <1>2, <1>3, <1>9, AnnotationTypesApply DEF DecorateParameter, Applied, annotationVars, ApplyToParameter
  <2> QED BY <1>4, <1>8, <1>9, <2>1 DEF DecorateParameter
<1>10. ASSUME NEW m \in Methods, DecorateMethod(m) PROVE DeclarationTypes'
  <2>1. [name |-> "Label"] \in Labels
    BY DEF Labels
  <2>2. AnnotationTypes' /\ base' = base
    BY <1>2, <1>3, <1>10, <2>1, AnnotationTypesApply DEF DecorateMethod, Applied, annotationVars, ApplyToMethod
  <2> QED BY <1>5, <1>8, <1>10, <2>2 DEF DecorateMethod
<1>11. ASSUME NEW i \in Positions, DecorateConstructorParameter(i) PROVE DeclarationTypes'
  <2>1. AnnotationTypes' /\ base' = base
    BY <1>2, <1>3, <1>11, AnnotationTypesApply
      DEF DecorateConstructorParameter, Applied, annotationVars, ApplyToConstructorParameter
  <2> QED BY <1>5, <1>8, <1>11, <2>1 DEF DecorateConstructorParameter
<1> QED BY <1>6, <1>7, <1>9, <1>10, <1>11 DEF Member

LEMMA TypesMount ==
  ASSUME DeclarationTypes, NEW f \in Fields, NEW path \in MountPaths, NEW child \in 1..Class,
         Mount(f, path, child)
  PROVE  DeclarationTypes'
<1> USE DEF DeclarationTypes
<1>1. Class \in 1..Len(base) /\ Class = Len(base)
  BY ClassIsDeclared DEF Mount, Members
<1>2. AnnotationTypes' /\ base' = base
  BY DEF Mount, annotationVars, AnnotationTypes, BaseFollows, ClassesAnnotated
<1> DEFINE h == Holder(mounts, Class)
           own == Append(mounts[h], [field |-> f, path |-> path])
           types == [fieldTypes[Class] EXCEPT ![f] = child]
<1>3. h \in 1..Len(base)
  <2>1. h \in 1..Class
    BY <1>1, HolderIs DEF AnnotationTypes
  <2> HIDE DEF h
  <2> QED BY <1>1, <2>1
<1>4. mounts \in Seq(Seq(DeclaredMounts)) /\ h \in 1..Len(mounts)
  BY <1>3 DEF ClassTypes
<1>5. mounts' = [mounts EXCEPT ![h] = own]
  BY DEF Mount
<1>6. own \in Seq(DeclaredMounts)
  <2>1. mounts[h] \in Seq(DeclaredMounts)
    <3> HIDE DEF h
    <3> QED BY <1>4, ElementOfSeq
  <2>2. [field |-> f, path |-> path] \in DeclaredMounts
    BY DEF DeclaredMounts
  <2> QED BY <2>1, <2>2
<1>7. mounts' \in Seq(Seq(DeclaredMounts)) /\ Len(mounts') = Len(mounts)
  <2> HIDE DEF own, h
  <2> QED BY <1>4, <1>5, <1>6, Updated
<1>8. fieldTypes \in Seq([Fields -> Nat]) /\ Class \in 1..Len(fieldTypes)
  BY <1>1 DEF ClassTypes
<1>9. fieldTypes' = [fieldTypes EXCEPT ![Class] = types]
  BY DEF Mount
<1>10. fieldTypes[Class] \in [Fields -> Nat] /\ child \in Nat /\ child <= Len(base)
  BY <1>1, <1>8, ElementOfSeq
<1>11. types \in [Fields -> Nat] /\ types[f] = child /\ \A g \in Fields : g # f => types[g] = fieldTypes[Class][g]
  BY <1>10
<1>12. /\ fieldTypes' \in Seq([Fields -> Nat]) /\ Len(fieldTypes') = Len(fieldTypes)
       /\ fieldTypes'[Class] = types
       /\ \A c \in 1..Len(fieldTypes) : c # Class => fieldTypes'[c] = fieldTypes[c]
  <2> HIDE DEF types
  <2> QED BY <1>8, <1>9, <1>11, Updated
<1>13. ASSUME NEW c \in 1..Len(base), NEW g \in Fields PROVE fieldTypes'[c][g] <= Len(base)
  <2>1. fieldTypes[c][g] <= Len(base) /\ Len(fieldTypes) = Len(base)
    BY DEF ClassTypes
  <2> HIDE DEF types
  <2>2. CASE c = Class /\ g = f
    BY <1>10, <1>11, <1>12, <2>2
  <2>3. CASE c = Class /\ g # f
    BY <1>11, <1>12, <2>1, <2>3
  <2>4. CASE c # Class
    BY <1>12, <2>1, <2>4
  <2> QED BY <2>2, <2>3, <2>4
<1>14. written' \in Nat /\ UNCHANGED <<signatures, routes, optionPaths>>
  BY DEF Mount, Writes, ClassTypes
<1> QED BY <1>2, <1>7, <1>12, <1>13, <1>14 DEF ClassTypes

LEMMA TypesControlled ==
  ASSUME DeclarationTypes, Class # 0, NEW path \in Seq(STRING), NEW shared \in {0, Class},
         NEW guards \in BOOLEAN, Controlled(path, shared, guards),
         UNCHANGED <<signatures, routes, mounts, fieldTypes>>, written' \in Nat
  PROVE  DeclarationTypes' /\ base' = base
<1> USE DEF DeclarationTypes
<1>1. Class \in 1..Len(base) /\ Class = Len(base) /\ shared \in 0..MaxClasses /\ shared \in Nat
  BY ClassIsDeclared, TreeAssumption
<1>2. [name |-> "Controller", path |-> path, options |-> shared, guards |-> guards] \in ControllerAnnotations
  BY <1>1 DEF ControllerAnnotations
<1>3. AnnotationTypes' /\ base' = base
  <2>1. CASE AcceptsClass(ControllerDecorator, Class)
    BY <1>1, <1>2, <2>1, AnnotationTypesApply DEF Controlled, Applied, ApplyToClass
  <2>2. CASE ~AcceptsClass(ControllerDecorator, Class)
    BY <2>2 DEF Controlled, Applied, annotationVars, AnnotationTypes, BaseFollows, ClassesAnnotated
  <2> QED BY <2>1, <2>2
<1>4. optionPaths' \in [0..MaxClasses -> Seq(STRING)]
  BY <1>1 DEF Controlled, ClassTypes
<1> QED BY <1>3, <1>4 DEF ClassTypes

LEMMA TypesTree ==
  ASSUME DeclarationTypes, TreeNext
  PROVE  DeclarationTypes'
<1>1. ASSUME NEW path \in BasePaths, NEW shared \in {0, Class}, Controller(path, shared)
      PROVE  DeclarationTypes'
  <2>1. path \in Seq(STRING) /\ Class # 0 /\ written' \in Nat
    BY <1>1, TreeAssumption DEF Controller, Members, Writes, DeclarationTypes, ClassTypes
  <2> QED BY <1>1, <2>1, TypesControlled DEF Controller
<1>2. ASSUME Build PROVE DeclarationTypes'
  <2>1. <<>> \in Seq(STRING) /\ Class # 0 /\ written' \in Nat
    BY <1>2 DEF Build, DeclarationTypes, ClassTypes
  <2> QED BY <1>2, <2>1, TypesControlled DEF Build
<1>3. ASSUME UNCHANGED declarationVars PROVE DeclarationTypes'
  BY <1>3 DEF declarationVars, annotationVars, DeclarationTypes, AnnotationTypes, ClassTypes,
              BaseFollows, ClassesAnnotated
<1>4. CASE ReflectionFails \/ MountChild \/ MountRecurses \/ RoutesFail \/ Finish
  BY <1>3, <1>4 DEF ReflectionFails, MountChild, MountRecurses, RoutesFail, Finish, Mounting, Building
<1> QED BY <1>1, <1>2, <1>4, TypesDeclare, TypesMember, TypesMount DEF TreeNext

-----------------------------------------------------------------------------
(* What holds between the lists. *)

\* A route is one of a method of its own class.
RoutesSigned ==
  \A c \in 1..Len(base) : \A k \in 1..Len(routes[c]) : signatures[c][routes[c][k].method] # <<>>

\* Options are those all classes share or the own ones of a class, and the path in these is
\* the one of its only annotation.
OptionsKept ==
  /\ \A c \in 1..Len(base) : \A k \in 1..Len(classAnnotations[c]) :
       /\ classAnnotations[c][k].options \in {0, c}
       /\ phase # "refused" /\ classAnnotations[c][k].options = c =>
            optionPaths[c] = classAnnotations[c][k].path
  /\ phase # "refused" =>
       \A c \in 1..MaxClasses :
         (c \in 1..Len(base) => classAnnotations[c] = <<>>) => optionPaths[c] = <<>>

DeclarationInv == DeclarationTypes /\ RoutesSigned /\ OptionsKept

LEMMA RoutesSignedStep ==
  ASSUME DeclarationInv, TreeNext
  PROVE  RoutesSigned'
<1> USE DEF DeclarationInv
<1>1. Len(base) \in Nat /\ Len(routes) = Len(base) /\ Len(signatures) = Len(base)
  BY DEF DeclarationTypes, AnnotationTypes, ClassTypes, BaseFollows
<1>2. routes \in Seq(Seq(DeclaredRoutes)) /\ signatures \in Seq([Methods -> Seq(Signatures)])
  BY DEF DeclarationTypes, ClassTypes
<1>3. ASSUME NEW b \in 0..Class, Declare(b) PROVE RoutesSigned'
  <2>1. Len(base') = Len(base) + 1
    BY <1>3, AnnotationTypesDeclare DEF Declare, DeclarationTypes
  <2>2. <<>> \in Seq(DeclaredRoutes) /\ [m \in Methods |-> <<>>] \in [Methods -> Seq(Signatures)]
    OBVIOUS
  <2>3. routes' = Append(routes, <<>>) /\ signatures' = Append(signatures, [m \in Methods |-> <<>>])
    BY <1>3 DEF Declare
  <2>4. routes'[Len(base) + 1] = <<>> /\ \A c \in 1..Len(base) : routes'[c] = routes[c]
    BY <1>1, <1>2, <2>2, <2>3, Appended
  <2>5. \A c \in 1..Len(base) : signatures'[c] = signatures[c]
    BY <1>1, <1>2, <2>2, <2>3, Appended
  <2>6. ASSUME NEW c \in 1..Len(base'), NEW k \in 1..Len(routes'[c])
        PROVE  signatures'[c][routes'[c][k].method] # <<>>
    <3>1. c \in 1..Len(base) \/ c = Len(base) + 1
      BY <1>1, <2>1
    <3>2. c # Len(base) + 1
      BY <2>4, <2>6
    <3> QED BY <2>4, <2>5, <3>1, <3>2 DEF RoutesSigned
  <2> QED BY <2>6 DEF RoutesSigned
<1>4. ASSUME NEW m \in Methods, NEW signature \in Signatures, Method(m, signature) PROVE RoutesSigned'
  <2>1. base' = base /\ routes' = routes
    BY <1>4 DEF Method, annotationVars
  <2>2. Class \in 1..Len(base)
    BY <1>4, ClassIsDeclared DEF Method, Members
  <2> DEFINE own == [signatures[Class] EXCEPT ![m] = <<signature>>]
  <2>3. signatures' = [signatures EXCEPT ![Class] = own]
    BY <1>4 DEF Method
  <2>4. signatures[Class] \in [Methods -> Seq(Signatures)]
    BY <1>1, <1>2, <2>2, ElementOfSeq
  <2>5. /\ own \in [Methods -> Seq(Signatures)]
        /\ \A l \in Methods : signatures[Class][l] # <<>> => own[l] # <<>>
    <3>1. <<signature>> \in Seq(Signatures) /\ <<signature>> # <<>>
      OBVIOUS
    <3> QED BY <2>4, <3>1
  <2>6. signatures'[Class] = own /\ \A c \in 1..Len(base) : c # Class => signatures'[c] = signatures[c]
    <3> HIDE DEF own
    <3> QED BY <1>1, <1>2, <2>2, <2>3, <2>5, Updated
  <2>7. ASSUME NEW c \in 1..Len(base), NEW k \in 1..Len(routes[c])
        PROVE  signatures'[c][routes[c][k].method] # <<>>
    <3>1. signatures[c][routes[c][k].method] # <<>>
      BY DEF RoutesSigned
    <3>2. routes[c][k].method \in Methods
      <4>1. routes[c] \in Seq(DeclaredRoutes)
        BY <1>1, <1>2, ElementOfSeq
      <4>2. routes[c][k] \in DeclaredRoutes
        BY <4>1, ElementOfSeq
      <4> QED BY <4>2 DEF DeclaredRoutes
    <3> HIDE DEF own
    <3> QED BY <2>5, <2>6, <3>1, <3>2
  <2> QED BY <2>1, <2>7 DEF RoutesSigned
<1>5. ASSUME NEW m \in Methods, NEW path \in RoutePaths, Route(m, path) PROVE RoutesSigned'
  <2>1. base' = base /\ signatures' = signatures
    BY <1>5 DEF Route, annotationVars
  <2>2. Class \in 1..Len(base) /\ signatures[Class][m] # <<>>
    BY <1>5, ClassIsDeclared DEF Route, Members
  <2> DEFINE r == [method |-> m, path |-> path]
             own == Append(routes[Class], r)
  <2>3. routes' = [routes EXCEPT ![Class] = own]
    BY <1>5 DEF Route
  <2>4. routes[Class] \in Seq(DeclaredRoutes) /\ r \in DeclaredRoutes
    BY <1>1, <1>2, <2>2, ElementOfSeq DEF DeclaredRoutes
  <2>5. /\ own \in Seq(DeclaredRoutes) /\ Len(own) = Len(routes[Class]) + 1 /\ Len(routes[Class]) \in Nat
        /\ own[Len(routes[Class]) + 1] = r /\ \A k \in 1..Len(routes[Class]) : own[k] = routes[Class][k]
    <3> HIDE DEF r
    <3> QED BY <2>4, Appended
  <2>6. routes'[Class] = own /\ \A c \in 1..Len(base) : c # Class => routes'[c] = routes[c]
    <3> HIDE DEF own
    <3> QED BY <1>1, <1>2, <2>2, <2>3, <2>5, Updated
  <2>7. ASSUME NEW c \in 1..Len(base), NEW k \in 1..Len(routes'[c])
        PROVE  signatures[c][routes'[c][k].method] # <<>>
    <3>1. CASE c # Class
      BY <2>6, <3>1 DEF RoutesSigned
    <3>2. CASE c = Class /\ k = Len(routes[Class]) + 1
      <4>1. routes'[c][k] = r
        <5> HIDE DEF own, r
        <5> QED BY <2>5, <2>6, <3>2
      <4> HIDE DEF own
      <4> QED BY <2>2, <3>2, <4>1
    <3>3. CASE c = Class /\ k # Len(routes[Class]) + 1
      <4>1. k \in 1..Len(routes[Class]) /\ routes'[c][k] = routes[c][k]
        <5> HIDE DEF own, r
        <5> QED BY <2>5, <2>6, <3>3
      <4> HIDE DEF own
      <4> QED BY <3>3, <4>1 DEF RoutesSigned
    <3> QED BY <3>1, <3>2, <3>3
  <2> QED BY <2>1, <2>7 DEF RoutesSigned
<1>6. ASSUME base' = base, signatures' = signatures, routes' = routes PROVE RoutesSigned'
  BY <1>6 DEF RoutesSigned
<1>7. UNCHANGED annotationVars => base' = base
  BY DEF annotationVars
<1>8. CASE Member
  BY <1>4, <1>5, <1>6, <1>7, <1>8 DEF Member, DecorateParameter, DecorateMethod, Applied,
     ApplyToParameter, ApplyToMethod
<1>9. ASSUME NEW i \in Positions, DecorateConstructorParameter(i) PROVE RoutesSigned'
  BY <1>6, <1>7, <1>9 DEF DecorateConstructorParameter, Applied, ApplyToConstructorParameter
<1>10. ASSUME NEW f \in Fields, NEW path \in MountPaths, NEW child \in 1..Class, Mount(f, path, child)
       PROVE RoutesSigned'
  BY <1>6, <1>7, <1>10 DEF Mount
<1>11. ASSUME NEW path \in BasePaths, NEW shared \in {0, Class}, Controller(path, shared)
       PROVE  RoutesSigned'
  BY <1>6, <1>7, <1>11 DEF Controller, Controlled, Applied, ApplyToClass
<1>12. CASE Build
  BY <1>6, <1>7, <1>12 DEF Build, Controlled, Applied, ApplyToClass
<1>13. CASE ReflectionFails \/ MountChild \/ MountRecurses \/ RoutesFail \/ Finish
  BY <1>6, <1>7, <1>13 DEF ReflectionFails, MountChild, MountRecurses, RoutesFail, Finish, Mounting, Building,
     declarationVars
<1> QED BY <1>3, <1>8, <1>9, <1>10, <1>11, <1>12, <1>13 DEF TreeNext

LEMMA OptionsKeptControlled ==
  ASSUME DeclarationInv, phase # "refused", Class # 0, NEW path \in Seq(STRING), NEW shared \in {0, Class},
         NEW guards \in BOOLEAN, Controlled(path, shared, guards),
         AcceptsClass(ControllerDecorator, Class) \/ phase' = "refused",
         path = <<>> \/ classAnnotations[Class] = <<>>
  PROVE  OptionsKept'
<1> USE DEF DeclarationInv
<1> DEFINE a == [name |-> "Controller", path |-> path, options |-> shared, guards |-> guards]
<1>1. Class \in 1..Len(base) /\ Class \in 1..MaxClasses /\ shared \in 0..MaxClasses /\ shared \in Nat
  BY ClassIsDeclared, TreeAssumption
<1>2. classAnnotations \in Seq(Seq(ControllerAnnotations)) /\ Len(classAnnotations) = Len(base)
  BY DEF DeclarationTypes, AnnotationTypes, ClassesAnnotated
<1>3. optionPaths \in [0..MaxClasses -> Seq(STRING)]
  BY DEF DeclarationTypes, ClassTypes
<1>4. CASE ~AcceptsClass(ControllerDecorator, Class)
  <2>1. base' = base /\ classAnnotations' = classAnnotations /\ phase' = "refused"
    BY <1>4 DEF Controlled, Applied, annotationVars
  <2> QED BY <2>1 DEF OptionsKept
<1>5. CASE AcceptsClass(ControllerDecorator, Class)
  <2>1. classAnnotations[Class] = <<>>
    BY <1>5, AcceptedIsNew DEF DeclarationTypes, AnnotationTypes
  <2>2. base' = base /\ classAnnotations' = [classAnnotations EXCEPT ![Class] = Append(<<>>, a)]
    BY <1>5, <2>1 DEF Controlled, Applied, ApplyToClass
  <2>3. a \in ControllerAnnotations
    BY <1>1 DEF ControllerAnnotations
  <2>4. Append(<<>>, a) = <<a>> /\ <<a>> \in Seq(ControllerAnnotations) /\ Len(<<a>>) = 1 /\ <<a>>[1] = a
    <3> HIDE DEF a
    <3> QED BY <2>3
  <2>5. /\ classAnnotations'[Class] = <<a>>
        /\ \A c \in 1..Len(base) : c # Class => classAnnotations'[c] = classAnnotations[c]
    <3> HIDE DEF a
    <3> QED BY <1>1, <1>2, <2>2, <2>4, Updated
  <2>6. a.options = shared /\ a.path = path
    OBVIOUS
  <2> HIDE DEF a
  <2>7. optionPaths[Class] = <<>>
    BY <1>1, <2>1 DEF OptionsKept
  <2>8. /\ \A o \in 0..MaxClasses : o # shared => optionPaths'[o] = optionPaths[o]
        /\ shared = Class => optionPaths'[Class] = path
        /\ shared # Class => optionPaths'[Class] = <<>>
    BY <1>1, <1>3, <2>7 DEF Controlled
  <2>9. ASSUME NEW c \in 1..Len(base), NEW k \in 1..Len(classAnnotations'[c])
        PROVE  /\ classAnnotations'[c][k].options \in {0, c}
               /\ classAnnotations'[c][k].options = c => optionPaths'[c] = classAnnotations'[c][k].path
    <3>1. CASE c = Class
      <4>1. classAnnotations'[c][k] = a
        BY <2>4, <2>5, <3>1
      <4> QED BY <1>1, <2>6, <2>8, <3>1, <4>1
    <3>2. CASE c # Class
      <4>1. classAnnotations'[c] = classAnnotations[c] /\ c \in 0..MaxClasses /\ c # shared
        <5>1. Len(base) \in Nat /\ Len(base) <= MaxClasses /\ MaxClasses \in Nat
          BY TreeAssumption DEF DeclarationTypes, AnnotationTypes, ClassTypes, BaseFollows
        <5>2. c \in 0..MaxClasses /\ c # 0
          BY <5>1
        <5> QED BY <2>5, <3>2, <5>2
      <4>2. optionPaths'[c] = optionPaths[c]
        BY <2>8, <4>1
      <4> QED BY <4>1, <4>2 DEF OptionsKept
    <3> QED BY <3>1, <3>2
  <2>10. ASSUME NEW c \in 1..MaxClasses, c \in 1..Len(base) => classAnnotations'[c] = <<>>
         PROVE  optionPaths'[c] = <<>>
    <3>1. c # Class
      <4>1. <<a>> # <<>>
        OBVIOUS
      <4> QED BY <1>1, <2>5, <2>10, <4>1
    <3>2. c \in 1..Len(base) => classAnnotations[c] = <<>>
      BY <2>5, <2>10, <3>1
    <3>3. optionPaths[c] = <<>>
      BY <3>2 DEF OptionsKept
    <3>4. c \in 0..MaxClasses /\ c # shared
      BY <3>1, TreeAssumption
    <3> QED BY <2>8, <3>3, <3>4
  <2> QED BY <2>2, <2>9, <2>10 DEF OptionsKept
<1> QED BY <1>4, <1>5

LEMMA OptionsKeptStep ==
  ASSUME DeclarationInv, TreeNext
  PROVE  OptionsKept'
<1> USE DEF DeclarationInv
<1>1. ASSUME base' = base, classAnnotations' = classAnnotations, optionPaths' = optionPaths, phase # "refused"
      PROVE  OptionsKept'
  BY <1>1 DEF OptionsKept
<1>2. UNCHANGED annotationVars => base' = base /\ classAnnotations' = classAnnotations
  BY DEF annotationVars
<1>3. ASSUME NEW b \in 0..Class, Declare(b) PROVE OptionsKept'
  <2>1. Len(base') = Len(base) + 1 /\ Len(base) \in Nat /\ MaxClasses \in Nat
    BY <1>3, AnnotationTypesDeclare, TreeAssumption DEF Declare, DeclarationTypes, AnnotationTypes, BaseFollows
  <2>2. classAnnotations \in Seq(Seq(ControllerAnnotations)) /\ Len(classAnnotations) = Len(base)
    BY DEF DeclarationTypes, AnnotationTypes, ClassesAnnotated
  <2>3. classAnnotations' = Append(classAnnotations, <<>>) /\ <<>> \in Seq(ControllerAnnotations)
    BY <1>3 DEF Declare, DeclareClass
  <2>4. /\ classAnnotations'[Len(base) + 1] = <<>>
        /\ \A c \in 1..Len(base) : classAnnotations'[c] = classAnnotations[c]
    BY <2>2, <2>3, Appended
  <2>5. optionPaths' = optionPaths /\ phase # "refused" /\ phase' = phase
    BY <1>3 DEF Declare
  <2>6. ASSUME NEW c \in 1..Len(base'), NEW k \in 1..Len(classAnnotations'[c])
        PROVE  /\ classAnnotations'[c][k].options \in {0, c}
               /\ classAnnotations'[c][k].options = c => optionPaths[c] = classAnnotations'[c][k].path
    <3>1. c \in 1..Len(base) \/ c = Len(base) + 1
      BY <2>1
    <3>2. c # Len(base) + 1
      BY <2>4, <2>6
    <3> QED BY <2>4, <2>5, <3>1, <3>2 DEF OptionsKept
  <2>7. ASSUME NEW c \in 1..MaxClasses, c \in 1..Len(base') => classAnnotations'[c] = <<>>
        PROVE  optionPaths[c] = <<>>
    <3>1. c \in 1..Len(base) => classAnnotations[c] = <<>>
      BY <2>1, <2>4, <2>7
    <3> QED BY <2>5, <3>1 DEF OptionsKept
  <2> QED BY <2>5, <2>6, <2>7 DEF OptionsKept
<1>4. CASE Member
  BY <1>1, <1>2, <1>4 DEF Member, Method, Route, DecorateParameter, DecorateMethod, Applied,
     ApplyToParameter, ApplyToMethod, Members
<1>5. ASSUME NEW i \in Positions, DecorateConstructorParameter(i) PROVE OptionsKept'
  BY <1>1, <1>2, <1>5 DEF DecorateConstructorParameter, Applied, ApplyToConstructorParameter, Members
<1>6. ASSUME NEW f \in Fields, NEW path \in MountPaths, NEW child \in 1..Class, Mount(f, path, child)
      PROVE  OptionsKept'
  BY <1>1, <1>2, <1>6 DEF Mount, Members
<1>7. ASSUME NEW path \in BasePaths, NEW shared \in {0, Class}, Controller(path, shared)
      PROVE  OptionsKept'
  <2>1. path \in Seq(STRING)
    BY TreeAssumption
  <2> QED BY <1>7, <2>1, OptionsKeptControlled DEF Controller, Members, Unless
<1>8. CASE Build
  <2>1. <<>> \in Seq(STRING)
    OBVIOUS
  <2> QED BY <1>8, <2>1, OptionsKeptControlled DEF Build
<1>9. CASE ReflectionFails \/ MountChild \/ MountRecurses \/ RoutesFail \/ Finish
  BY <1>1, <1>2, <1>9 DEF ReflectionFails, MountChild, MountRecurses, RoutesFail, Finish, Mounting, Building,
     declarationVars
<1> QED BY <1>3, <1>4, <1>5, <1>6, <1>7, <1>8, <1>9 DEF TreeNext

-----------------------------------------------------------------------------
(* The tree of instances. *)

LEMMA BasePathIs ==
  ASSUME DeclarationInv, NEW c \in 1..Len(base)
  PROVE  /\ BasePath(c) \in Seq(STRING) /\ DeclaredBase(c) \in Seq(STRING)
         /\ phase # "refused" /\ ~SharesOptions(c) => BasePath(c) = DeclaredBase(c)
<1> USE DEF DeclarationInv
<1>1. CASE ControllerOf(c) = <<>>
  <2>1. <<>> \in Seq(STRING)
    OBVIOUS
  <2> QED BY <1>1, <2>1 DEF BasePath, DeclaredBase
<1>2. CASE ControllerOf(c) # <<>>
  <2>1. BaseFollows /\ ClassesAnnotated
    BY DEF DeclarationTypes, AnnotationTypes
  <2>2. PICK d \in 1..c : \E i \in 1..Len(classAnnotations[d]) : ControllerOf(c) = <<classAnnotations[d][i]>>
    BY <1>2, <2>1, ControllerIs
  <2>3. PICK i \in 1..Len(classAnnotations[d]) : ControllerOf(c) = <<classAnnotations[d][i]>>
    BY <2>2
  <2> DEFINE a == classAnnotations[d][i]
  <2>4. ControllerOf(c)[1] = a
    BY <2>3
  <2>5. Len(base) \in Nat /\ Len(base) <= MaxClasses /\ MaxClasses \in Nat
    BY <2>1, TreeAssumption DEF DeclarationTypes, ClassTypes, BaseFollows
  <2>6. d \in 1..Len(base) /\ d \in 0..MaxClasses /\ 0 \in 0..MaxClasses
    BY <2>5
  <2>7. a \in ControllerAnnotations
    BY <2>1, <2>6, ElementOfSeq DEF ClassesAnnotated
  <2>8. a.path \in Seq(STRING)
    BY <2>7 DEF ControllerAnnotations
  <2>9. a.options \in {0, d} /\ (phase # "refused" /\ a.options = d => optionPaths[d] = a.path)
    BY <2>6 DEF OptionsKept
  <2>10. optionPaths[a.options] \in Seq(STRING)
    BY <2>6, <2>9 DEF DeclarationTypes, ClassTypes
  <2> HIDE DEF a
  <2>11. BasePath(c) = optionPaths[a.options] /\ DeclaredBase(c) = a.path
    BY <1>2, <2>4 DEF BasePath, DeclaredBase
  <2>12. ~SharesOptions(c) => a.options # 0
    BY <1>2, <2>4 DEF SharesOptions
  <2> QED BY <2>8, <2>9, <2>10, <2>11, <2>12
<1> QED BY <1>1, <1>2

\* What is mounted where, by the lists of a class.
LEMMA MountsAre ==
  ASSUME DeclarationInv, NEW c \in 1..Len(base)
  PROVE  /\ MountsOf(c) \in Seq(DeclaredMounts)
         /\ \A f \in Fields : TypeOf(c, f) \in 0..Len(base)
<1> USE DEF DeclarationInv
<1>1. BaseFollows /\ Len(base) \in Nat
  BY DEF DeclarationTypes, AnnotationTypes, BaseFollows
<1>2. MountsOf(c) \in Seq(DeclaredMounts)
  <2>1. Holder(mounts, c) \in 1..c
    BY <1>1, HolderIs
  <2>2. Holder(mounts, c) \in 1..Len(base)
    BY <1>1, <2>1
  <2> QED BY <2>2, ElementOfSeq DEF MountsOf, DeclarationTypes, ClassTypes
<1>3. ASSUME NEW f \in Fields PROVE TypeOf(c, f) \in 0..Len(base)
  <2> DEFINE having == {i \in DOMAIN Lineage(c) : fieldTypes[Lineage(c)[i]][f] # 0}
             d == Lineage(c)[Max(having)]
  <2>1. CASE having = {}
    BY <1>1, <2>1 DEF TypeOf, Nearest
  <2>2. CASE having # {}
    <3>1. having \in SUBSET DOMAIN Lineage(c)
      OBVIOUS
    <3>2. d \in 1..c
      <4> HIDE DEF having
      <4> QED BY <1>1, <2>2, <3>1, LineagePlace
    <3>3. Nearest(LAMBDA e : fieldTypes[e][f] # 0, c) = d
      BY <2>2 DEF Nearest
    <3> HIDE DEF d
    <3>4. TypeOf(c, f) = fieldTypes[d][f]
      BY <3>2, <3>3 DEF TypeOf
    <3>5. d \in 1..Len(base)
      BY <1>1, <3>2
    <3>6. fieldTypes[d][f] \in Nat /\ fieldTypes[d][f] <= Len(base)
      BY <3>5, ElementOfSeq DEF DeclarationTypes, ClassTypes
    <3> QED BY <1>1, <3>4, <3>6
  <2> QED BY <2>1, <2>2
<1> QED BY <1>2, <1>3

Instances ==
  [class : Nat, prefix : Seq(STRING), parent : Nat,
   mount : [field : Fields \union {"none"}, path : Seq(STRING)], next : Nat \ {0}]

WellMounted(n) ==
  /\ nodes[n].class \in 1..Len(base) /\ nodes[n].parent < n
  /\ n = 1 => nodes[n].prefix = <<>>
  /\ n # 1 => nodes[n].parent # 0 /\ nodes[n].prefix = SubPrefix(nodes[nodes[n].parent], nodes[n].mount)

TreeShape ==
  /\ nodes \in Seq(Instances) /\ \A n \in 1..Len(nodes) : WellMounted(n)
  /\ current \in 0..Len(nodes)
  /\ phase \in {"declaring", "refused"} => nodes = <<>>
  /\ phase = "building" => current # 0
  /\ phase \in {"listening", "answered", "accepted"} => layers = AllLayers

\* What is read of the classes depends on what they declare.
LEMMA SameDeclarations ==
  ASSUME UNCHANGED declarationVars
  PROVE  /\ \A c : BasePath(c)' = BasePath(c) /\ RoutesOf(c)' = RoutesOf(c) /\ ControllerOf(c)' = ControllerOf(c)
         /\ base' = base
<1>1. base' = base /\ classAnnotations' = classAnnotations /\ routes' = routes /\ optionPaths' = optionPaths
  BY DEF declarationVars, annotationVars
<1>2. \A c : Lineage(c)' = Lineage(c)
  BY <1>1 DEF Lineage
<1>3. \A c : ListForClass(c)' = ListForClass(c)
  BY <1>1, <1>2 DEF ListForClass, Combined
<1>4. \A c : ControllerOf(c)' = ControllerOf(c)
  BY <1>3 DEF ControllerOf, ForClass
<1>5. \A c : BasePath(c)' = BasePath(c)
  BY <1>1, <1>4 DEF BasePath
<1>6. \A c : RoutesOf(c)' = RoutesOf(c)
  BY <1>1, <1>2 DEF RoutesOf, Holder
<1> QED BY <1>1, <1>4, <1>5, <1>6

LEMMA SameLayers ==
  ASSUME UNCHANGED <<declarationVars, nodes>>
  PROVE  AllLayers' = AllLayers
<1>1. \A c : BasePath(c)' = BasePath(c) /\ RoutesOf(c)' = RoutesOf(c) /\ ControllerOf(c)' = ControllerOf(c)
  BY SameDeclarations
<1>2. \A n : PathPrefix(n)' = PathPrefix(n) /\ Guards(n)' = Guards(n)
  BY <1>1 DEF PathPrefix, Guards
<1>3. \A n : MiddlewareLayers(n)' = MiddlewareLayers(n)
  BY <1>2 DEF MiddlewareLayers
<1>4. \A n : RouteLayers(n)' = RouteLayers(n)
  BY <1>1, <1>2 DEF RouteLayers
<1> QED BY <1>3, <1>4 DEF AllLayers

\* The parts of a tree that grows or whose instances count on.
LEMMA TreeKept ==
  ASSUME TreeShape, UNCHANGED declarationVars, UNCHANGED nodes, current' \in 0..Len(nodes),
         phase' \notin {"declaring", "refused"}, phase' = "building" => current' # 0,
         phase' \in {"listening", "answered", "accepted"} => layers' = AllLayers
  PROVE  TreeShape'
<1>1. AllLayers' = AllLayers
  BY SameLayers
<1>2. \A c : BasePath(c)' = BasePath(c)
  BY SameDeclarations
<1>3. \A n, m : SubPrefix(n, m)' = SubPrefix(n, m)
  BY <1>2 DEF SubPrefix
<1>4. base' = base
  BY SameDeclarations
<1>5. \A n \in 1..Len(nodes) : WellMounted(n)'
  BY <1>3, <1>4 DEF TreeShape, WellMounted, SubPrefix
<1> QED BY <1>1, <1>5 DEF TreeShape

LEMMA BuildStep ==
  ASSUME DeclarationInv, TreeShape, Build
  PROVE  TreeShape'
<1>1. Class \in 1..Len(base) /\ base' = base
  BY ClassIsDeclared DEF Build, DeclarationInv, Controlled, Applied, ApplyToClass, annotationVars
<1>2. nodes = <<>> /\ current \in 0..Len(nodes)
  BY DEF Build, TreeShape
<1>3. CASE AcceptsClass(ControllerDecorator, Class)
  <2> DEFINE root == Node(Class, <<>>, 0, NoMount)
  <2>1. nodes' = <<root>> /\ current' = 1 /\ phase' = "building"
    BY <1>3 DEF Build
  <2>2. root \in Instances /\ root.class = Class /\ root.parent = 0 /\ root.prefix = <<>>
    BY <1>1 DEF Node, NoMount, Instances
  <2> HIDE DEF root
  <2>3. nodes' \in Seq(Instances) /\ Len(nodes') = 1 /\ nodes'[1] = root
    BY <2>1, <2>2
  <2>4. \A n \in 1..Len(nodes') : WellMounted(n)'
    BY <1>1, <2>2, <2>3 DEF WellMounted
  <2> QED BY <2>1, <2>3, <2>4 DEF TreeShape
<1>4. CASE ~AcceptsClass(ControllerDecorator, Class)
  <2>1. nodes' = nodes /\ current' = current /\ phase' = "refused"
    BY <1>4 DEF Build
  <2> QED BY <1>2, <2>1 DEF TreeShape
<1> QED BY <1>3, <1>4

LEMMA MountChildStep ==
  ASSUME DeclarationInv, TreeShape, MountChild
  PROVE  TreeShape'
<1>1. UNCHANGED declarationVars /\ phase = "building" /\ phase' = phase /\ MountsLeft /\ ~Untyped(This.class)
  BY DEF MountChild, Mounting, Building
<1>2. current \in 1..Len(nodes) /\ nodes \in Seq(Instances)
  BY <1>1 DEF TreeShape
<1>3. This \in Instances /\ This.class \in 1..Len(base)
  BY <1>2, ElementOfSeq DEF This, TreeShape, WellMounted
<1>4. This.next \in 1..Len(MountsOf(This.class)) /\ MountsOf(This.class) \in Seq(DeclaredMounts)
  <2>1. This.next \in Nat \ {0}
    BY <1>3 DEF Instances
  <2>2. MountsOf(This.class) \in Seq(DeclaredMounts)
    BY <1>3, MountsAre
  <2> QED BY <1>1, <2>1, <2>2 DEF MountsLeft
<1>5. NextMount \in DeclaredMounts
  BY <1>4, ElementOfSeq DEF NextMount
<1>6. NextMount.field \in Fields /\ NextMount.path \in Seq(STRING)
  BY <1>5, TreeAssumption DEF DeclaredMounts
<1>7. Mounted \in 1..Len(base)
  <2>1. Mounted \in 0..Len(base)
    BY <1>3, <1>6, MountsAre DEF Mounted
  <2>2. Mounted # 0
    BY <1>1, <1>4 DEF Mounted, NextMount, Untyped
  <2> QED BY <2>1, <2>2
<1>8. BasePath(This.class) \in Seq(STRING)
  BY <1>3, BasePathIs
<1>9. SubPrefix(This, NextMount) \in Seq(STRING)
  <2>1. This.prefix \in Seq(STRING)
    BY <1>3 DEF Instances
  <2> QED BY <1>6, <1>8, <2>1 DEF SubPrefix
<1> DEFINE node == Node(Mounted, SubPrefix(This, NextMount), current, NextMount)
<1>10. /\ node \in Instances /\ node.class = Mounted /\ node.prefix = SubPrefix(This, NextMount)
       /\ node.parent = current /\ node.mount = NextMount
  <2>1. Mounted \in Nat /\ current \in Nat
    BY <1>2, <1>7
  <2>2. NextMount \in [field : Fields \union {"none"}, path : Seq(STRING)]
    BY <1>5, TreeAssumption DEF DeclaredMounts
  <2> QED BY <1>9, <2>1, <2>2 DEF Node, Instances
<1>11. nodes' = Append(nodes, node)
  BY DEF MountChild
<1> HIDE DEF node
<1>12. /\ nodes' \in Seq(Instances) /\ Len(nodes') = Len(nodes) + 1 /\ nodes'[Len(nodes) + 1] = node
       /\ \A n \in 1..Len(nodes) : nodes'[n] = nodes[n]
  BY <1>2, <1>10, <1>11, Appended
<1>13. \A n, m : SubPrefix(n, m)' = SubPrefix(n, m)
  BY <1>1, SameDeclarations DEF SubPrefix
<1>14. base' = base
  BY <1>1, SameDeclarations
<1>15. ASSUME NEW n \in 1..Len(nodes') PROVE WellMounted(n)'
  <2>1. CASE n = Len(nodes) + 1
    <3>1. n # 1 /\ current # 0 /\ current < n /\ nodes'[current] = This
      BY <1>2, <1>12, <2>1 DEF This
    <3>2. nodes'[n] = node
      BY <1>12, <2>1
    <3>3. (nodes[n].prefix = SubPrefix(nodes[nodes[n].parent], nodes[n].mount))'
      BY <1>10, <1>13, <3>1, <3>2 DEF SubPrefix
    <3> QED BY <1>7, <1>10, <1>14, <3>1, <3>2, <3>3 DEF WellMounted
  <2>2. CASE n # Len(nodes) + 1
    <3>1. n \in 1..Len(nodes) /\ WellMounted(n)
      BY <1>2, <1>12, <2>2 DEF TreeShape
    <3>2. nodes'[n] = nodes[n]
      BY <1>12, <3>1
    <3>3. n # 1 => nodes'[nodes[n].parent] = nodes[nodes[n].parent]
      <4>1. nodes[n] \in Instances
        BY <1>2, <3>1, ElementOfSeq
      <4>2. nodes[n].parent \in Nat
        BY <4>1 DEF Instances
      <4>3. n # 1 => nodes[n].parent \in 1..Len(nodes)
        BY <3>1, <4>2 DEF WellMounted
      <4> QED BY <1>12, <4>3
    <3>4. n # 1 => (nodes[n].prefix = SubPrefix(nodes[nodes[n].parent], nodes[n].mount))'
      BY <1>13, <3>1, <3>2, <3>3 DEF WellMounted, SubPrefix
    <3> QED BY <1>14, <3>1, <3>2, <3>4 DEF WellMounted
  <2> QED BY <2>1, <2>2
<1>16. current' = Len(nodes')
  BY DEF MountChild
<1>17. Len(nodes) \in Nat
  BY <1>2
<1> QED BY <1>1, <1>12, <1>15, <1>16, <1>17 DEF TreeShape

LEMMA FinishStep ==
  ASSUME DeclarationInv, TreeShape, Finish
  PROVE  TreeShape'
<1>1. UNCHANGED declarationVars /\ phase = "building" /\ current' = This.parent
  BY DEF Finish, Building
<1>2. current \in 1..Len(nodes) /\ nodes \in Seq(Instances) /\ Len(nodes) \in Nat
  BY <1>1 DEF TreeShape
<1>3. This \in Instances /\ WellMounted(current) /\ This = nodes[current]
  BY <1>2, ElementOfSeq DEF This, TreeShape
<1>4. This.parent \in 0..Len(nodes)
  BY <1>2, <1>3 DEF WellMounted, Instances
<1>5. CASE This.parent = 0
  <2>1. UNCHANGED nodes /\ layers' = AllLayers /\ phase' = "listening"
    BY <1>5 DEF Finish
  <2> QED BY <1>1, <1>4, <2>1, TreeKept
<1>6. CASE This.parent # 0
  <2> DEFINE p == This.parent
             up == [nodes[p] EXCEPT !.next = nodes[p].next + 1]
  <2>1. nodes' = [nodes EXCEPT ![p] = up] /\ phase' = phase
    BY <1>6 DEF Finish
  <2>2. p \in 1..Len(nodes)
    BY <1>4, <1>6
  <2>3. nodes[p] \in Instances
    BY <1>2, <2>2, ElementOfSeq
  <2>4. /\ up \in Instances /\ up.class = nodes[p].class /\ up.prefix = nodes[p].prefix
        /\ up.parent = nodes[p].parent /\ up.mount = nodes[p].mount
    <3> HIDE DEF p
    <3> QED BY <2>3 DEF Instances
  <2> HIDE DEF up, p
  <2>5. /\ nodes' \in Seq(Instances) /\ Len(nodes') = Len(nodes) /\ nodes'[p] = up
        /\ \A n \in 1..Len(nodes) : n # p => nodes'[n] = nodes[n]
    BY <1>2, <2>1, <2>2, <2>4, Updated
  <2>6. \A n \in 1..Len(nodes) :
          /\ nodes'[n].class = nodes[n].class /\ nodes'[n].prefix = nodes[n].prefix
          /\ nodes'[n].parent = nodes[n].parent /\ nodes'[n].mount = nodes[n].mount
    BY <2>4, <2>5
  <2>7. (\A c : BasePath(c)' = BasePath(c)) /\ base' = base
    BY <1>1, SameDeclarations
  <2>8. ASSUME NEW n \in 1..Len(nodes) PROVE WellMounted(n)'
    <3>1. WellMounted(n)
      BY DEF TreeShape
    <3>2. nodes[n].parent \in Nat
      <4>1. nodes[n] \in Instances
        BY <1>2, ElementOfSeq
      <4> QED BY <4>1 DEF Instances
    <3>3. CASE n = 1
      BY <2>6, <2>7, <3>1, <3>3 DEF WellMounted
    <3>4. CASE n # 1
      <4>1. nodes[n].parent \in 1..Len(nodes)
        BY <1>2, <3>1, <3>2, <3>4 DEF WellMounted
      <4>2. SubPrefix(nodes[nodes[n].parent], nodes[n].mount)' = SubPrefix(nodes[nodes[n].parent], nodes[n].mount)
        BY <2>6, <2>7, <4>1 DEF SubPrefix
      <4> QED BY <2>6, <2>7, <3>1, <3>4, <4>2 DEF WellMounted
    <3> QED BY <3>3, <3>4
  <2> QED BY <1>1, <1>4, <1>6, <2>1, <2>5, <2>8 DEF TreeShape
<1> QED BY <1>5, <1>6

LEMMA TreeShapeStep ==
  ASSUME DeclarationInv, TreeShape, TreeNext
  PROVE  TreeShape'
<1>1. ASSUME phase = "declaring", phase' \in {"declaring", "refused"}, UNCHANGED <<nodes, current, layers>>
      PROVE  TreeShape'
  BY <1>1 DEF TreeShape
<1>2. ASSUME NEW b \in 0..Class, Declare(b) PROVE TreeShape'
  BY <1>1, <1>2 DEF Declare
<1>3. CASE Member
  BY <1>1, <1>3 DEF Member, Members, Method, DecorateParameter, DecorateMethod, Route, Unless
<1>4. ASSUME NEW i \in Positions, DecorateConstructorParameter(i) PROVE TreeShape'
  BY <1>1, <1>4 DEF Members, DecorateConstructorParameter, Unless
<1>5. ASSUME NEW f \in Fields, NEW path \in MountPaths, NEW child \in 1..Class, Mount(f, path, child)
      PROVE  TreeShape'
  BY <1>1, <1>5 DEF Members, Mount
<1>6. ASSUME NEW path \in BasePaths, NEW shared \in {0, Class}, Controller(path, shared)
      PROVE  TreeShape'
  BY <1>1, <1>6 DEF Members, Controller, Unless
<1>7. ASSUME ReflectionFails \/ MountRecurses \/ RoutesFail PROVE TreeShape'
  <2>1. /\ UNCHANGED declarationVars /\ UNCHANGED nodes /\ UNCHANGED current
        /\ phase' \in {"untyped", "overflow", "unfulfilled"}
    BY <1>7 DEF ReflectionFails, MountRecurses, RoutesFail, Mounting, Building
  <2>2. current' \in 0..Len(nodes)
    BY <2>1 DEF TreeShape
  <2> QED BY <2>1, <2>2, TreeKept
<1> QED BY <1>2, <1>3, <1>4, <1>5, <1>6, <1>7, BuildStep, MountChildStep, FinishStep DEF TreeNext

-----------------------------------------------------------------------------
(* The service. *)

DeclaredService == DeclarationInv /\ TreeShape

LEMMA ServiceInitially == ServiceInit => DeclaredService
<1> SUFFICES ASSUME ServiceInit PROVE DeclaredService
  OBVIOUS
<1>1. TreeInit /\ phase = "declaring" /\ nodes = <<>> /\ current = 0
  BY DEF ServiceInit, TreeInit
<1>2. DeclarationTypes
  BY <1>1, TypesInitially
<1>3. Len(base) = 0 /\ 1..Len(base) = {}
  BY <1>1 DEF TreeInit, AnnotationsInit
<1>4. \A c \in 1..MaxClasses : optionPaths[c] = <<>>
  BY <1>1, TreeAssumption DEF TreeInit
<1>5. RoutesSigned /\ OptionsKept
  BY <1>3, <1>4 DEF RoutesSigned, OptionsKept
<1>6. TreeShape
  <2>1. nodes \in Seq(Instances) /\ Len(nodes) = 0
    BY <1>1
  <2> QED BY <1>1, <2>1 DEF TreeShape
<1> QED BY <1>2, <1>5, <1>6 DEF DeclaredService, DeclarationInv

\* What the service does once it listens leaves the declarations and the tree alone.
LEMMA DeclarationInvKept ==
  ASSUME DeclarationInv, UNCHANGED declarationVars, phase' # "refused" => phase # "refused"
  PROVE  DeclarationInv'
<1>1. DeclarationTypes'
  BY DEF declarationVars, annotationVars, DeclarationInv, DeclarationTypes, AnnotationTypes, ClassTypes,
         BaseFollows, ClassesAnnotated
<1>2. RoutesSigned'
  BY DEF declarationVars, annotationVars, DeclarationInv, RoutesSigned
<1>3. OptionsKept'
  BY DEF declarationVars, annotationVars, DeclarationInv, OptionsKept
<1> QED BY <1>1, <1>2, <1>3 DEF DeclarationInv

\* encodeAs() or header()
Changes(given) ==
  phase = "responding" /\ made' = given /\ UNCHANGED <<treeVars, answer>>

\* The steps of a service.  Those of a response differ only in what it becomes.
LEMMA ServiceSteps ==
  ASSUME [ServiceNext]_serviceVars
  PROVE  \/ TreeNext
         \/ \E path \in Paths : Unanswered(path)
         \/ \E r \in Requests : Handled(r.path, r.query, r.sent)
         \/ \E given : Makes(given)
         \/ \E given : Changes(given)
         \/ UNCHANGED serviceVars
<1>1. ASSUME NEW encoding \in {"raw", "json"}, Reencodes(encoding) PROVE Changes(Encoded(made, encoding))
  BY <1>1 DEF Reencodes, Changes
<1>2. ASSUME GivesType PROVE Changes(WithOwnType(made))
  BY <1>2 DEF GivesType, Changes
<1> QED BY <1>1, <1>2 DEF ServiceNext, Responds, Constructs

LEMMA ServiceStep == DeclaredService /\ [ServiceNext]_serviceVars => DeclaredService'
<1> SUFFICES ASSUME DeclaredService, [ServiceNext]_serviceVars PROVE DeclaredService'
  OBVIOUS
<1> USE DEF DeclaredService
<1>1. CASE TreeNext
  BY <1>1, TypesTree, RoutesSignedStep, OptionsKeptStep, TreeShapeStep DEF DeclarationInv
<1>2. ASSUME UNCHANGED <<declarationVars, nodes, current, layers>>, phase # "refused",
             phase \in {"listening", "answered", "accepted", "responding"},
             phase' \in {"answered", "accepted", "responding"},
             phase' \in {"answered", "accepted"} => phase = "listening"
      PROVE  DeclaredService'
  <2>1. DeclarationInv'
    BY <1>2, DeclarationInvKept
  <2>2. current' \in 0..Len(nodes)
    BY <1>2 DEF TreeShape
  <2>3. phase' \in {"listening", "answered", "accepted"} => layers' = AllLayers
    BY <1>2 DEF TreeShape
  <2> QED BY <1>2, <2>1, <2>2, <2>3, TreeKept
<1>3. ASSUME NEW path \in Paths, Unanswered(path) PROVE DeclaredService'
  BY <1>2, <1>3 DEF Unanswered
<1>4. ASSUME NEW r \in Requests, Handled(r.path, r.query, r.sent) PROVE DeclaredService'
  <2>1. phase' \in {"answered", "accepted"} /\ phase = "listening"
    BY <1>4 DEF Handled
  <2> QED BY <1>2, <1>4, <2>1 DEF Handled
<1>5. ASSUME NEW given, Makes(given) PROVE DeclaredService'
  BY <1>2, <1>5 DEF Makes
<1>6. ASSUME NEW given, Changes(given) PROVE DeclaredService'
  BY <1>2, <1>6 DEF Changes, treeVars
<1>7. CASE UNCHANGED serviceVars
  <2>1. UNCHANGED <<declarationVars, nodes, current, layers, phase>>
    BY <1>7 DEF serviceVars, treeVars
  <2>2. DeclarationInv'
    BY <2>1, DeclarationInvKept
  <2>3. (\A c : BasePath(c)' = BasePath(c)) /\ base' = base /\ AllLayers' = AllLayers
    BY <2>1, SameDeclarations, SameLayers
  <2>4. \A n \in 1..Len(nodes) : WellMounted(n)'
    BY <2>1, <2>3 DEF TreeShape, WellMounted, SubPrefix
  <2> QED BY <2>1, <2>2, <2>3, <2>4 DEF TreeShape
<1> QED BY <1>1, <1>3, <1>4, <1>5, <1>6, <1>7, ServiceSteps

\* Classes declare what they may, options have the paths of their controllers, and the tree
\* of instances has the paths that its mounts and controllers make.
THEOREM ServiceIsDeclared == ServiceSpec => []DeclaredService
BY ServiceInitially, ServiceStep, PTL DEF ServiceSpec

-----------------------------------------------------------------------------
(* The layers of the engine. *)

LayerRecords ==
  [kind : {"use", "route"}, node : Nat, path : Seq(STRING), route : DeclaredRoutes \union {NoRoute}]

RoutesAt(n) == RoutesOf(nodes[n].class)
UseLayer(n) == Layer("use", n, PathPrefix(n), NoRoute)
RouteLayer(n, k) == Layer("route", n, PathPrefix(n) \o RoutesAt(n)[k].path, RoutesAt(n)[k])

\* A layer of the instance n, the place q of the layers of that instance.
LayerOf(n, q, layer) ==
  \/ q = 1 /\ Guards(n) /\ layer = UseLayer(n)
  \/ \E k \in 1..Len(RoutesAt(n)) : layer = RouteLayer(n, k)

LEMMA LayerIs ==
  ASSUME NEW n, NEW q, NEW layer, LayerOf(n, q, layer)
  PROVE  layer.node = n /\ (q # 1 => layer.kind = "route")
<1>1. CASE q = 1 /\ Guards(n) /\ layer = UseLayer(n)
  BY <1>1 DEF UseLayer, Layer
<1>2. CASE \E k \in 1..Len(RoutesAt(n)) : layer = RouteLayer(n, k)
  BY <1>2 DEF RouteLayer, Layer
<1> QED BY <1>1, <1>2 DEF LayerOf

LEMMA Prepended ==
  ASSUME NEW A, NEW a \in A, NEW s \in Seq(A)
  PROVE  /\ <<a>> \o s \in Seq(A) /\ Len(<<a>> \o s) = Len(s) + 1 /\ (<<a>> \o s)[1] = a
         /\ \A q \in 2..(Len(s) + 1) : (<<a>> \o s)[q] = s[q - 1]
         /\ \A k \in 1..Len(s) : (<<a>> \o s)[k + 1] = s[k]
<1> DEFINE f == <<a>>
<1>0. f \in Seq(A) /\ Len(f) = 1 /\ f[1] = a
  OBVIOUS
<1> HIDE DEF f
<1>1. /\ f \o s \in Seq(A) /\ Len(f \o s) = 1 + Len(s) /\ Len(s) \in Nat
      /\ \A i \in 1..(1 + Len(s)) : (f \o s)[i] = IF i <= 1 THEN f[i] ELSE s[i - 1]
  <2>1. \A i \in 1..(Len(f) + Len(s)) : (f \o s)[i] = IF i <= Len(f) THEN f[i] ELSE s[i - Len(f)]
    BY <1>0, ConcatProperties
  <2>2. f \o s \in Seq(A) /\ Len(f \o s) = Len(f) + Len(s) /\ Len(s) \in Nat
    BY <1>0, ConcatProperties, LenProperties
  <2> QED BY <1>0, <2>1, <2>2
<1> DEFINE g == f \o s
           L == Len(s)
<1> HIDE DEF g, L
<1>2. \A i \in 1..(1 + L) : g[i] = IF i <= 1 THEN f[i] ELSE s[i - 1]
  BY <1>1 DEF g, L
<1>3. L \in Nat /\ Len(g) = 1 + L
  BY <1>1 DEF g, L
<1>4. g[1] = f[1] /\ \A q \in 2..(L + 1) : g[q] = s[q - 1]
  BY <1>2, <1>3
<1>5. ASSUME NEW k \in 1..L PROVE g[k + 1] = s[k]
  <2>1. k + 1 \in 2..(L + 1) /\ k + 1 - 1 = k
    BY <1>3
  <2> QED BY <1>4, <2>1
<1> QED BY <1>0, <1>1, <1>3, <1>4, <1>5 DEF g, L, f

LEMMA RoutesAre ==
  ASSUME DeclarationInv, NEW c \in 1..Len(base)
  PROVE  RoutesOf(c) \in Seq(DeclaredRoutes)
<1>1. BaseFollows /\ routes \in Seq(Seq(DeclaredRoutes)) /\ Len(routes) = Len(base)
  BY DEF DeclarationInv, DeclarationTypes, AnnotationTypes, ClassTypes
<1>2. Holder(routes, c) \in 1..c
  BY <1>1, HolderIs
<1>3. Holder(routes, c) \in 1..Len(routes)
  BY <1>1, <1>2 DEF BaseFollows
<1>4. routes[Holder(routes, c)] \in Seq(DeclaredRoutes)
  BY <1>1, <1>3, ElementOfSeq
<1> QED BY <1>4 DEF RoutesOf

LEMMA PathsAre ==
  ASSUME DeclarationInv, TreeShape, NEW n \in 1..Len(nodes)
  PROVE  /\ nodes[n].class \in 1..Len(base) /\ PathPrefix(n) \in Seq(STRING)
         /\ RoutesAt(n) \in Seq(DeclaredRoutes)
         /\ \A k \in 1..Len(RoutesAt(n)) :
              RoutesAt(n)[k].path \in Seq(STRING) /\ RouteLayer(n, k) \in LayerRecords
         /\ UseLayer(n) \in LayerRecords
<1>1. nodes[n].class \in 1..Len(base) /\ nodes \in Seq(Instances)
  BY DEF TreeShape, WellMounted
<1>2. nodes[n] \in Instances
  BY <1>1, ElementOfSeq
<1>3. BasePath(nodes[n].class) \in Seq(STRING) /\ nodes[n].prefix \in Seq(STRING)
  BY <1>1, <1>2, BasePathIs DEF Instances
<1>4. PathPrefix(n) \in Seq(STRING)
  BY <1>3 DEF PathPrefix
<1>5. RoutesAt(n) \in Seq(DeclaredRoutes)
  BY <1>1, RoutesAre DEF RoutesAt
<1>6. ASSUME NEW k \in 1..Len(RoutesAt(n))
      PROVE  RoutesAt(n)[k].path \in Seq(STRING) /\ RouteLayer(n, k) \in LayerRecords
  <2>1. RoutesAt(n)[k] \in DeclaredRoutes
    BY <1>5, ElementOfSeq
  <2>2. RoutesAt(n)[k].path \in Seq(STRING)
    <3>1. RoutesAt(n)[k].path \in RoutePaths
      BY <2>1 DEF DeclaredRoutes
    <3> QED BY <3>1, TreeAssumption
  <2>3. PathPrefix(n) \o RoutesAt(n)[k].path \in Seq(STRING)
    BY <1>4, <2>2
  <2>4. n \in Nat
    OBVIOUS
  <2> QED BY <2>1, <2>2, <2>3, <2>4 DEF RouteLayer, Layer, LayerRecords
<1>7. UseLayer(n) \in LayerRecords
  <2>1. n \in Nat
    OBVIOUS
  <2> QED BY <1>4, <2>1 DEF UseLayer, Layer, LayerRecords
<1> QED BY <1>1, <1>4, <1>5, <1>6, <1>7

\* The layers of an instance: its middleware first, then each of its routes.
LayersOf(n) == MiddlewareLayers(n) \o RouteLayers(n)

LEMMA LayersOfIs ==
  ASSUME DeclarationInv, TreeShape, NEW n \in 1..Len(nodes)
  PROVE  /\ LayersOf(n) \in Seq(LayerRecords)
         /\ \A q \in 1..Len(LayersOf(n)) : LayerOf(n, q, LayersOf(n)[q])
         /\ Guards(n) => \E q \in 1..Len(LayersOf(n)) : LayersOf(n)[q] = UseLayer(n)
         /\ \A k \in 1..Len(RoutesAt(n)) : \E q \in 1..Len(LayersOf(n)) : LayersOf(n)[q] = RouteLayer(n, k)
<1> DEFINE L == Len(RoutesAt(n))
           front == MiddlewareLayers(n)
           back == RouteLayers(n)
<1>1. /\ RoutesAt(n) \in Seq(DeclaredRoutes) /\ L \in Nat /\ DOMAIN RoutesAt(n) = 1..L
      /\ UseLayer(n) \in LayerRecords /\ \A k \in 1..L : RouteLayer(n, k) \in LayerRecords
  BY PathsAre
<1>2. back = [k \in 1..L |-> RouteLayer(n, k)]
  BY <1>1 DEF RouteLayers, RouteLayer, RoutesAt
<1>3. back \in Seq(LayerRecords) /\ Len(back) = L /\ \A k \in 1..L : back[k] = RouteLayer(n, k)
  <2> HIDE DEF back, L
  <2>1. back \in [1..L -> LayerRecords]
    BY <1>1, <1>2
  <2> QED BY <1>1, <1>2, <2>1, SeqDef
<1>4. LayersOf(n) = front \o back
  BY DEF LayersOf
<1>5. CASE Guards(n)
  <2>1. front = <<UseLayer(n)>>
    BY <1>5 DEF MiddlewareLayers, UseLayer
  <2> HIDE DEF front, back, L
  <2>3. /\ LayersOf(n) \in Seq(LayerRecords) /\ Len(LayersOf(n)) = L + 1
        /\ LayersOf(n)[1] = UseLayer(n)
        /\ \A q \in 2..(L + 1) : LayersOf(n)[q] = back[q - 1]
        /\ \A k \in 1..L : LayersOf(n)[k + 1] = back[k]
    BY <1>1, <1>3, <1>4, <2>1, Prepended
  <2>4. ASSUME NEW q \in 1..Len(LayersOf(n)) PROVE LayerOf(n, q, LayersOf(n)[q])
    <3>1. CASE q = 1
      BY <1>5, <2>3, <3>1 DEF LayerOf
    <3>2. CASE q # 1
      <4>1. q \in 2..(L + 1) /\ q - 1 \in 1..L
        BY <1>1, <2>3, <3>2
      <4>2. LayersOf(n)[q] = RouteLayer(n, q - 1)
        BY <1>3, <2>3, <4>1
      <4> QED BY <4>1, <4>2 DEF LayerOf, L
    <3> QED BY <3>1, <3>2
  <2>5. ASSUME NEW k \in 1..L PROVE \E q \in 1..Len(LayersOf(n)) : LayersOf(n)[q] = RouteLayer(n, k)
    <3>1. k + 1 \in 1..Len(LayersOf(n)) /\ LayersOf(n)[k + 1] = RouteLayer(n, k)
      BY <1>1, <1>3, <2>3
    <3> QED BY <3>1
  <2>6. 1 \in 1..Len(LayersOf(n))
    BY <1>1, <2>3
  <2> QED BY <2>3, <2>4, <2>5, <2>6 DEF L
<1>6. CASE ~Guards(n)
  <2>1. front = <<>>
    BY <1>6 DEF MiddlewareLayers
  <2> HIDE DEF front, back, L
  <2>2. LayersOf(n) = back
    BY <1>3, <1>4, <2>1
  <2>3. \A q \in 1..Len(LayersOf(n)) : LayerOf(n, q, LayersOf(n)[q])
    BY <1>3, <2>2 DEF LayerOf, L
  <2> QED BY <1>3, <1>6, <2>2, <2>3 DEF L
<1> QED BY <1>5, <1>6

\* All layers: of which instance each is, every one that there must be, in the order of the
\* instances and the middleware of each before its routes.
LayersInOrder(F) ==
  /\ F \in Seq(LayerRecords)
  /\ \A i \in 1..Len(F) : F[i].node \in 1..Len(nodes) /\ \E q \in Nat : LayerOf(F[i].node, q, F[i])
  /\ \A n \in 1..Len(nodes) : Guards(n) => \E i \in 1..Len(F) : F[i] = UseLayer(n)
  /\ \A n \in 1..Len(nodes) : \A k \in 1..Len(RoutesAt(n)) :
       \E i \in 1..Len(F) : F[i] = RouteLayer(n, k)
  /\ \A i, j \in 1..Len(F) : i < j =>
       F[i].node <= F[j].node /\ (F[i].node = F[j].node => F[j].kind = "route")

LEMMA LayersAre ==
  ASSUME DeclarationInv, TreeShape
  PROVE  LayersInOrder(AllLayers)
<1> DEFINE N == Len(nodes)
           S == [n \in DOMAIN nodes |-> MiddlewareLayers(n) \o RouteLayers(n)]
           F == AllLayers
<1>1. nodes \in Seq(Instances) /\ N \in Nat /\ DOMAIN nodes = 1..N
  BY DEF TreeShape
<1>2. F = FlattenSeq(S)
  BY DEF AllLayers
<1>3. S = [n \in 1..N |-> LayersOf(n)]
  BY <1>1 DEF LayersOf
<1>4. S \in Seq(Seq(LayerRecords)) /\ Len(S) = N /\ \A n \in 1..N : S[n] = LayersOf(n)
  <2> HIDE DEF S
  <2>1. S \in [1..N -> Seq(LayerRecords)]
    BY <1>3, LayersOfIs
  <2> HIDE DEF N
  <2> QED BY <1>1, <1>3, <2>1, SeqDef
<1>5. F \in Seq(LayerRecords) /\ \E of, place : InOrder(of, place, F, S, Len(S))
  <2> HIDE DEF S, F
  <2> QED BY <1>2, <1>4, FlatIs
<1>6. PICK of, place : InOrder(of, place, F, S, Len(S))
  BY <1>5
<1> HIDE DEF F, S
<1>7. ASSUME NEW i \in 1..Len(F)
      PROVE  /\ of[i] \in 1..N /\ place[i] \in Nat /\ place[i] \in 1..Len(LayersOf(of[i]))
             /\ F[i] = LayersOf(of[i])[place[i]]
  BY <1>4, <1>6 DEF InOrder
<1>8. ASSUME NEW i \in 1..Len(F)
      PROVE  F[i].node = of[i] /\ LayerOf(of[i], place[i], F[i])
  <2>1. LayerOf(of[i], place[i], F[i])
    BY <1>7, LayersOfIs
  <2> QED BY <2>1, LayerIs
<1>9. ASSUME NEW n \in 1..N, NEW l, \E q \in 1..Len(LayersOf(n)) : LayersOf(n)[q] = l
      PROVE  \E i \in 1..Len(F) : F[i] = l
  <2>1. PICK q \in 1..Len(LayersOf(n)) : LayersOf(n)[q] = l
    BY <1>9
  <2>2. \A j \in 1..Len(S) : \A p \in 1..Len(S[j]) : \E k \in 1..Len(F) : of[k] = j /\ place[k] = p
    BY <1>6 DEF InOrder
  <2>3. PICK i \in 1..Len(F) : of[i] = n /\ place[i] = q
    BY <1>4, <2>1, <2>2
  <2> QED BY <1>7, <2>1, <2>3
<1>10. ASSUME NEW i \in 1..Len(F), NEW j \in 1..Len(F), i < j
       PROVE  F[i].node <= F[j].node /\ (F[i].node = F[j].node => F[j].kind = "route")
  <2>1. of[i] < of[j] \/ (of[i] = of[j] /\ place[i] < place[j])
    BY <1>6, <1>10 DEF InOrder
  <2>2. of[i] \in Nat /\ of[j] \in Nat /\ place[i] \in Nat /\ place[j] \in Nat /\ place[i] >= 1
    BY <1>1, <1>7
  <2>3. F[i].node = of[i] /\ F[j].node = of[j] /\ LayerOf(of[j], place[j], F[j])
    BY <1>8
  <2>4. of[i] = of[j] => place[j] # 1
    BY <2>1, <2>2
  <2>5. of[i] = of[j] => F[j].kind = "route"
    BY <2>3, <2>4, LayerIs
  <2> QED BY <2>1, <2>2, <2>3, <2>5
<1>11. \A n \in 1..N : Guards(n) => \E i \in 1..Len(F) : F[i] = UseLayer(n)
  BY <1>9, LayersOfIs
<1>12. \A n \in 1..N : \A k \in 1..Len(RoutesAt(n)) : \E i \in 1..Len(F) : F[i] = RouteLayer(n, k)
  <2> SUFFICES ASSUME NEW n \in 1..N, NEW k \in 1..Len(RoutesAt(n))
               PROVE  \E i \in 1..Len(F) : F[i] = RouteLayer(n, k)
    OBVIOUS
  <2>1. \E q \in 1..Len(LayersOf(n)) : LayersOf(n)[q] = RouteLayer(n, k)
    BY LayersOfIs
  <2> QED BY <1>9, <2>1
<1>13. \A i \in 1..Len(F) : F[i].node \in 1..N /\ \E q \in Nat : LayerOf(F[i].node, q, F[i])
  <2> SUFFICES ASSUME NEW i \in 1..Len(F)
               PROVE  F[i].node \in 1..N /\ \E q \in Nat : LayerOf(F[i].node, q, F[i])
    OBVIOUS
  <2> QED BY <1>7, <1>8
<1> QED BY <1>5, <1>10, <1>11, <1>12, <1>13 DEF LayersInOrder, F

LEMMA Regrouped ==
  ASSUME NEW A, NEW s \in Seq(A), NEW t \in Seq(A), NEW u \in Seq(A)
  PROVE  (s \o t) \o u = s \o (t \o u) /\ s \o t \in Seq(A) /\ t \o u \in Seq(A)
<1>1. (s \o t) \o u = s \o (t \o u)
  BY ConcatAssociative
<1>2. s \o t \in Seq(A) /\ t \o u \in Seq(A)
  BY ConcatProperties
<1> QED BY <1>1, <1>2

\* The path of an instance continues that of each it is mounted under.
Below(a, n) == \E rest \in Seq(STRING) : PathPrefix(n) = PathPrefix(a) \o rest

LEMMA PrefixIs ==
  ASSUME DeclarationInv, TreeShape, NEW n \in 1..Len(nodes), n # 1
  PROVE  /\ nodes[n].parent \in 1..Len(nodes) /\ nodes[n].parent < n
         /\ nodes[n].mount.path \in Seq(STRING) /\ BasePath(nodes[n].class) \in Seq(STRING)
         /\ PathPrefix(n) = PathPrefix(nodes[n].parent) \o nodes[n].mount.path \o BasePath(nodes[n].class)
<1>1. nodes[n] \in Instances
  BY ElementOfSeq DEF TreeShape
<1>2. nodes[n].parent \in Nat /\ nodes[n].mount.path \in Seq(STRING)
  <2>1. nodes[n].mount \in [field : Fields \union {"none"}, path : Seq(STRING)]
    BY <1>1 DEF Instances
  <2> QED BY <1>1, <2>1 DEF Instances
<1>3. WellMounted(n) /\ Len(nodes) \in Nat
  BY DEF TreeShape
<1>4. nodes[n].parent \in 1..Len(nodes) /\ nodes[n].parent < n
  BY <1>2, <1>3 DEF WellMounted
<1>5. BasePath(nodes[n].class) \in Seq(STRING)
  BY <1>3, BasePathIs DEF WellMounted
<1>6. nodes[n].prefix = PathPrefix(nodes[n].parent) \o nodes[n].mount.path
  BY <1>3 DEF WellMounted, SubPrefix, PathPrefix
<1>7. PathPrefix(n) = PathPrefix(nodes[n].parent) \o nodes[n].mount.path \o BasePath(nodes[n].class)
  BY <1>6 DEF PathPrefix
<1> QED BY <1>2, <1>4, <1>5, <1>7

LEMMA ParentsAre ==
  ASSUME TreeShape
  PROVE  ParentsFollow
<1>1. nodes \in Seq(Instances)
  BY DEF TreeShape
<1>2. \A n \in 1..Len(nodes) : nodes[n].parent \in Nat /\ nodes[n].parent < n
  <2> SUFFICES ASSUME NEW n \in 1..Len(nodes) PROVE nodes[n].parent \in Nat /\ nodes[n].parent < n
    OBVIOUS
  <2>1. nodes[n] \in Instances
    BY <1>1, ElementOfSeq
  <2> QED BY <2>1 DEF Instances, TreeShape, WellMounted
<1> QED BY <1>1, <1>2 DEF ParentsFollow

\* Those an instance is mounted under come before it.
Under(n) == \A a \in Ancestry(n) : a \in 1..n /\ Below(a, n)

LEMMA AncestorsAreAbove ==
  ASSUME DeclarationInv, TreeShape, NEW n \in 1..Len(nodes)
  PROVE  Under(n)
<1> DEFINE N == Len(nodes)
           T == {m \in 1..N : ~Under(m)}
<1>1. N \in Nat /\ \A m \in 1..N : m \in Nat
  BY DEF TreeShape
<1>2. ASSUME NEW m \in 1..N, m # 1 => Under(nodes[m].parent) PROVE Under(m)
  <2>1. /\ Ancestry(0) = {} /\ Ancestry(m) = {m} \union Ancestry(nodes[m].parent)
        /\ Ancestry(m) \subseteq 1..m
    BY ParentsAre, AncestryIs
  <2>2. ASSUME NEW a \in Ancestry(m) PROVE Below(a, m)
    <3>1. CASE a = m
      <4>1. PathPrefix(m) \in Seq(STRING)
        BY PathsAre
      <4>2. PathPrefix(m) = PathPrefix(a) \o <<>> /\ <<>> \in Seq(STRING)
        BY <3>1, <4>1, ConcatEmptySeq
      <4> QED BY <4>2 DEF Below
    <3>2. CASE a # m
      <4>1. m # 1
        <5> SUFFICES ASSUME m = 1 PROVE FALSE
          OBVIOUS
        <5>1. nodes[m].parent \in Nat /\ nodes[m].parent < m
          BY ParentsAre DEF ParentsFollow
        <5>2. nodes[m].parent = 0
          BY <5>1
        <5> QED BY <2>1, <3>2, <5>2
      <4> DEFINE p == nodes[m].parent
                 x == nodes[m].mount.path
                 y == BasePath(nodes[m].class)
      <4>2. p \in 1..N /\ x \in Seq(STRING) /\ y \in Seq(STRING) /\ PathPrefix(m) = PathPrefix(p) \o x \o y
        BY <4>1, PrefixIs
      <4>3. a \in Ancestry(p)
        BY <2>1, <3>2
      <4> HIDE DEF x, y, p
      <4>4. PICK rest \in Seq(STRING) : PathPrefix(p) = PathPrefix(a) \o rest
        BY <1>2, <4>1, <4>3 DEF Under, Below, p
      <4>5. a \in 1..N
        BY <1>1, <2>1
      <4>6. PathPrefix(a) \in Seq(STRING)
        BY <4>5, PathsAre
      <4> DEFINE q == PathPrefix(a)
      <4> HIDE DEF q
      <4>7. q \in Seq(STRING) /\ PathPrefix(m) = ((q \o rest) \o x) \o y
        BY <4>2, <4>4, <4>6 DEF q
      <4>8. (q \o rest) \o x = q \o (rest \o x) /\ rest \o x \in Seq(STRING)
        BY <4>2, <4>7, Regrouped
      <4>9. (q \o (rest \o x)) \o y = q \o ((rest \o x) \o y) /\ (rest \o x) \o y \in Seq(STRING)
        <5> DEFINE z == rest \o x
        <5> HIDE DEF z
        <5>1. z \in Seq(STRING) /\ y \in Seq(STRING) /\ q \in Seq(STRING)
          BY <4>2, <4>7, <4>8 DEF z
        <5>2. (q \o z) \o y = q \o (z \o y) /\ z \o y \in Seq(STRING)
          BY <5>1, Regrouped
        <5> QED BY <5>2 DEF z
      <4>10. PathPrefix(m) = q \o ((rest \o x) \o y)
        BY <4>7, <4>8, <4>9
      <4> QED BY <4>9, <4>10 DEF Below, q
    <3> QED BY <3>1, <3>2
  <2> QED BY <2>1, <2>2 DEF Under
<1>3. T = {}
  <2> SUFFICES ASSUME T # {} PROVE FALSE
    OBVIOUS
  <2>1. PICK m \in T : \A k \in T : m <= k
    <3>1. T \in SUBSET Nat
      BY <1>1
    <3> HIDE DEF T
    <3> QED BY <3>1, Smallest
  <2>2. m \in 1..N /\ ~Under(m)
    OBVIOUS
  <2>3. m # 1 => nodes[m].parent \in 1..N /\ ~(m <= nodes[m].parent)
    <3>1. m \in Nat /\ (m # 1 => nodes[m].parent \in 1..N /\ nodes[m].parent < m)
      <4> HIDE DEF T
      <4> QED BY <1>1, <2>2, PrefixIs DEF N
    <3> HIDE DEF T, N
    <3> QED BY <1>1, <3>1
  <2>4. m # 1 => nodes[m].parent \notin T
    <3> HIDE DEF T
    <3> QED BY <2>1, <2>3
  <2>5. m # 1 => Under(nodes[m].parent)
    BY <2>3, <2>4
  <2> QED BY <1>2, <2>2, <2>5
<1> QED BY <1>3

-----------------------------------------------------------------------------
(* A request. *)

\* The route that answers is one of an instance, at its path.
LEMMA AnsweringIs ==
  ASSUME DeclarationInv, TreeShape, layers = AllLayers, NEW path, Answering(path) <= Len(layers)
  PROVE  LET i == Answering(path)
             n == layers[i].node
         IN  /\ i \in 1..Len(layers) /\ Fits(layers[i], path) /\ layers[i].kind = "route"
             /\ n \in 1..Len(nodes)
             /\ \E k \in 1..Len(RoutesAt(n)) : layers[i] = RouteLayer(n, k)
<1> DEFINE fitting == {i \in DOMAIN layers : layers[i].kind = "route" /\ Fits(layers[i], path)}
           i == Answering(path)
           n == layers[i].node
<1>1. LayersInOrder(layers)
  BY LayersAre
<1>2. DOMAIN layers = 1..Len(layers) /\ Len(layers) \in Nat
  BY <1>1 DEF LayersInOrder
<1>3. i = IF fitting = {} THEN Len(layers) + 1 ELSE Min(fitting)
  BY DEF Answering
<1>4. fitting # {} /\ i = Min(fitting)
  <2> HIDE DEF fitting, i
  <2> QED BY <1>2, <1>3 DEF i
<1>5. fitting \in SUBSET Nat
  BY <1>2
<1>6. i \in fitting
  <2> HIDE DEF fitting, i
  <2> QED BY <1>4, <1>5, MinIs
<1>7. i \in 1..Len(layers) /\ layers[i].kind = "route" /\ Fits(layers[i], path)
  <2> HIDE DEF i
  <2> QED BY <1>2, <1>6
<1>8. n \in 1..Len(nodes) /\ \E q \in Nat : LayerOf(n, q, layers[i])
  <2> HIDE DEF i
  <2> QED BY <1>1, <1>7 DEF LayersInOrder
<1>9. layers[i] # UseLayer(n)
  BY <1>7 DEF UseLayer, Layer
<1>10. \E k \in 1..Len(RoutesAt(n)) : layers[i] = RouteLayer(n, k)
  BY <1>8, <1>9 DEF LayerOf
<1> QED BY <1>7, <1>8, <1>10

\* A path that fits a longer pattern fits what the pattern begins with.
LEMMA BeginningFits ==
  ASSUME NEW p \in Seq(STRING), NEW q \in Seq(STRING), NEW path,
         Len(p \o q) = Len(path), Matches(p \o q, path)
  PROVE  Len(p) <= Len(path) /\ Matches(p, path)
<1>1. Len(p \o q) = Len(p) + Len(q) /\ Len(p) \in Nat /\ Len(q) \in Nat /\ p \o q \in Seq(STRING)
  BY ConcatProperties, LenProperties
<1>2. \A i \in 1..Len(p) : i \in 1..(Len(p) + Len(q)) /\ i <= Len(p)
  BY <1>1
<1>3. \A i \in 1..Len(p) : (p \o q)[i] = p[i]
  BY <1>2, ConcatProperties
<1>4. DOMAIN p = 1..Len(p) /\ DOMAIN (p \o q) = 1..(Len(p) + Len(q))
  BY <1>1
<1>5. \A i \in 1..Len(p) : p[i] \in {":id", path[i]}
  BY <1>2, <1>3, <1>4 DEF Matches
<1> QED BY <1>1, <1>4, <1>5 DEF Matches

LEMMA GuardsPass ==
  ASSUME DeclarationInv, TreeShape, layers = AllLayers, NEW path, Answering(path) <= Len(layers),
         NEW a \in Ancestry(layers[Answering(path)].node), Guards(a)
  PROVE  a \in Passed(path)
<1> DEFINE i == Answering(path)
           n == layers[i].node
<1>1. /\ i \in 1..Len(layers) /\ Fits(layers[i], path) /\ layers[i].kind = "route" /\ n \in 1..Len(nodes)
      /\ \E k \in 1..Len(RoutesAt(n)) : layers[i] = RouteLayer(n, k)
  BY AnsweringIs
<1>2. PICK k \in 1..Len(RoutesAt(n)) : layers[i] = RouteLayer(n, k)
  BY <1>1
<1> HIDE DEF i
<1>3. LayersInOrder(layers) /\ Len(layers) \in Nat
  <2>1. LayersInOrder(layers)
    BY LayersAre
  <2>2. layers \in Seq(LayerRecords)
    BY <2>1 DEF LayersInOrder
  <2> QED BY <2>1, <2>2, LenProperties
<1>4. a \in 1..n /\ Below(a, n)
  BY <1>1, AncestorsAreAbove DEF Under, i
<1>5. a \in 1..Len(nodes) /\ a <= n /\ n \in Nat /\ a \in Nat
  BY <1>1, <1>4
<1>6. PICK j \in 1..Len(layers) : layers[j] = UseLayer(a)
  BY <1>3, <1>5 DEF LayersInOrder
<1>7. layers[j].kind = "use" /\ layers[j].node = a /\ layers[j].path = PathPrefix(a)
  BY <1>6 DEF UseLayer, Layer
<1>8. j < i
  <2> SUFFICES ASSUME ~(j < i) PROVE FALSE
    OBVIOUS
  <2>1. i < j
    <3>1. i # j
      BY <1>1, <1>7
    <3> QED BY <1>1, <1>3, <3>1
  <2>2. n <= a /\ (n = a => layers[j].kind = "route")
    BY <1>1, <1>3, <1>7, <2>1 DEF LayersInOrder
  <2> QED BY <1>5, <1>7, <2>2
<1>9. Fits(layers[j], path)
  <2>1. PICK rest \in Seq(STRING) : PathPrefix(n) = PathPrefix(a) \o rest
    BY <1>4 DEF Below
  <2> DEFINE p == PathPrefix(a)
             x == RoutesAt(n)[k].path
  <2>2. p \in Seq(STRING) /\ x \in Seq(STRING)
    BY <1>1, <1>5, PathsAre
  <2>3. layers[i].path = (p \o rest) \o x
    <3>1. layers[i].path = PathPrefix(n) \o x
      <4> HIDE DEF n
      <4> QED BY <1>2 DEF RouteLayer, Layer
    <3> QED BY <2>1, <3>1
  <2>4. Len(layers[i].path) = Len(path) /\ Matches(layers[i].path, path)
    BY <1>1 DEF Fits
  <2> HIDE DEF p, x
  <2>5. layers[i].path = p \o (rest \o x) /\ rest \o x \in Seq(STRING)
    <3>1. (p \o rest) \o x = p \o (rest \o x) /\ rest \o x \in Seq(STRING)
      BY <2>2, Regrouped
    <3> QED BY <2>3, <3>1
  <2>6. Len(p) <= Len(path) /\ Matches(p, path)
    BY <2>2, <2>4, <2>5, BeginningFits
  <2> QED BY <1>7, <2>6 DEF Fits, p
<1>10. j \in 1..(Answering(path) - 1)
  BY <1>1, <1>3, <1>8 DEF i
<1> QED BY <1>7, <1>9, <1>10 DEF Passed

\* What listens, answers or responds is left to the engine; nothing is built any more.
LEMMA NotBuiltLater ==
  ASSUME TreeNext
  PROVE  /\ phase \in {"declaring", "building"}
         /\ phase' \in {"declaring", "refused", "building", "untyped", "overflow", "unfulfilled", "listening"}
<1>1. ASSUME NEW b \in 0..Class, Declare(b) PROVE phase = "declaring" /\ phase' = phase
  BY <1>1 DEF Declare
<1>2. CASE Member
  BY <1>2 DEF Member, Members, Method, DecorateParameter, DecorateMethod, Route, Unless
<1>3. ASSUME NEW i \in Positions, DecorateConstructorParameter(i)
      PROVE  phase = "declaring" /\ phase' \in {"declaring", "refused"}
  BY <1>3 DEF Members, DecorateConstructorParameter, Unless
<1>4. ASSUME NEW f \in Fields, NEW path \in MountPaths, NEW child \in 1..Class, Mount(f, path, child)
      PROVE  phase = "declaring" /\ phase' = phase
  BY <1>4 DEF Mount, Members
<1>5. ASSUME NEW path \in BasePaths, NEW shared \in {0, Class}, Controller(path, shared)
      PROVE  phase = "declaring" /\ phase' \in {"declaring", "refused"}
  BY <1>5 DEF Controller, Members, Unless
<1>6. CASE Build
  BY <1>6 DEF Build
<1>7. CASE ReflectionFails \/ MountRecurses \/ RoutesFail \/ MountChild \/ Finish
  <2>1. phase = "building"
    BY <1>7 DEF ReflectionFails, MountRecurses, RoutesFail, MountChild, Finish, Mounting, Building
  <2>2. phase' \in {"building", "untyped", "overflow", "unfulfilled", "listening"}
    BY <1>7, <2>1 DEF ReflectionFails, MountRecurses, RoutesFail, MountChild, Finish
  <2> QED BY <2>1, <2>2
<1> QED BY <1>1, <1>2, <1>3, <1>4, <1>5, <1>6, <1>7 DEF TreeNext

LEMMA SameAncestors ==
  ASSUME UNCHANGED declarationVars, UNCHANGED nodes
  PROVE  \A n : Ancestry(n)' = Ancestry(n) /\ Guards(n)' = Guards(n)
<1>1. \A c : ControllerOf(c)' = ControllerOf(c)
  BY SameDeclarations
<1>2. \A n : Guards(n)' = Guards(n)
  BY <1>1 DEF Guards
<1>3. \A n : Ancestry(n)' = Ancestry(n)
  BY DEF Ancestry
<1> QED BY <1>2, <1>3

LEMMA AncestryOfAnswer ==
  ASSUME UNCHANGED nodes, NEW n, answer'.node = n
  PROVE  Ancestry(answer.node)' = Ancestry(n)
<1> DEFINE up == CHOOSE g : g = [k \in 0..Len(nodes) |-> IF k = 0 THEN {} ELSE {k} \union g[nodes[k].parent]]
<1>1. up' = up
  OBVIOUS
<1>2. Ancestry(answer.node)' = up'[answer'.node] /\ Ancestry(n) = up[n]
  BY DEF Ancestry
<1> HIDE DEF up
<1> QED BY <1>1, <1>2

\* What a request comes to: the arguments where all of them are accepted.
LEMMA HandledIs ==
  ASSUME NEW path, NEW query, NEW sent, Handled(path, query, sent)
  PROVE  LET layer == layers[Answering(path)] IN
         /\ \E arguments, status : answer' = Answer(layer.node, Passed(path), arguments, status)
         /\ phase' \in {"answered", "accepted"}
         /\ phase' = "accepted" => \E body :
              /\ answer' = Answer(layer.node, Passed(path), Arguments(layer, path, query, body), 200)
              /\ \A i \in DOMAIN Arguments(layer, path, query, body) :
                   Arguments(layer, path, query, body)[i].got.status = 200
<1> DEFINE layer == layers[Answering(path)]
           class == nodes[layer.node].class
           format == BodyFormat(RecordedTypes(class, layer.route.method),
                                InputsOf(class, layer.route.method))
           body == ParsedBody(format, sent)
           arguments == Arguments(layer, path, query, body)
           refused == {i \in DOMAIN arguments : arguments[i].got.status # 200}
<1>1. IF NotJSON(format, sent)
      THEN answer' = Answer(layer.node, Passed(path), <<>>, 400) /\ phase' = "answered"
      ELSE IF refused # {}
      THEN /\ answer' = Answer(layer.node, Passed(path), <<>>, arguments[Min(refused)].got.status)
           /\ phase' = "answered"
      ELSE answer' = Answer(layer.node, Passed(path), arguments, 200) /\ phase' = "accepted"
  BY DEF Handled
<1> HIDE DEF layer, class, format, body
<1>2. CASE NotJSON(format, sent)
  BY <1>1, <1>2 DEF layer
<1>3. CASE ~ NotJSON(format, sent) /\ refused # {}
  <2> DEFINE status == arguments[Min(refused)].got.status
  <2>1. answer' = Answer(layer.node, Passed(path), <<>>, status) /\ phase' = "answered"
    BY <1>1, <1>3
  <2> HIDE DEF status
  <2> QED BY <2>1 DEF layer
<1>4. CASE ~ NotJSON(format, sent) /\ refused = {}
  <2>1. answer' = Answer(layer.node, Passed(path), arguments, 200) /\ phase' = "accepted"
    BY <1>1, <1>4
  <2>2. \A i \in DOMAIN arguments : arguments[i].got.status = 200
    BY <1>4
  <2> QED BY <2>1, <2>2 DEF layer
<1> QED BY <1>2, <1>3, <1>4

LEMMA GuardedStep ==
  DeclaredService /\ GuardedByAncestors /\ [ServiceNext]_serviceVars => GuardedByAncestors'
<1> SUFFICES ASSUME DeclaredService, GuardedByAncestors, [ServiceNext]_serviceVars
             PROVE  GuardedByAncestors'
  OBVIOUS
<1>1. CASE TreeNext
  BY <1>1, NotBuiltLater DEF GuardedByAncestors
<1>2. ASSUME NEW path \in Paths, Unanswered(path) PROVE GuardedByAncestors'
  BY <1>2 DEF Unanswered, Answer, GuardedByAncestors
<1>3. ASSUME NEW path, NEW query, NEW sent, Handled(path, query, sent) PROVE GuardedByAncestors'
  <2>1. phase = "listening" /\ Answering(path) <= Len(layers) /\ layers = AllLayers
    BY <1>3 DEF Handled, DeclaredService, TreeShape
  <2>2. answer'.node = layers[Answering(path)].node /\ answer'.passed = Passed(path)
    BY <1>3, HandledIs DEF Answer
  <2>3. UNCHANGED declarationVars /\ UNCHANGED nodes
    BY <1>3 DEF Handled
  <2>4. \A a \in Ancestry(layers[Answering(path)].node) : Guards(a) => a \in Passed(path)
    BY <2>1, GuardsPass DEF DeclaredService
  <2>5. \A n : Ancestry(n)' = Ancestry(n) /\ Guards(n)' = Guards(n)
    BY <2>3, SameAncestors
  <2>6. Ancestry(answer.node)' = Ancestry(layers[Answering(path)].node)
    BY <2>2, <2>3, AncestryOfAnswer
  <2> QED BY <2>2, <2>4, <2>5, <2>6 DEF GuardedByAncestors
<1>4. ASSUME NEW given, Makes(given) PROVE GuardedByAncestors'
  BY <1>4 DEF Makes, GuardedByAncestors
<1>5. ASSUME NEW given, Changes(given) PROVE GuardedByAncestors'
  BY <1>5 DEF Changes, treeVars, GuardedByAncestors
<1>6. CASE UNCHANGED serviceVars
  <2>1. UNCHANGED declarationVars /\ UNCHANGED nodes /\ UNCHANGED answer /\ UNCHANGED phase
    BY <1>6 DEF serviceVars, treeVars
  <2>2. \A n : Ancestry(n)' = Ancestry(n) /\ Guards(n)' = Guards(n)
    BY <2>1, SameAncestors
  <2>3. Ancestry(answer.node)' = Ancestry(answer.node)
    BY <2>1 DEF Ancestry
  <2> QED BY <2>1, <2>2, <2>3 DEF GuardedByAncestors
<1> QED BY <1>1, <1>2, <1>3, <1>4, <1>5, <1>6, ServiceSteps

\* No route answers before the global middleware of all controllers that it is mounted
\* under, whatever is declared and mounted (GuardedByAncestors).
THEOREM MiddlewareGoesFirst == ServiceSpec => []GuardedByAncestors
<1>1. ServiceInit => GuardedByAncestors
  BY DEF ServiceInit, TreeInit, GuardedByAncestors
<1> QED BY <1>1, ServiceIsDeclared, GuardedStep, PTL DEF ServiceSpec

-----------------------------------------------------------------------------
(* A response. *)

\* The body that goes out is the form of the one given in the encoding.
EncodedResponse(r) ==
  \E status, headers : \E body \in ContentBodies : \E encoding \in {"raw", "json"} :
    r = [status |-> status, headers |-> headers, unencodedBody |-> body,
         body |-> Form(body, encoding), encoding |-> IF body = "undefined" THEN "raw" ELSE encoding]

WellEncoded ==
  phase = "responding" =>
    EncodedResponse(made) /\ (made.encoding = "json" => ContentType(made.headers) # "none")

\* A type of its own takes precedence, and what is encoded as JSON has one.
LEMMA TypesGiven ==
  ASSUME NEW headers
  PROVE  /\ ContentType(headers \union {OwnType}) = "own"
         /\ OwnType \notin headers => ContentType(headers \union {JsonType}) = "json"
         /\ ContentType(headers) = "own" <=> OwnType \in headers
BY DEF ContentType, OwnType, JsonType

LEMMA EncodedForm ==
  ASSUME NEW status, NEW headers, NEW body \in ContentBodies, NEW encoding \in {"raw", "json"},
         NEW r, r = [status |-> status, headers |-> headers, unencodedBody |-> body,
                     body |-> Form(body, encoding),
                     encoding |-> IF body = "undefined" THEN "raw" ELSE encoding]
  PROVE  EncodedResponse(r)
BY DEF EncodedResponse

LEMMA EncodedIs ==
  ASSUME NEW status, NEW headers, NEW body \in ContentBodies, NEW form,
         NEW before, NEW encoding \in {"raw", "json"},
         NEW r, r = [status |-> status, headers |-> headers, unencodedBody |-> body,
                     body |-> form, encoding |-> before]
  PROVE  LET encoded == Encoded(r, encoding)
         IN  /\ EncodedResponse(encoded)
             /\ encoded.encoding = "json" => ContentType(encoded.headers) # "none"
<1>1. CASE body = "undefined"
  <2>1. Encoded(r, encoding) = [r EXCEPT !.encoding = "raw", !.body = "undefined"]
    BY <1>1 DEF Encoded
  <2>2. Encoded(r, encoding) = [status |-> status, headers |-> headers, unencodedBody |-> body,
                                body |-> Form(body, "raw"), encoding |-> "raw"]
    BY <1>1, <2>1 DEF Form
  <2>3. EncodedResponse(Encoded(r, encoding))
    BY <1>1, <2>2, EncodedForm
  <2>4. Encoded(r, encoding).encoding = "raw"
    BY <2>2
  <2> QED BY <2>3, <2>4
<1>2. CASE body # "undefined"
  <2> DEFINE more == IF encoding = "json" /\ OwnType \notin headers
                     THEN headers \union {JsonType} ELSE headers
  <2>1. Encoded(r, encoding) = [status |-> status, headers |-> more, unencodedBody |-> body,
                                body |-> Form(body, encoding), encoding |-> encoding]
    BY <1>2 DEF Encoded
  <2>2. encoding = "json" => ContentType(more) # "none"
    BY TypesGiven
  <2> HIDE DEF more
  <2>3. EncodedResponse(Encoded(r, encoding))
    BY <1>2, <2>1, EncodedForm
  <2>4. Encoded(r, encoding).encoding = encoding /\ Encoded(r, encoding).headers = more
    BY <2>1
  <2> QED BY <2>2, <2>3, <2>4
<1> QED BY <1>1, <1>2

\* Encoding what was encoded, or giving it a type.
Reencoded(given) ==
  given = WithOwnType(made) \/ \E encoding \in {"raw", "json"} : given = Encoded(made, encoding)

LEMMA ChangedIs ==
  ASSUME EncodedResponse(made), made.encoding = "json" => ContentType(made.headers) # "none",
         NEW given, Reencoded(given)
  PROVE  EncodedResponse(given) /\ (given.encoding = "json" => ContentType(given.headers) # "none")
<1>1. PICK status, headers : \E body \in ContentBodies : \E before \in {"raw", "json"} :
        made = [status |-> status, headers |-> headers, unencodedBody |-> body,
                body |-> Form(body, before), encoding |-> IF body = "undefined" THEN "raw" ELSE before]
  BY DEF EncodedResponse
<1>2. PICK body \in ContentBodies, before \in {"raw", "json"} :
        made = [status |-> status, headers |-> headers, unencodedBody |-> body,
                body |-> Form(body, before), encoding |-> IF body = "undefined" THEN "raw" ELSE before]
  BY <1>1
<1>3. CASE given = WithOwnType(made)
  <2>1. given = [status |-> status, headers |-> headers \union {OwnType}, unencodedBody |-> body,
                    body |-> Form(body, before), encoding |-> IF body = "undefined" THEN "raw" ELSE before]
    BY <1>2, <1>3 DEF WithOwnType
  <2>2. given.headers = headers \union {OwnType}
    BY <2>1
  <2>3. ContentType(given.headers) = "own"
    BY <2>2, TypesGiven
  <2> QED BY <2>1, <2>3 DEF EncodedResponse
<1>4. ASSUME NEW encoding \in {"raw", "json"}, given = Encoded(made, encoding)
      PROVE  EncodedResponse(given) /\ (given.encoding = "json" => ContentType(given.headers) # "none")
  BY <1>2, <1>4, EncodedIs
<1> QED BY <1>3, <1>4 DEF Reencoded

LEMMA EncodedStep == WellEncoded /\ [ServiceNext]_serviceVars => WellEncoded'
<1> SUFFICES ASSUME WellEncoded, [ServiceNext]_serviceVars PROVE WellEncoded'
  OBVIOUS
<1> DEFINE Well(r) == EncodedResponse(r) /\ (r.encoding = "json" => ContentType(r.headers) # "none")
<1>1. CASE TreeNext
  BY <1>1, NotBuiltLater DEF WellEncoded
<1>2. ASSUME NEW path \in Paths, Unanswered(path) PROVE WellEncoded'
  BY <1>2 DEF Unanswered, WellEncoded
<1>3. ASSUME NEW path, NEW query, NEW sent, Handled(path, query, sent) PROVE WellEncoded'
  <2>1. phase' \in {"answered", "accepted"}
    BY <1>3, HandledIs
  <2> QED BY <2>1 DEF WellEncoded
<1>4. ASSUME Well(made') PROVE WellEncoded'
  BY <1>4 DEF WellEncoded, EncodedResponse
<1>5. ASSUME NEW status, NEW headers, NEW body \in ContentBodies, NEW isRawBody,
             made' = NewResponse(status, headers, body, isRawBody)
      PROVE  Well(made')
  <2> DEFINE encoding == IF isRawBody THEN "raw" ELSE "json"
  <2>1. made' = Encoded([status |-> status, headers |-> headers, unencodedBody |-> body,
                         body |-> "undefined", encoding |-> "json"], encoding)
    BY <1>5 DEF NewResponse
  <2>2. encoding \in {"raw", "json"}
    OBVIOUS
  <2> HIDE DEF encoding
  <2> QED BY <2>1, <2>2, EncodedIs
<1>6. ASSUME NEW factory \in DOMAIN Status, NEW body \in ContentBodies, Responds(factory, body)
      PROVE  Well(made')
  BY <1>5, <1>6 DEF Responds, Makes, Make
<1>7. ASSUME NEW status, NEW headers, NEW body \in ContentBodies, NEW isRawBody,
             Constructs(status, headers, body, isRawBody)
      PROVE  Well(made')
  BY <1>5, <1>7 DEF Constructs, Makes
<1>8. ASSUME phase = "responding", Reencoded(made') PROVE Well(made')
  BY <1>8, ChangedIs DEF WellEncoded
<1>9. ASSUME NEW encoding \in {"raw", "json"}, Reencodes(encoding) PROVE Well(made')
  BY <1>8, <1>9 DEF Reencodes, Reencoded
<1>10. CASE GivesType
  BY <1>4, <1>8, <1>10 DEF GivesType, Reencoded
<1>11. CASE UNCHANGED serviceVars
  BY <1>11 DEF serviceVars, treeVars, WellEncoded, EncodedResponse
<1> HIDE DEF Well
<1> QED BY <1>1, <1>2, <1>3, <1>4, <1>6, <1>7, <1>9, <1>10, <1>11 DEF ServiceNext

LEMMA EncodedIsTheSame == WellEncoded => ThrownAsReturned
<1> SUFFICES ASSUME WellEncoded, phase = "responding"
             PROVE  Returned(made) = Thrown(made) <=> SameEitherWay(made)
  BY DEF ThrownAsReturned
<1> DEFINE type == ContentType(made.headers)
           status == made.status
           body == made.unencodedBody
<1>1. /\ body \in ContentBodies /\ made.body = Form(body, made.encoding)
      /\ made.encoding \in {"raw", "json"} /\ (made.encoding = "json" => body # "undefined" /\ type # "none")
  BY DEF WellEncoded, EncodedResponse, Form
<1>2. /\ type \in {"own", "json", "none"} /\ (OwnType \in made.headers <=> type = "own")
  BY DEF ContentType, OwnType, JsonType
<1>3. CASE made.encoding = "json"
  <2>1. made.body = "JSON"
    BY <1>1, <1>3 DEF Form
  <2>2. Thrown(made) = Outgoing(status, "JSON", type)
    BY <1>1, <1>3, <2>1 DEF Thrown, Written
  <2>3. Returned(made) = IF body \in Falsy THEN Outgoing(status, "nothing", type) ELSE Outgoing(status, "JSON", "json")
    BY <1>3 DEF Returned
  <2>4. SameEitherWay(made) <=> body \notin Falsy /\ type # "own"
    BY <1>2, <1>3 DEF SameEitherWay
  <2> HIDE DEF type, status, body
  <2> QED BY <1>1, <1>2, <1>3, <2>2, <2>3, <2>4 DEF Outgoing
<1>4. CASE made.encoding = "raw"
  <2>1. made.body = body
    BY <1>1, <1>4 DEF Form
  <2>2. Thrown(made) = Outgoing(status, Written(body), IF type = "none" THEN "json" ELSE type)
    BY <2>1 DEF Thrown
  <2>3. SameEitherWay(made) <=> body \in {"empty", "text", "bytes"} /\ type # "none"
    BY <1>4, <2>1 DEF SameEitherWay
  <2>4. CASE body \in {"text", "bytes"}
    <3>1. Returned(made) = Outgoing(status, body, type) /\ Written(body) = body
      BY <1>4, <2>1, <2>4 DEF Returned, Written
    <3> HIDE DEF type, status, body
    <3> QED BY <1>2, <2>2, <2>3, <2>4, <3>1 DEF Outgoing
  <2>5. CASE body = "empty"
    <3>1. Returned(made) = Outgoing(status, "nothing", type) /\ Written(body) = "nothing"
      BY <1>4, <2>1, <2>5 DEF Returned, Written
    <3> HIDE DEF type, status, body
    <3> QED BY <1>2, <2>2, <2>3, <2>5, <3>1 DEF Outgoing
  <2>6. CASE body \in {"undefined", "null"}
    <3>1. Returned(made).form = "nothing" /\ Written(body) = "status"
      BY <1>4, <2>1, <2>6 DEF Returned, Written, Outgoing
    <3> HIDE DEF type, status, body
    <3> QED BY <2>2, <2>3, <2>6, <3>1 DEF Outgoing
  <2>7. CASE body \in {"falsy", "view", "object"}
    <3>1. Returned(made).form = "error" /\ Written(body) \in {"JSON", "bytes"}
      BY <1>4, <2>1, <2>7 DEF Returned, Written, Outgoing
    <3> HIDE DEF type, status, body
    <3> QED BY <2>2, <2>3, <2>7, <3>1 DEF Outgoing
  <2> QED BY <1>1, <2>4, <2>5, <2>6, <2>7 DEF ContentBodies
<1> QED BY <1>1, <1>3, <1>4

\* What is written of a response does not depend on whether it is returned or thrown exactly
\* if it is JSON of what is not falsy, without a content type of its own, or text or a
\* Buffer, with a content type, however often it was encoded again (ThrownAsReturned).
THEOREM ThrowingIsReturning == ServiceSpec => []ThrownAsReturned
<1>1. ServiceInit => WellEncoded
  BY DEF ServiceInit, TreeInit, WellEncoded
<1> QED BY <1>1, EncodedStep, EncodedIsTheSame, PTL DEF ServiceSpec

-----------------------------------------------------------------------------
(* The arguments of a method. *)

TypedNames == [name : STRING, type : ParameterTypes]

\* The parameters that a class declares for a method.
LEMMA SignatureIs ==
  ASSUME DeclarationInv, NEW d \in 1..Len(base), NEW m \in Methods, signatures[d][m] # <<>>
  PROVE  signatures[d][m][1] \in Signatures
<1>1. signatures \in Seq([Methods -> Seq(Signatures)]) /\ Len(signatures) = Len(base)
  BY DEF DeclarationInv, DeclarationTypes, AnnotationTypes, ClassTypes
<1>2. signatures[d] \in [Methods -> Seq(Signatures)]
  BY <1>1, ElementOfSeq
<1>3. signatures[d][m] \in Seq(Signatures)
  BY <1>2
<1>4. 1 \in 1..Len(signatures[d][m])
  BY <1>3, EmptySeq, LenProperties
<1> QED BY <1>3, <1>4, ElementOfSeq

\* Those of a method that some class of the lineage has.
LEMMA ParametersAre ==
  ASSUME DeclarationInv, NEW c \in 1..Len(base), NEW m \in Methods,
         NEW h \in ToSet(Lineage(c)), signatures[h][m] # <<>>
  PROVE  DeclaredParameters(c, m) \in Signatures
<1> DEFINE having == {i \in DOMAIN Lineage(c) : signatures[Lineage(c)[i]][m] # <<>>}
           d == Lineage(c)[Max(having)]
<1>1. BaseFollows
  BY DEF DeclarationInv, DeclarationTypes, AnnotationTypes
<1>2. having # {} /\ having \in SUBSET DOMAIN Lineage(c)
  BY DEF ToSet
<1>3. Max(having) \in having /\ d \in 1..c
  <2> HIDE DEF having
  <2> QED BY <1>1, <1>2, LineagePlace
<1>4. signatures[d][m] # <<>>
  BY <1>3
<1>5. DeclaredParameters(c, m) = signatures[d][m][1]
  <2>1. DeclaredParameters(c, m) = signatures[IF having = {} THEN 0 ELSE d][m][1]
    BY DEF DeclaredParameters, Nearest
  <2> HIDE DEF having, d
  <2> QED BY <1>2, <2>1
<1> HIDE DEF d, having
<1>6. d \in 1..Len(base)
  BY <1>1, <1>3 DEF BaseFollows
<1> QED BY <1>4, <1>5, <1>6, SignatureIs

\* The types of a method that are recorded for some class of the lineage.
LEMMA RecordedAre ==
  ASSUME DeclarationInv, NEW c \in 1..Len(base), NEW m \in Methods,
         NEW h \in ToSet(Lineage(c)), Recorded(h, m)
  PROVE  \A i \in DOMAIN RecordedTypes(c, m) : RecordedTypes(c, m)[i] \in ParameterTypes
<1> DEFINE having == {i \in DOMAIN Lineage(c) : Recorded(Lineage(c)[i], m)}
           d == Lineage(c)[Max(having)]
           list == signatures[d][m][1]
<1>1. BaseFollows
  BY DEF DeclarationInv, DeclarationTypes, AnnotationTypes
<1>2. having # {} /\ having \in SUBSET DOMAIN Lineage(c)
  BY DEF ToSet
<1>3. Max(having) \in having /\ d \in 1..c
  <2> HIDE DEF having
  <2> QED BY <1>1, <1>2, LineagePlace
<1>4. Recorded(d, m)
  BY <1>3
<1>5. RecordedTypes(c, m) = [i \in DOMAIN list |-> list[i].type]
  <2>1. Nearest(LAMBDA e : Recorded(e, m), c) = IF having = {} THEN 0 ELSE d
    BY DEF Nearest
  <2> HIDE DEF having, d
  <2>2. Nearest(LAMBDA e : Recorded(e, m), c) = d
    BY <1>2, <2>1
  <2> QED BY <2>2 DEF RecordedTypes
<1> HIDE DEF d, having
<1>6. d \in 1..Len(base)
  BY <1>1, <1>3 DEF BaseFollows
<1>7. list \in Seq(TypedNames)
  <2>1. list \in Signatures
    BY <1>4, <1>6, SignatureIs DEF Recorded
  <2> QED BY <2>1, TreeAssumption DEF TypedNames
<1> HIDE DEF list
<1>8. ASSUME NEW i \in DOMAIN list PROVE list[i].type \in ParameterTypes
  <2>1. i \in 1..Len(list)
    BY <1>7
  <2>2. list[i] \in TypedNames
    BY <1>7, <2>1, ElementOfSeq
  <2> QED BY <2>2 DEF TypedNames
<1> QED BY <1>5, <1>8

\* A method with a route has them.
LEMMA RouteHasParameters ==
  ASSUME DeclarationInv, TreeShape, NEW n \in 1..Len(nodes), NEW k \in 1..Len(RoutesAt(n)),
         NEW types, types = ParametersOf(nodes[n].class, RoutesAt(n)[k].method)
  PROVE  \A i \in DOMAIN types : types[i].type \in ParameterTypes
<1> DEFINE c == nodes[n].class
           h == Holder(routes, c)
           m == RoutesAt(n)[k].method
<1>1. c \in 1..Len(base) /\ RoutesAt(n) \in Seq(DeclaredRoutes) /\ BaseFollows
  BY PathsAre DEF DeclarationInv, DeclarationTypes, AnnotationTypes
<1>2. m \in Methods
  <2>1. RoutesAt(n)[k] \in DeclaredRoutes
    BY <1>1, ElementOfSeq
  <2> QED BY <2>1 DEF DeclaredRoutes
<1>3. h \in 1..c /\ h \in ToSet(Lineage(c))
  <2> HIDE DEF c
  <2> QED BY <1>1, HolderIs DEF h
<1>4. h \in 1..Len(base)
  BY <1>1, <1>3 DEF BaseFollows
<1>5. RoutesAt(n) = routes[h]
  BY DEF RoutesAt, RoutesOf
<1>6. signatures[h][m] # <<>>
  <2> HIDE DEF h
  <2> QED BY <1>4, <1>5 DEF DeclarationInv, RoutesSigned
<1>7. Recorded(h, m)
  <2>1. k \in DOMAIN routes[h] /\ routes[h][k].method = m
    BY <1>1, <1>5
  <2> HIDE DEF h, m
  <2> QED BY <1>6, <2>1 DEF Recorded
<1> HIDE DEF c, h, m
<1>8. \A i \in DOMAIN RecordedTypes(c, m) : RecordedTypes(c, m)[i] \in ParameterTypes
  BY <1>1, <1>2, <1>3, <1>7, RecordedAre
<1>9. "Object" \in ParameterTypes
  BY DEF ParameterTypes
<1>10. types = ParametersOf(c, m)
  BY DEF c, m
<1> QED BY <1>8, <1>9, <1>10 DEF ParametersOf

\* What a method may be called with.
Typed(a) == a.got.kind \in IF a.raw.is = "undefined" THEN {"undefined"} ELSE Expected(a)

LEMMA ConvertIs ==
  ASSUME NEW type \in ParameterTypes, NEW source, NEW raw, Convert(type, source, raw).status = 200,
         NEW a, a.raw = raw, a.type = type, a.from = source.from, a.got = Convert(type, source, raw)
  PROVE  Typed(a)
<1>1. CASE type = "Array" /\ source.from = "path"
  <2>1. a.got = IF raw.is = "undefined" THEN Refused(500) ELSE Got("list")
    BY <1>1 DEF Convert
  <2>2. raw.is # "undefined" /\ a.got.kind = "list"
    BY <2>1 DEF Refused, Got
  <2>3. Expected(a) = {"list"}
    BY <1>1 DEF Expected
  <2> QED BY <2>2, <2>3 DEF Typed
<1>2. CASE ~(type = "Array" /\ source.from = "path") /\ raw.is = "undefined"
  <2>1. a.got = Got("undefined")
    BY <1>2 DEF Convert
  <2> QED BY <1>2, <2>1 DEF Typed, Got
<1>3. CASE ~(type = "Array" /\ source.from = "path") /\ raw.is # "undefined"
  <2>1. CASE type = "Number"
    <3>1. a.got \in {Got("number"), Refused(400)}
      BY <1>3, <2>1 DEF Convert
    <3>2. a.got.kind = "number"
      BY <3>1 DEF Refused, Got
    <3>3. Expected(a) = {"number"}
      BY <2>1 DEF Expected
    <3> QED BY <1>3, <3>2, <3>3 DEF Typed
  <2>2. CASE type = "Boolean"
    <3>1. a.got = Got("boolean")
      BY <1>3, <2>2 DEF Convert
    <3>2. Expected(a) = {"boolean"}
      BY <2>2 DEF Expected
    <3> QED BY <1>3, <3>1, <3>2 DEF Typed, Got
  <2>3. CASE type = "Date"
    <3>1. a.got \in {Got("undefined"), Refused(400)}
      BY <1>3, <2>3 DEF Convert
    <3>2. a.got.kind = "undefined"
      BY <3>1 DEF Refused, Got
    <3>3. Expected(a) = {"undefined"}
      BY <2>3 DEF Expected
    <3> QED BY <1>3, <3>2, <3>3 DEF Typed
  <2>4. CASE type = "String"
    <3>1. a.got \in {Got("null"), Got("string")}
      BY <1>3, <2>4 DEF Convert
    <3>2. Expected(a) = {"string", "null"}
      BY <2>4 DEF Expected
    <3> QED BY <1>3, <3>1, <3>2 DEF Typed, Got
  <2>5. CASE type \in {"Array", "Buffer", "WebEvent", "Object"}
    <3>1. a.got = Got(raw.is)
      BY <1>3, <2>5 DEF Convert
    <3>2. Expected(a) = {raw.is}
      BY <1>3, <2>5 DEF Expected
    <3> QED BY <1>3, <3>1, <3>2 DEF Typed, Got
  <2> QED BY <2>1, <2>2, <2>3, <2>4, <2>5 DEF ParameterTypes
<1> QED BY <1>1, <1>2, <1>3

LEMMA ArgumentsAre ==
  ASSUME DeclarationInv, TreeShape, NEW n \in 1..Len(nodes), NEW k \in 1..Len(RoutesAt(n)),
         NEW path, NEW query, NEW body, NEW i \in DOMAIN Arguments(RouteLayer(n, k), path, query, body),
         Arguments(RouteLayer(n, k), path, query, body)[i].got.status = 200
  PROVE  Typed(Arguments(RouteLayer(n, k), path, query, body)[i])
<1> DEFINE c == nodes[n].class
           route == RoutesAt(n)[k]
           layer == RouteLayer(n, k)
           sources == SourcesOf(c, route)
           types == ParametersOf(c, route.method)
           request == [params |-> Params(layer, path), query |-> query, session |-> Undefined,
                       body |-> body]
           raw == Raw(sources[i], request)
           a == [raw |-> raw, from |-> sources[i].from, type |-> types[i].type,
                 got |-> Convert(types[i].type, sources[i], raw)]
<1>1. layer.node = n /\ layer.route = route
  BY DEF RouteLayer, Layer
<1>2. Arguments(layer, path, query, body) =
        [j \in DOMAIN sources |->
           [raw |-> Raw(sources[j], request), from |-> sources[j].from, type |-> types[j].type,
            got |-> Convert(types[j].type, sources[j], Raw(sources[j], request))]]
  <2> HIDE DEF layer, route
  <2> QED BY <1>1 DEF Arguments
<1>3. i \in DOMAIN sources /\ Arguments(layer, path, query, body)[i] = a
  <2> HIDE DEF layer, route, sources, types, request
  <2> QED BY <1>2 DEF layer
<1>4. DOMAIN sources = DOMAIN types
  BY DEF SourcesOf
<1>5. types[i].type \in ParameterTypes
  <2> HIDE DEF sources, c, route
  <2> QED BY <1>3, <1>4, RouteHasParameters DEF c, route
<1>6. a.got.status = 200
  BY <1>3
<1> HIDE DEF types, sources, raw
<1>7. Typed(a)
  BY <1>5, <1>6, ConvertIs
<1> QED BY <1>3, <1>7 DEF layer

LEMMA TypedStep == DeclaredService /\ ArgumentsAreTyped /\ [ServiceNext]_serviceVars => ArgumentsAreTyped'
<1> SUFFICES ASSUME DeclaredService, ArgumentsAreTyped, [ServiceNext]_serviceVars
             PROVE  ArgumentsAreTyped'
  OBVIOUS
<1>1. CASE TreeNext
  BY <1>1, NotBuiltLater DEF ArgumentsAreTyped
<1>2. ASSUME NEW path \in Paths, Unanswered(path) PROVE ArgumentsAreTyped'
  BY <1>2 DEF Unanswered, ArgumentsAreTyped
<1>3. ASSUME NEW path, NEW query, NEW sent, Handled(path, query, sent), phase' = "accepted"
      PROVE  \A i \in DOMAIN answer'.arguments : Typed(answer'.arguments[i])
  <2> DEFINE layer == layers[Answering(path)]
             n == layer.node
  <2>1. layers = AllLayers /\ Answering(path) <= Len(layers)
    BY <1>3 DEF Handled, DeclaredService, TreeShape
  <2>2. n \in 1..Len(nodes) /\ \E k \in 1..Len(RoutesAt(n)) : layer = RouteLayer(n, k)
    BY <2>1, AnsweringIs DEF DeclaredService
  <2>3. PICK k \in 1..Len(RoutesAt(n)) : layer = RouteLayer(n, k)
    BY <2>2
  <2>4. PICK body :
          /\ answer' = Answer(n, Passed(path), Arguments(layer, path, query, body), 200)
          /\ \A i \in DOMAIN Arguments(layer, path, query, body) :
               Arguments(layer, path, query, body)[i].got.status = 200
    BY <1>3, HandledIs
  <2>5. answer'.arguments = Arguments(layer, path, query, body)
    BY <2>4 DEF Answer
  <2> HIDE DEF layer, n
  <2>6. \A i \in DOMAIN Arguments(layer, path, query, body) : Typed(Arguments(layer, path, query, body)[i])
    BY <2>2, <2>3, <2>4, ArgumentsAre DEF DeclaredService
  <2> QED BY <2>5, <2>6
<1>4. ASSUME NEW path, NEW query, NEW sent, Handled(path, query, sent) PROVE ArgumentsAreTyped'
  BY <1>3, <1>4 DEF ArgumentsAreTyped, Typed
<1>5. ASSUME NEW given, Makes(given) PROVE ArgumentsAreTyped'
  BY <1>5 DEF Makes, ArgumentsAreTyped
<1>6. ASSUME NEW given, Changes(given) PROVE ArgumentsAreTyped'
  BY <1>6 DEF Changes, treeVars, ArgumentsAreTyped
<1>7. CASE UNCHANGED serviceVars
  BY <1>7 DEF serviceVars, treeVars, ArgumentsAreTyped
<1> QED BY <1>1, <1>2, <1>4, <1>5, <1>6, <1>7, ServiceSteps

\* What a method is called with is a number, a truth value or a text where that is recorded,
\* the null of JSON apart, nothing at all for a date and for what the request does not have,
\* and of any other type what the request holds, unconverted (ArgumentsAreTyped).
THEOREM MethodsGetTheirTypes == ServiceSpec => []ArgumentsAreTyped
<1>1. ServiceInit => ArgumentsAreTyped
  BY DEF ServiceInit, TreeInit, ArgumentsAreTyped
<1> QED BY <1>1, ServiceIsDeclared, TypedStep, PTL DEF ServiceSpec

-----------------------------------------------------------------------------
(* Where routes answer. *)

\* A path that is declared continues that of the instance above.
DeclaredAt(k) == DeclaredBase(nodes[k].class)

LEMMA DeclaredPathIs ==
  ASSUME DeclarationInv, TreeShape, NEW n \in 1..Len(nodes)
  PROVE  DeclaredPath(n) = IF n = 1 THEN DeclaredAt(1)
                           ELSE DeclaredPath(nodes[n].parent) \o nodes[n].mount.path \o DeclaredAt(n)
<1> DEFINE N == Len(nodes)
           V == Seq(STRING)
           z == <<>>
           p == [k \in 1..N |-> nodes[k].parent]
           x(d) == nodes[d].mount.path
           G == [d \in 1..N |-> [s \in V |-> IF d = 1 THEN DeclaredAt(1) ELSE s \o x(d) \o DeclaredAt(d)]]
           body(g) == [k \in DOMAIN nodes |-> IF k = 1 THEN DeclaredBase(nodes[1].class)
                                              ELSE g[nodes[k].parent] \o nodes[k].mount.path
                                                     \o DeclaredBase(nodes[k].class)]
           down == CHOOSE g : g = body(g)
<1>1. N \in Nat /\ DOMAIN nodes = 1..N
  BY DEF TreeShape
<1>2. z \in V /\ LeadsBack(p, N)
  <2>1. \A k \in 1..N : nodes[k].parent \in Nat /\ nodes[k].parent < k
    BY ParentsAre DEF ParentsFollow
  <2>2. z \in V
    OBVIOUS
  <2> QED BY <2>1, <2>2 DEF LeadsBack
<1>3. \A d \in 1..N : DeclaredAt(d) \in V
  <2> SUFFICES ASSUME NEW d \in 1..N PROVE DeclaredAt(d) \in V
    OBVIOUS
  <2>1. nodes[d].class \in 1..Len(base)
    BY PathsAre
  <2> QED BY <2>1, BasePathIs DEF DeclaredAt
<1>4. \A d \in 1..N : d # 1 => /\ x(d) \in V /\ nodes[d].parent \in 1..N
                               /\ PathPrefix(d) = PathPrefix(nodes[d].parent) \o x(d) \o BasePath(nodes[d].class)
  BY PrefixIs
<1>5. ASSUME NEW d \in 1..N, NEW s \in V
      PROVE  (IF d = 1 THEN DeclaredAt(1) ELSE s \o x(d) \o DeclaredAt(d)) \in V
  <2>1. CASE d = 1
    BY <1>3, <2>1
  <2>2. CASE d # 1
    <3>1. x(d) \in Seq(STRING) /\ DeclaredAt(d) \in Seq(STRING) /\ s \in Seq(STRING)
      BY <1>3, <1>4, <2>2
    <3> HIDE DEF x
    <3>2. s \o x(d) \in Seq(STRING)
      BY <3>1, Regrouped
    <3>3. (s \o x(d)) \o DeclaredAt(d) \in Seq(STRING)
      BY <3>1, <3>2, Regrouped
    <3> QED BY <2>2, <3>3
  <2> QED BY <2>1, <2>2
<1>6. G \in [1..N -> [V -> V]]
  <2> HIDE DEF N, V, x
  <2> QED BY <1>5
<1>7. PICK f : Recursive(f, N, V, z, p, G)
  <2> HIDE DEF G, N, V, z, p
  <2> QED BY <1>1, <1>2, <1>6, RecursionIsDefined
<1>8. f \in [0..N -> V] /\ f[0] = z /\ \A d \in 1..N : f[d] = G[d][f[p[d]]]
  BY <1>7 DEF Recursive
<1>9. \A d \in 1..N : f[d] = IF d = 1 THEN DeclaredAt(1) ELSE f[nodes[d].parent] \o x(d) \o DeclaredAt(d)
  <2> SUFFICES ASSUME NEW d \in 1..N
               PROVE  f[d] = IF d = 1 THEN DeclaredAt(1) ELSE f[nodes[d].parent] \o x(d) \o DeclaredAt(d)
    OBVIOUS
  <2>1. p[d] = nodes[d].parent /\ p[d] \in 0..N
    <3>1. p \in [1..N -> Nat] /\ p[d] < d /\ p[d] = nodes[d].parent
      BY <1>2 DEF LeadsBack
    <3> HIDE DEF p
    <3>2. p[d] \in Nat
      BY <3>1
    <3> HIDE DEF N
    <3> QED BY <1>1, <3>1, <3>2
  <2>2. f[p[d]] \in V
    <3> HIDE DEF p, V
    <3> QED BY <1>8, <2>1
  <2>3. f[d] = G[d][f[p[d]]]
    BY <1>8
  <2> HIDE DEF V, p, N, x
  <2> QED BY <2>1, <2>2, <2>3
<1> DEFINE g0 == [d \in DOMAIN nodes |-> f[d]]
<1>10. g0 = body(g0)
  <2>1. \A d \in DOMAIN nodes : d # 1 => g0[nodes[d].parent] = f[nodes[d].parent]
    <3> HIDE DEF N
    <3> QED BY <1>1, <1>4
  <2> HIDE DEF N
  <2>2. \A d \in DOMAIN nodes : g0[d] = body(g0)[d]
    <3> HIDE DEF g0
    <3>1. \A d \in DOMAIN nodes : g0[d] = f[d]
      BY DEF g0
    <3> QED BY <1>1, <1>9, <2>1, <3>1 DEF DeclaredAt
  <2> QED BY <2>2
<1>11. down = body(down)
  <2> HIDE DEF body, g0
  <2> QED BY <1>10
<1>12. \A k : DeclaredPath(k) = down[k]
  BY DEF DeclaredPath
<1> HIDE DEF down
<1>13. down[n] = IF n = 1 THEN DeclaredAt(1) ELSE down[nodes[n].parent] \o nodes[n].mount.path \o DeclaredAt(n)
  BY <1>1, <1>11 DEF DeclaredAt
<1> QED BY <1>12, <1>13

Plain(n) == \A a \in Ancestry(n) : ~SharesOptions(nodes[a].class)

LEMMA DeclaredIsMounted ==
  ASSUME DeclarationInv, TreeShape, phase # "refused", NEW n \in 1..Len(nodes)
  PROVE  Plain(n) => DeclaredPath(n) = PathPrefix(n)
<1> DEFINE N == Len(nodes)
           Good(m) == Plain(m) => DeclaredPath(m) = PathPrefix(m)
           T == {m \in 1..N : ~Good(m)}
<1>1. N \in Nat /\ \A m \in 1..N : m \in Nat
  BY DEF TreeShape
<1>2. ASSUME NEW m \in 1..N, m # 1 => Good(nodes[m].parent) PROVE Good(m)
  <2> SUFFICES ASSUME Plain(m) PROVE DeclaredPath(m) = PathPrefix(m)
    OBVIOUS
  <2>1. Ancestry(m) = {m} \union Ancestry(nodes[m].parent)
    BY ParentsAre, AncestryIs
  <2>2. nodes[m].class \in 1..Len(base) /\ WellMounted(m)
    BY PathsAre DEF TreeShape
  <2>3. BasePath(nodes[m].class) = DeclaredAt(m) /\ BasePath(nodes[m].class) \in Seq(STRING)
    BY <2>1, <2>2, BasePathIs DEF Plain, DeclaredAt
  <2>4. CASE m = 1
    <3>1. PathPrefix(m) = <<>> \o BasePath(nodes[m].class)
      BY <2>2, <2>4 DEF PathPrefix, WellMounted
    <3>2. PathPrefix(m) = BasePath(nodes[m].class)
      BY <2>3, <3>1, ConcatEmptySeq
    <3> QED BY <2>3, <2>4, <3>2, DeclaredPathIs
  <2>5. CASE m # 1
    <3>1. Plain(nodes[m].parent)
      BY <2>1 DEF Plain
    <3>2. DeclaredPath(nodes[m].parent) = PathPrefix(nodes[m].parent)
      BY <1>2, <2>5, <3>1
    <3>3. PathPrefix(m) = PathPrefix(nodes[m].parent) \o nodes[m].mount.path \o BasePath(nodes[m].class)
      BY <2>5, PrefixIs
    <3>4. DeclaredPath(m) = DeclaredPath(nodes[m].parent) \o nodes[m].mount.path \o DeclaredAt(m)
      BY <2>5, DeclaredPathIs
    <3> QED BY <2>3, <3>2, <3>3, <3>4
  <2> QED BY <2>4, <2>5
<1>3. T = {}
  <2> SUFFICES ASSUME T # {} PROVE FALSE
    OBVIOUS
  <2>1. PICK m \in T : \A k \in T : m <= k
    <3>1. T \in SUBSET Nat
      BY <1>1
    <3> HIDE DEF T
    <3> QED BY <3>1, Smallest
  <2>2. m \in 1..N /\ ~Good(m)
    OBVIOUS
  <2>3. m # 1 => nodes[m].parent \in 1..N /\ ~(m <= nodes[m].parent)
    <3>1. m \in Nat /\ (m # 1 => nodes[m].parent \in 1..N /\ nodes[m].parent < m)
      <4> HIDE DEF T
      <4> QED BY <1>1, <2>2, PrefixIs DEF N
    <3> HIDE DEF T, N
    <3> QED BY <1>1, <3>1
  <2>4. m # 1 => nodes[m].parent \notin T
    <3> HIDE DEF T
    <3> QED BY <2>1, <2>3
  <2> HIDE DEF Good
  <2>5. m # 1 => Good(nodes[m].parent)
    BY <2>3, <2>4
  <2> QED BY <1>2, <2>2, <2>5
<1> QED BY <1>3

\* The path of a request for a route.
Wanted(declared) == [s \in DOMAIN declared |-> IF declared[s] = ":id" THEN "7" ELSE declared[s]]

LEMMA WantedFits ==
  ASSUME NEW declared \in Seq(STRING), NEW layer, layer.kind = "route", layer.path = declared
  PROVE  Fits(layer, Wanted(declared))
<1> DEFINE path == Wanted(declared)
<1>1. Len(path) = Len(declared) /\ DOMAIN declared = 1..Len(declared)
  <2>1. DOMAIN declared = 1..Len(declared) /\ Len(declared) \in Nat
    OBVIOUS
  <2> DEFINE A == STRING \union {"7"}
  <2>2. path \in [1..Len(declared) -> A]
    <3>1. \A s \in 1..Len(declared) : declared[s] \in STRING
      BY <2>1, ElementOfSeq
    <3> QED BY <2>1, <3>1 DEF Wanted
  <2> HIDE DEF path, A
  <2>3. path \in Seq(A)
    BY <2>1, <2>2, SeqDef
  <2> QED BY <2>1, <2>2, <2>3
<1>2. \A s \in DOMAIN declared : declared[s] \in {":id", path[s]}
  BY DEF Wanted
<1> HIDE DEF path
<1> QED BY <1>1, <1>2 DEF Fits, Matches, path

LEMMA EarlierAnswers ==
  ASSUME DeclarationInv, TreeShape, layers = AllLayers, NEW n \in 1..Len(nodes),
         NEW k \in 1..Len(RoutesAt(n)), NEW path, Fits(RouteLayer(n, k), path)
  PROVE  Answering(path) <= Len(layers) /\ layers[Answering(path)].node <= n
<1> DEFINE fitting == {i \in DOMAIN layers : layers[i].kind = "route" /\ Fits(layers[i], path)}
           i == Answering(path)
<1>1. LayersInOrder(layers)
  BY LayersAre
<1>2. DOMAIN layers = 1..Len(layers) /\ Len(layers) \in Nat
  BY <1>1 DEF LayersInOrder
<1>3. PICK j \in 1..Len(layers) : layers[j] = RouteLayer(n, k)
  BY <1>1 DEF LayersInOrder
<1>4. layers[j].kind = "route" /\ layers[j].node = n
  BY <1>3 DEF RouteLayer, Layer
<1>5. j \in fitting
  BY <1>2, <1>3, <1>4
<1>6. i = Min(fitting)
  BY <1>5 DEF Answering
<1>7. fitting \in SUBSET Nat
  BY <1>2
<1>8. i \in fitting /\ i <= j
  <2> HIDE DEF fitting, i
  <2> QED BY <1>5, <1>6, <1>7, MinIs
<1>9. i \in 1..Len(layers)
  BY <1>2, <1>8
<1> HIDE DEF fitting, i
<1>10. layers[i].node <= layers[j].node
  <2>1. CASE i = j
    BY <1>4, <2>1
  <2>2. CASE i # j
    <3>1. i < j
      BY <1>8, <1>9, <2>2
    <3> QED BY <1>1, <1>9, <3>1 DEF LayersInOrder
  <2> QED BY <2>1, <2>2
<1> QED BY <1>2, <1>4, <1>9, <1>10 DEF i

LEMMA DeclaredServiceAnswers == DeclaredService => RoutesAnswerWhereDeclared
<1> SUFFICES ASSUME DeclaredService, phase = "listening", NEW n \in DOMAIN nodes, Plain(n),
                    NEW k \in DOMAIN RoutesAt(n)
             PROVE  LET path == Wanted(DeclaredPath(n) \o RoutesAt(n)[k].path)
                    IN  Answering(path) <= Len(layers) /\ layers[Answering(path)].node <= n
  BY DEF RoutesAnswerWhereDeclared, Plain, RoutesAt, Wanted
<1> USE DEF DeclaredService
<1>1. n \in 1..Len(nodes) /\ layers = AllLayers
  BY DEF TreeShape
<1>2. k \in 1..Len(RoutesAt(n)) /\ PathPrefix(n) \in Seq(STRING) /\ RoutesAt(n)[k].path \in Seq(STRING)
  <2>1. RoutesAt(n) \in Seq(DeclaredRoutes) /\ PathPrefix(n) \in Seq(STRING)
    BY <1>1, PathsAre
  <2>2. k \in 1..Len(RoutesAt(n))
    BY <2>1
  <2> QED BY <1>1, <2>1, <2>2, PathsAre
<1> DEFINE declared == PathPrefix(n) \o RoutesAt(n)[k].path
<1>3. declared \in Seq(STRING)
  BY <1>2, Regrouped
<1>4. DeclaredPath(n) \o RoutesAt(n)[k].path = declared
  BY <1>1, DeclaredIsMounted
<1>5. RouteLayer(n, k).kind = "route" /\ RouteLayer(n, k).path = declared
  BY DEF RouteLayer, Layer
<1> HIDE DEF declared
<1>6. Fits(RouteLayer(n, k), Wanted(declared))
  BY <1>3, <1>5, WantedFits
<1> QED BY <1>1, <1>2, <1>4, <1>6, EarlierAnswers

\* Every route answers at the path that the decorators from the service down to its method
\* declare, unless an earlier one does, where no controller shares its options
\* (RoutesAnswerWhereDeclared).
THEOREM DeclaredPathsAnswer == ServiceSpec => []RoutesAnswerWhereDeclared
BY ServiceIsDeclared, DeclaredServiceAnswers, PTL

-----------------------------------------------------------------------------
(* What a class statement does to the classes before. *)

Earlier == 1..(Class - 1)

\* Of the lists, only that of the last class has become another.
KeptEarlier(old, new) == \A d \in Earlier : new[d] = old[d]

\* A list of an earlier class may have become longer where the last class inherits it.
KeptOrInherited(old, new) ==
  \A d \in Earlier : (new[d] = <<>> <=> old[d] = <<>>) /\ (new[d] # old[d] => d \in ToSet(Lineage(Class)))

OthersKept ==
  /\ base' = base
  /\ KeptEarlier(classAnnotations, classAnnotations')
  /\ KeptEarlier(memberAnnotations, memberAnnotations')
  /\ KeptEarlier(parameterAnnotations, parameterAnnotations')
  /\ KeptEarlier(routes, routes')
  /\ KeptEarlier(optionPaths, optionPaths')
  /\ KeptOrInherited(mounts, mounts')
  /\ KeptOrInherited(constructorParameters, constructorParameters')

LEMMA KeptIsInherited ==
  ASSUME NEW old, NEW new, KeptEarlier(old, new)
  PROVE  KeptOrInherited(old, new)
BY DEF KeptEarlier, KeptOrInherited

LEMMA EarlierIs ==
  ASSUME DeclarationTypes, NEW c \in Earlier
  PROVE  /\ c \in 1..Len(base) /\ DOMAIN Lineage(c) = 1..Len(Lineage(c))
         /\ \A i \in DOMAIN Lineage(c) : Lineage(c)[i] \in Earlier
<1>1. BaseFollows /\ Class = Len(base) /\ Len(base) \in Nat
  BY DEF DeclarationTypes, AnnotationTypes, BaseFollows, Class
<1>2. c \in 1..Len(base) /\ 1..c \subseteq Earlier /\ c \in 0..Len(base)
  BY <1>1 DEF Earlier
<1>3. Lineage(c) \in Seq(1..c)
  BY <1>1, <1>2, LineageIs
<1>4. DOMAIN Lineage(c) = 1..Len(Lineage(c))
  BY <1>3
<1>5. \A i \in 1..Len(Lineage(c)) : Lineage(c)[i] \in 1..c
  BY <1>3, ElementOfSeq
<1> QED BY <1>2, <1>4, <1>5

\* Where no list of a lineage appears or disappears, the same class holds it.
LEMMA HolderKept ==
  ASSUME DeclarationTypes, NEW old, NEW new, KeptOrInherited(old, new), NEW c \in Earlier
  PROVE  /\ Holder(new, c) = Holder(old, c) /\ Holder(old, c) \in Earlier
         /\ new[Holder(old, c)] # old[Holder(old, c)] => Holder(old, c) \in ToSet(Lineage(Class))
<1>1. c \in 1..Len(base) /\ \A i \in DOMAIN Lineage(c) : Lineage(c)[i] \in Earlier
  BY EarlierIs
<1>2. {i \in DOMAIN Lineage(c) : new[Lineage(c)[i]] # <<>>} = {i \in DOMAIN Lineage(c) : old[Lineage(c)[i]] # <<>>}
  BY <1>1 DEF KeptOrInherited
<1>3. Holder(new, c) = Holder(old, c)
  BY <1>2 DEF Holder
<1>4. Holder(old, c) \in 1..c /\ BaseFollows
  BY <1>1, HolderIs DEF DeclarationTypes, AnnotationTypes
<1>5. Holder(old, c) \in Earlier
  BY <1>1, <1>4 DEF Earlier, Class, BaseFollows
<1> QED BY <1>3, <1>5 DEF KeptOrInherited

\* The lists of a class before, read along its lineage.
ListsKept(c) ==
  /\ ListForClass(c)' = ListForClass(c)
  /\ \A m \in Methods :
       /\ ListForMethod(c, m)' = ListForMethod(c, m)
       /\ \A i \in Positions : ListForMethodParameter(c, m, i)' = ListForMethodParameter(c, m, i)

LEMMA ListsAreKept ==
  ASSUME DeclarationTypes, OthersKept, NEW c \in Earlier
  PROVE  ListsKept(c)
<1> DEFINE line == Lineage(c)
<1>1. \A i \in DOMAIN line : line[i] \in Earlier
  BY EarlierIs
<1>2. line' = line
  BY DEF OthersKept, Lineage
<1>3. /\ \A d \in Earlier : classAnnotations'[d] = classAnnotations[d]
      /\ \A d \in Earlier : memberAnnotations'[d] = memberAnnotations[d]
      /\ \A d \in Earlier : parameterAnnotations'[d] = parameterAnnotations[d]
  BY DEF OthersKept, KeptEarlier
<1>4. ListForClass(c)' = ListForClass(c)
  <2> DEFINE S == [i \in DOMAIN line |-> classAnnotations[line[i]]]
             T == [i \in DOMAIN line |-> classAnnotations'[line[i]]]
  <2>1. ListForClass(c) = FlattenSeq(S)
    BY DEF ListForClass, Combined
  <2>2. ListForClass(c)' = FlattenSeq(T)
    BY <1>2 DEF ListForClass, Combined
  <2>3. S = T
    <3> HIDE DEF line
    <3> QED BY <1>1, <1>3
  <2> HIDE DEF S, T
  <2> QED BY <2>1, <2>2, <2>3
<1>5. ASSUME NEW m \in Methods PROVE ListForMethod(c, m)' = ListForMethod(c, m)
  <2> DEFINE S == [i \in DOMAIN line |-> memberAnnotations[line[i]][m]]
             T == [i \in DOMAIN line |-> memberAnnotations'[line[i]][m]]
  <2>1. ListForMethod(c, m) = FlattenSeq(S)
    BY DEF ListForMethod, Combined
  <2>2. ListForMethod(c, m)' = FlattenSeq(T)
    BY <1>2 DEF ListForMethod, Combined
  <2>3. S = T
    <3> HIDE DEF line
    <3> QED BY <1>1, <1>3
  <2> HIDE DEF S, T
  <2> QED BY <2>1, <2>2, <2>3
<1>6. ASSUME NEW m \in Methods, NEW p \in Positions
      PROVE  ListForMethodParameter(c, m, p)' = ListForMethodParameter(c, m, p)
  <2> DEFINE S == [i \in DOMAIN line |-> parameterAnnotations[line[i]][<<m, p>>]]
             T == [i \in DOMAIN line |-> parameterAnnotations'[line[i]][<<m, p>>]]
  <2>1. ListForMethodParameter(c, m, p) = FlattenSeq(S)
    BY DEF ListForMethodParameter, Combined
  <2>2. ListForMethodParameter(c, m, p)' = FlattenSeq(T)
    BY <1>2 DEF ListForMethodParameter, Combined
  <2>3. S = T
    <3> HIDE DEF line
    <3> QED BY <1>1, <1>3
  <2> HIDE DEF S, T
  <2> QED BY <2>1, <2>2, <2>3
<1> QED BY <1>4, <1>5, <1>6 DEF ListsKept

Kept(c) ==
  /\ ListsKept(c)
  /\ RoutesOf(c)' = RoutesOf(c)
  /\ MountsOf(c)' # MountsOf(c) => Holder(mounts, c) \in ToSet(Lineage(Class))
  /\ ListForConstructorParameters(c)' # ListForConstructorParameters(c) =>
       Holder(constructorParameters, c) \in ToSet(Lineage(Class))
  /\ BasePath(c)' # BasePath(c) => ControllerOf(c)[1].options = 0

LEMMA OthersAreKept ==
  ASSUME DeclarationInv, OthersKept, NEW c \in Earlier
  PROVE  Kept(c)
<1> USE DEF DeclarationInv
<1>1. ListsKept(c)
  BY ListsAreKept
<1>2. base' = base
  BY DEF OthersKept
<1>3. RoutesOf(c)' = RoutesOf(c)
  <2>1. KeptOrInherited(routes, routes') /\ KeptEarlier(routes, routes')
    BY KeptIsInherited DEF OthersKept
  <2>2. Holder(routes', c) = Holder(routes, c) /\ Holder(routes, c) \in Earlier
    BY <2>1, HolderKept
  <2>3. Holder(routes, c)' = Holder(routes', c)
    BY <1>2 DEF Holder, Lineage
  <2> QED BY <2>1, <2>2, <2>3 DEF RoutesOf, KeptEarlier
<1>4. MountsOf(c)' # MountsOf(c) => Holder(mounts, c) \in ToSet(Lineage(Class))
  <2>1. Holder(mounts, c)' = Holder(mounts', c)
    BY <1>2 DEF Holder, Lineage
  <2> QED BY <2>1, HolderKept DEF MountsOf, OthersKept
<1>5. ListForConstructorParameters(c)' # ListForConstructorParameters(c) =>
        Holder(constructorParameters, c) \in ToSet(Lineage(Class))
  <2>1. Holder(constructorParameters, c)' = Holder(constructorParameters', c)
    BY <1>2 DEF Holder, Lineage
  <2> QED BY <2>1, HolderKept DEF ListForConstructorParameters, OthersKept
<1>6. BasePath(c)' # BasePath(c) => ControllerOf(c)[1].options = 0
  <2>1. ControllerOf(c)' = ControllerOf(c)
    BY <1>1 DEF ListsKept, ControllerOf, ForClass
  <2>2. CASE ControllerOf(c) = <<>>
    BY <2>1, <2>2 DEF BasePath
  <2>3. CASE ControllerOf(c) # <<>>
    <3>1. BaseFollows /\ ClassesAnnotated /\ c \in 1..Len(base)
      BY EarlierIs DEF DeclarationTypes, AnnotationTypes
    <3>2. PICK d \in 1..c : \E i \in 1..Len(classAnnotations[d]) : ControllerOf(c) = <<classAnnotations[d][i]>>
      BY <2>3, <3>1, ControllerIs
    <3>3. PICK i \in 1..Len(classAnnotations[d]) : ControllerOf(c) = <<classAnnotations[d][i]>>
      BY <3>2
    <3>4. d \in 1..Len(base) /\ d \in Earlier
      BY <3>1 DEF BaseFollows, Earlier, Class
    <3>5. ControllerOf(c)[1].options \in {0, d}
      BY <3>3, <3>4 DEF OptionsKept
    <3>6. optionPaths'[d] = optionPaths[d]
      BY <3>4 DEF OthersKept, KeptEarlier
    <3>7. BasePath(c) = optionPaths[ControllerOf(c)[1].options]
      BY <2>3 DEF BasePath
    <3>8. BasePath(c)' = optionPaths'[ControllerOf(c)[1].options]
      BY <2>1, <2>3 DEF BasePath
    <3> QED BY <3>5, <3>6, <3>7, <3>8
  <2> QED BY <2>2, <2>3
<1> QED BY <1>1, <1>3, <1>4, <1>5, <1>6 DEF Kept

LEMMA EarlierAre ==
  ASSUME DeclarationTypes
  PROVE  \A d \in Earlier : d \in 1..Len(base) /\ d # Class
<1>1. Class = Len(base) /\ Class \in Nat
  BY DEF DeclarationTypes, AnnotationTypes, BaseFollows, Class
<1>2. \A d \in 1..(Class - 1) : d \in 1..Class /\ d # Class
  BY <1>1
<1> QED BY <1>1, <1>2 DEF Earlier

\* One class is another, all others are what they were.
LEMMA LastIsAnother ==
  ASSUME DeclarationTypes, Class # 0, NEW A, NEW old \in Seq(A), Len(old) = Len(base), NEW own
  PROVE  KeptEarlier(old, [old EXCEPT ![Class] = own])
<1>1. DOMAIN old = 1..Len(base) /\ Class = Len(base) /\ Len(base) \in Nat
  BY DEF DeclarationTypes, AnnotationTypes, BaseFollows, Class
<1>2. \A d \in Earlier : d \in DOMAIN old /\ d # Class
  BY <1>1, EarlierAre
<1> QED BY <1>2 DEF KeptEarlier

\* A list read as a property of the last class becomes longer.
LEMMA HeldIsLonger ==
  ASSUME DeclarationTypes, Class # 0, NEW A, NEW old \in Seq(Seq(A)), Len(old) = Len(base), NEW a \in A
  PROVE  KeptOrInherited(old, [old EXCEPT ![Holder(old, Class)] = Append(@, a)])
<1> DEFINE h == Holder(old, Class)
           new == [old EXCEPT ![h] = Append(@, a)]
<1>1. DOMAIN old = 1..Len(base) /\ Class \in 1..Len(base) /\ Class = Len(base) /\ BaseFollows
  BY ClassIsDeclared DEF DeclarationTypes, AnnotationTypes
<1>2. h \in 1..Class /\ h \in ToSet(Lineage(Class)) /\ (old[h] = <<>> => h = Class)
  BY <1>1, HolderIs
<1> HIDE DEF h
<1>3. h \in 1..Len(old)
  BY <1>1, <1>2
<1>4. old[h] \in Seq(A)
  BY <1>3, ElementOfSeq
<1>5. Append(old[h], a) # <<>>
  BY <1>4, AppendEndsIn
<1>6. new[h] = Append(old[h], a) /\ \A d \in 1..Len(base) : d # h => new[d] = old[d]
  BY <1>1, <1>3
<1> HIDE DEF new
<1>7. \A d \in Earlier : d \in 1..Len(base) /\ d # Class
  BY EarlierAre
<1>8. KeptOrInherited(old, new)
  BY <1>2, <1>5, <1>6, <1>7 DEF KeptOrInherited
<1> QED BY <1>8 DEF new, h

LEMMA NothingKept ==
  \A f : KeptEarlier(f, f) /\ KeptOrInherited(f, f)
BY DEF KeptEarlier, KeptOrInherited

LEMMA MembersKeepOthers ==
  ASSUME DeclarationTypes,
         Member \/ \E i \in Positions : DecorateConstructorParameter(i)
  PROVE  OthersKept
<1>1. Class # 0
  BY DEF Member, Method, DecorateParameter, DecorateMethod, Route, DecorateConstructorParameter, Members
<1>2. /\ memberAnnotations \in Seq([Methods -> Seq(Labels)]) /\ Len(memberAnnotations) = Len(base)
      /\ parameterAnnotations \in Seq([Methods \X Positions -> Seq(Inputs)])
      /\ Len(parameterAnnotations) = Len(base)
      /\ constructorParameters \in Seq(Seq(Injected)) /\ Len(constructorParameters) = Len(base)
      /\ routes \in Seq(Seq(DeclaredRoutes)) /\ Len(routes) = Len(base)
  BY DEF DeclarationTypes, AnnotationTypes, ClassTypes
<1>3. ASSUME UNCHANGED <<annotationVars, routes, mounts, optionPaths>> PROVE OthersKept
  BY <1>3, NothingKept DEF OthersKept, annotationVars
<1>4. ASSUME NEW m \in Methods, NEW signature \in Signatures, Method(m, signature) PROVE OthersKept
  BY <1>3, <1>4 DEF Method
<1>5. ASSUME NEW m \in Methods, NEW path \in RoutePaths, Route(m, path) PROVE OthersKept
  <2> DEFINE own == Append(routes[Class], [method |-> m, path |-> path])
  <2>1. routes' = [routes EXCEPT ![Class] = own] /\ UNCHANGED <<annotationVars, mounts, optionPaths>>
    BY <1>5 DEF Route
  <2>2. KeptEarlier(routes, routes')
    <3> HIDE DEF own
    <3> QED BY <1>1, <1>2, <2>1, LastIsAnother
  <2> QED BY <2>1, <2>2, NothingKept DEF OthersKept, annotationVars
<1>6. ASSUME NEW m \in Methods, NEW i \in Positions, NEW input \in Inputs, DecorateParameter(m, i, input)
      PROVE  OthersKept
  <2>1. UNCHANGED <<routes, mounts, optionPaths>>
    BY <1>6 DEF DecorateParameter
  <2>2. UNCHANGED annotationVars \/ ApplyToParameter(Class, m, i, input)
    BY <1>6 DEF DecorateParameter, Applied
  <2>3. ASSUME ApplyToParameter(Class, m, i, input) PROVE OthersKept
    <3> DEFINE own == [parameterAnnotations[Class] EXCEPT ![<<m, i>>] = Append(@, input)]
    <3>1. /\ parameterAnnotations' = [parameterAnnotations EXCEPT ![Class] = own]
          /\ UNCHANGED <<base, classAnnotations, memberAnnotations, constructorParameters>>
      BY <2>3 DEF ApplyToParameter
    <3>2. KeptEarlier(parameterAnnotations, parameterAnnotations')
      <4> HIDE DEF own
      <4> QED BY <1>1, <1>2, <3>1, LastIsAnother
    <3> QED BY <2>1, <3>1, <3>2, NothingKept DEF OthersKept
  <2> QED BY <1>3, <2>1, <2>2, <2>3
<1>7. ASSUME NEW m \in Methods, DecorateMethod(m) PROVE OthersKept
  <2>1. UNCHANGED <<routes, mounts, optionPaths>>
    BY <1>7 DEF DecorateMethod
  <2>2. UNCHANGED annotationVars \/ ApplyToMethod(Class, m, [name |-> "Label"])
    BY <1>7 DEF DecorateMethod, Applied
  <2>3. ASSUME ApplyToMethod(Class, m, [name |-> "Label"]) PROVE OthersKept
    <3> DEFINE own == [memberAnnotations[Class] EXCEPT ![m] = Append(@, [name |-> "Label"])]
    <3>1. /\ memberAnnotations' = [memberAnnotations EXCEPT ![Class] = own]
          /\ UNCHANGED <<base, classAnnotations, parameterAnnotations, constructorParameters>>
      BY <2>3 DEF ApplyToMethod
    <3>2. KeptEarlier(memberAnnotations, memberAnnotations')
      <4> HIDE DEF own
      <4> QED BY <1>1, <1>2, <3>1, LastIsAnother
    <3> QED BY <2>1, <3>1, <3>2, NothingKept DEF OthersKept
  <2> QED BY <1>3, <2>1, <2>2, <2>3
<1>8. ASSUME NEW i \in Positions, DecorateConstructorParameter(i) PROVE OthersKept
  <2>1. UNCHANGED <<routes, mounts, optionPaths>>
    BY <1>8 DEF DecorateConstructorParameter
  <2>2. UNCHANGED annotationVars \/ ApplyToConstructorParameter(Class, i, [name |-> "Inject"])
    BY <1>8 DEF DecorateConstructorParameter, Applied
  <2>3. ASSUME ApplyToConstructorParameter(Class, i, [name |-> "Inject"]) PROVE OthersKept
    <3> DEFINE a == [position |-> i, annotation |-> [name |-> "Inject"]]
    <3>1. /\ constructorParameters' = [constructorParameters EXCEPT
               ![Holder(constructorParameters, Class)] = Append(@, a)]
          /\ UNCHANGED <<base, classAnnotations, memberAnnotations, parameterAnnotations>>
      BY <2>3 DEF ApplyToConstructorParameter
    <3>2. a \in Injected
      BY DEF Injected
    <3>3. KeptOrInherited(constructorParameters, constructorParameters')
      <4> HIDE DEF a
      <4> QED BY <1>1, <1>2, <3>1, <3>2, HeldIsLonger
    <3> QED BY <2>1, <3>1, <3>3, NothingKept DEF OthersKept
  <2> QED BY <1>3, <2>1, <2>2, <2>3
<1> QED BY <1>4, <1>5, <1>6, <1>7, <1>8 DEF Member

LEMMA MountKeepsOthers ==
  ASSUME DeclarationTypes, NEW f \in Fields, NEW path \in MountPaths, NEW child, Mount(f, path, child)
  PROVE  OthersKept
<1> DEFINE a == [field |-> f, path |-> path]
<1>1. /\ Class # 0 /\ mounts' = [mounts EXCEPT ![Holder(mounts, Class)] = Append(@, a)]
      /\ UNCHANGED <<annotationVars, routes, optionPaths>>
  BY DEF Mount, Members
<1>2. mounts \in Seq(Seq(DeclaredMounts)) /\ Len(mounts) = Len(base)
  BY DEF DeclarationTypes, ClassTypes
<1>3. a \in DeclaredMounts
  BY DEF DeclaredMounts
<1>4. KeptOrInherited(mounts, mounts')
  <2> HIDE DEF a
  <2> QED BY <1>1, <1>2, <1>3, HeldIsLonger
<1> QED BY <1>1, <1>4, NothingKept DEF OthersKept, annotationVars

LEMMA ControlledKeepsOthers ==
  ASSUME DeclarationTypes, Class # 0, NEW path, NEW shared \in {0, Class}, NEW guards,
         Controlled(path, shared, guards), UNCHANGED <<routes, mounts>>
  PROVE  OthersKept
<1> DEFINE a == [name |-> "Controller", path |-> path, options |-> shared, guards |-> guards]
           own == Append(classAnnotations[Class], a)
<1>1. /\ classAnnotations \in Seq(Seq(ControllerAnnotations)) /\ Len(classAnnotations) = Len(base)
      /\ optionPaths \in [0..MaxClasses -> Seq(STRING)] /\ Len(base) <= MaxClasses
      /\ Class = Len(base) /\ Class \in 1..Len(base) /\ MaxClasses \in Nat
  BY ClassIsDeclared, TreeAssumption DEF DeclarationTypes, AnnotationTypes, ClassesAnnotated, ClassTypes
<1>2. /\ base' = base /\ UNCHANGED <<memberAnnotations, parameterAnnotations, constructorParameters>>
      /\ classAnnotations' = classAnnotations \/ classAnnotations' = [classAnnotations EXCEPT ![Class] = own]
  BY DEF Controlled, Applied, ApplyToClass, annotationVars
<1>3. KeptEarlier(classAnnotations, classAnnotations')
  <2> HIDE DEF own
  <2>1. KeptEarlier(classAnnotations, [classAnnotations EXCEPT ![Class] = own])
    BY <1>1, LastIsAnother
  <2> QED BY <1>2, <2>1, NothingKept
<1>4. KeptEarlier(optionPaths, optionPaths')
  <2>1. optionPaths' = optionPaths \/ optionPaths' = [optionPaths EXCEPT ![shared] = path]
    BY DEF Controlled
  <2>2. \A d \in Earlier : d \in 0..MaxClasses /\ d # shared
    BY <1>1 DEF Earlier
  <2> QED BY <1>1, <2>1, <2>2 DEF KeptEarlier
<1> QED BY <1>2, <1>3, <1>4, NothingKept DEF OthersKept

LEMMA OthersKeptStep ==
  ASSUME DeclarationInv, TreeNext, phase = "declaring", Class' = Class
  PROVE  OthersKept
<1> USE DEF DeclarationInv
<1>1. ASSUME NEW b \in 0..Class, Declare(b) PROVE FALSE
  <2>1. base \in Seq(Nat) /\ b \in Nat
    BY DEF DeclarationTypes, AnnotationTypes, BaseFollows, Class
  <2>2. base' = Append(base, b)
    BY <1>1 DEF Declare, DeclareClass
  <2>3. Len(base') = Len(base) + 1 /\ Len(base) \in Nat
    BY <2>1, <2>2
  <2> QED BY <2>3 DEF Class
<1>2. CASE Member \/ \E i \in Positions : DecorateConstructorParameter(i)
  BY <1>2, MembersKeepOthers
<1>3. ASSUME NEW f \in Fields, NEW path \in MountPaths, NEW child \in 1..Class, Mount(f, path, child)
      PROVE  OthersKept
  BY <1>3, MountKeepsOthers
<1>4. ASSUME NEW path \in BasePaths, NEW shared \in {0, Class}, Controller(path, shared)
      PROVE  OthersKept
  BY <1>4, ControlledKeepsOthers DEF Controller, Members
<1>5. CASE Build
  BY <1>5, ControlledKeepsOthers DEF Build
<1>6. ~ (ReflectionFails \/ MountRecurses \/ RoutesFail \/ MountChild \/ Finish)
  BY DEF ReflectionFails, MountRecurses, RoutesFail, MountChild, Finish, Mounting, Building
<1> QED BY <1>1, <1>2, <1>3, <1>4, <1>5, <1>6 DEF TreeNext

\* What was declared for the classes before stays what it was while a class is declared,
\* but for inherited lists of mounts and of constructor parameters and for shared options
\* (OthersKeepTheirs).
THEOREM DeclarationsAreOwn == ServiceSpec => OthersKeepTheirs
<1> DEFINE Step == phase = "declaring" /\ Class' = Class => \A c \in Earlier : Kept(c)
<1>1. ASSUME DeclaredService, [ServiceNext]_serviceVars PROVE [Step]_serviceVars
  <2> SUFFICES ASSUME ServiceNext, phase = "declaring", Class' = Class, NEW c \in Earlier PROVE Kept(c)
    BY <1>1
  <2>1. TreeNext
    BY DEF ServiceNext, Unanswered, Handled, Responds, Constructs, Makes, Reencodes, GivesType
  <2> QED BY <1>1, <2>1, OthersKeptStep, OthersAreKept DEF DeclaredService
<1>2. [Step]_serviceVars =>
        [phase = "declaring" /\ Class' = Class => \A c \in 1..(Class - 1) :
           /\ ListForClass(c)' = ListForClass(c)
           /\ RoutesOf(c)' = RoutesOf(c)
           /\ \A m \in Methods :
                /\ ListForMethod(c, m)' = ListForMethod(c, m)
                /\ \A i \in Positions : ListForMethodParameter(c, m, i)' = ListForMethodParameter(c, m, i)
           /\ MountsOf(c)' # MountsOf(c) => Holder(mounts, c) \in ToSet(Lineage(Class))
           /\ ListForConstructorParameters(c)' # ListForConstructorParameters(c) =>
                Holder(constructorParameters, c) \in ToSet(Lineage(Class))
           /\ BasePath(c)' # BasePath(c) => ControllerOf(c)[1].options = 0]_serviceVars
  BY DEF Earlier, Kept, ListsKept
<1> QED BY <1>1, <1>2, ServiceIsDeclared, PTL DEF ServiceSpec, OthersKeepTheirs
=============================================================================
