--------------------------- MODULE RouteExecution ---------------------------
(***************************************************************************)
(* One request handled by a RouteInstance of @alterior/web-server: the     *)
(* middleware, the parameters, the interceptors around the controller      *)
(* method, the conversion of what it returned or threw into a response,    *)
(* the last-chance error handler of mount(), and the reporting of the      *)
(* request with its `long` and `hung` timers.                              *)
(*                                                                         *)
(* Code of the application may write to the response, or end it, at any    *)
(* moment from the first middleware on, and its hooks may throw.  Status   *)
(* codes are assumed to be ones Node.js sends as the last word.            *)
(***************************************************************************)
EXTENDS Naturals

CONSTANTS NumMiddleware, NumInterceptors,  \* those that apply to the route
          Statuses                         \* status codes the application chooses from

ASSUME CountsAssumption == NumMiddleware \in Nat /\ NumInterceptors \in Nat
ASSUME StatusesAssumption == Statuses \subseteq 200..599

VARIABLES options,   \* the hooks of the server and which of them may throw
          pc,        \* where the request is
          at,        \* the middleware that runs
          depth,     \* interceptors entered and not left
          outcome,   \* what was returned or thrown last and is being dealt with
          response,  \* status code, status on the wire (0: headers not sent), ended
          timers,    \* the `long` and `hung` timeouts that are set
          loud,      \* whether the reporting filters let the request through
          touched,   \* history: application code began the response itself
          filtered,  \* history: the filters changed their mind
          late       \* history: a report threw after the response had ended

requestVars == <<options, pc, at, depth, outcome, response, timers, loud,
                 touched, filtered, late>>
reporting == <<timers, loud, filtered, late>>

Outcome(kind, status) == [kind |-> kind, status |-> status]
NoOutcome == Outcome("none", 0)

\* What can be thrown: an HttpError, one whose headers or body cannot be written,
\* undefined or null, something JSON cannot express, anything else.
HttpErrors == [kind : {"http", "unsendable"}, status : Statuses]
PlainErrors == [kind : {"nullish", "unserializable", "other"}, status : {0}]
Errors == HttpErrors \cup PlainErrors
Other == Outcome("other", 0)

\* What can be returned: undefined, null, something JSON can or cannot express,
\* a Response with a body, without one, and with a body of unknown type.
Results == [kind : {"undefined", "null", "json", "unencodable"}, status : {0}]
           \cup [kind : {"body", "empty", "unknownBody"}, status : Statuses]

Terminal == {"done", "lost", "abandoned"}
Running == {"middleware", "params", "descending", "handler", "ascending", "lastChance"}

Options == [onErrorThrows : BOOLEAN, reporterThrows : BOOLEAN,
            handleError : {"default", "answers", "silent", "throws"}]
Codes == Statuses \cup {200, 204, 500}

RequestTypes ==
    /\ options \in Options
    /\ pc \in {"accepted"} \cup Running \cup Terminal
    /\ at \in 1..(NumMiddleware + 1)
    /\ depth \in 0..NumInterceptors
    /\ outcome \in Errors \cup Results \cup {NoOutcome}
    /\ response \in [status : Codes, wire : Codes \cup {0}, ended : BOOLEAN]
    /\ timers \subseteq {"long", "hung"}
    /\ loud \in BOOLEAN /\ touched \in BOOLEAN /\ filtered \in BOOLEAN /\ late \in BOOLEAN

RequestInit ==
    /\ options \in Options
    /\ pc = "accepted" /\ at = 1 /\ depth = 0 /\ outcome = NoOutcome
    /\ response = [status |-> 200, wire |-> 0, ended |-> FALSE]
    /\ timers = {} /\ loud \in BOOLEAN
    /\ touched = FALSE /\ filtered = FALSE /\ late = FALSE

HeadersSent == response.wire # 0

\* end() after setting a status; the headers go out with the first status.
Answered(status) ==
    [status |-> status, wire |-> IF HeadersSent THEN response.wire ELSE status, ended |-> TRUE]

\* The status code is set, and then something throws.
Begun(status) == [response EXCEPT !.status = status]
-----------------------------------------------------------------------------
\* An HttpError is written to the response, which fails once the headers are sent.
\* What a body's toJSON() throws may be anything.
TellHttpError(err, thrown) ==
    /\ err \in HttpErrors
    /\ IF err.kind = "http" /\ ~HeadersSent
       THEN thrown = NoOutcome /\ response' = Answered(err.status)
       ELSE /\ thrown \in (IF HeadersSent THEN {Other} ELSE Errors)
            /\ response' = Begun(err.status)
    /\ UNCHANGED touched

\* Variant: the default handler leaves the status code of the response as it was.
TellErrorKeepingStatus(err, thrown) ==
    /\ IF err.kind = "other" /\ ~HeadersSent
       THEN thrown = NoOutcome /\ response' = Answered(response.status)
       ELSE /\ thrown \in (IF HeadersSent THEN {Other} ELSE Errors)
            /\ response' = response
    /\ UNCHANGED touched

\* The default: a 500 with the error as JSON.
TellError(err, thrown) ==
    /\ IF err.kind = "other" /\ ~HeadersSent
       THEN thrown = NoOutcome /\ response' = Answered(500)
       ELSE /\ thrown \in (IF HeadersSent THEN {Other} ELSE Errors)
            /\ response' = Begun(500)
    /\ UNCHANGED touched

\* The option handleError takes over: it answers, does nothing, or throws.
HookHandles(thrown) ==
    \/ /\ options.handleError = "answers"
       /\ thrown = NoOutcome /\ touched' = TRUE
       /\ \E s \in Statuses : response' = Answered(s)
    \/ /\ options.handleError = "silent"
       /\ thrown = NoOutcome /\ UNCHANGED <<response, touched>>
    \/ /\ options.handleError = "throws"
       /\ thrown \in Errors /\ UNCHANGED <<response, touched>>

\* WebServer.handleError(): the error is told to the client unless a hook decides
\* otherwise; `thrown` is what the handling throws itself.
HandleError(err, thrown) ==
    \/ TellHttpError(err, thrown)
    \/ /\ err.kind = "nullish"
       /\ thrown = Other /\ UNCHANGED <<response, touched>>
    \/ /\ err \in PlainErrors /\ err.kind # "nullish"
       /\ \/ options.onErrorThrows /\ thrown \in Errors /\ UNCHANGED <<response, touched>>
          \/ options.handleError = "default" /\ TellError(err, thrown)
          \/ HookHandles(thrown)

\* Variant: a request that ends with an error keeps its timers.
ReportFinishedOnSuccess(out, next, orElse) ==
    /\ \/ /\ timers' = IF loud /\ out \notin Errors THEN {} ELSE timers
          /\ pc' = next /\ outcome' = out /\ UNCHANGED late
       \/ /\ options.reporterThrows
          /\ pc' = orElse /\ outcome' \in Errors
          /\ late' = (late \/ response'.ended) /\ UNCHANGED timers
    /\ UNCHANGED <<loud, filtered>>

\* reportRequest('finished'): the default reporter clears its timers, and the request
\* goes on to `next` with `out`; a filter or reporter that throws leads to `orElse`.
ReportFinished(out, next, orElse) ==
    /\ \/ /\ timers' = IF loud THEN {} ELSE timers
          /\ pc' = next /\ outcome' = out /\ UNCHANGED late
       \/ /\ options.reporterThrows
          /\ pc' = orElse /\ outcome' \in Errors
          /\ late' = (late \/ response'.ended) /\ UNCHANGED timers
    /\ UNCHANGED <<loud, filtered>>
-----------------------------------------------------------------------------
\* The report 'middleware', then the first middleware; without any, the parameters.
\* A controller without the method is found first, and is no better than a report
\* that throws.
Accept ==
    /\ pc = "accepted"
    /\ \/ /\ pc' = IF NumMiddleware = 0 THEN "params" ELSE "middleware"
          /\ UNCHANGED outcome
       \/ /\ pc' = "lastChance"
          /\ outcome' \in (IF options.reporterThrows THEN Errors ELSE {Other})
    /\ UNCHANGED <<options, at, depth, response, reporting, touched>>

\* A middleware calls next().
MiddlewareNext ==
    /\ pc = "middleware"
    /\ at' = at + 1
    /\ pc' = IF at = NumMiddleware THEN "params" ELSE "middleware"
    /\ UNCHANGED <<options, depth, outcome, response, reporting, touched>>

\* Variant: mount() does not catch what the handling throws.
AbortUncaught(err) ==
    /\ \E thrown \in Errors \cup {NoOutcome} :
        /\ HandleError(err, thrown)
        /\ IF thrown = NoOutcome THEN ReportFinished(err, "done", "lost")
           ELSE pc' = "lost" /\ outcome' = thrown /\ UNCHANGED reporting
    /\ UNCHANGED <<options, at, depth>>

\* The error path of the middleware and of the parameters: handle the error,
\* report, return; an error thrown by the handling goes to mount().
Abort(err) ==
    /\ \E thrown \in Errors \cup {NoOutcome} :
        /\ HandleError(err, thrown)
        /\ IF thrown = NoOutcome THEN ReportFinished(err, "done", "lastChance")
           ELSE pc' = "lastChance" /\ outcome' = thrown /\ UNCHANGED reporting
    /\ UNCHANGED <<options, at, depth>>

\* A middleware throws, or calls next() with an error.
MiddlewareFails(err) == pc = "middleware" /\ Abort(err)

\* A middleware that never calls next(): it ends the response, or hangs.
MiddlewareStops ==
    /\ pc = "middleware"
    /\ pc' = "abandoned"
    /\ UNCHANGED <<options, at, depth, outcome, response, reporting, touched>>

ParamsFail(err) == pc = "params" /\ Abort(err)

\* All parameters are resolved; the report 'starting' sets the timers.  Before it the
\* parameters are put into words, which fails for a function.
ParamsResolve ==
    /\ pc = "params"
    /\ \/ /\ pc' = "descending"
          /\ timers' = IF loud THEN {"long", "hung"} ELSE timers
          /\ UNCHANGED outcome
       \/ /\ pc' = "lastChance"
          /\ outcome' \in (IF options.reporterThrows THEN Errors ELSE {Other})
          /\ UNCHANGED timers
    /\ UNCHANGED <<options, at, depth, response, loud, touched, filtered, late>>

\* The outermost interceptor that has not run is entered.
EnterInterceptor ==
    /\ pc = "descending" /\ depth < NumInterceptors
    /\ depth' = depth + 1
    /\ UNCHANGED <<options, pc, at, outcome, response, reporting, touched>>

CallMethod ==
    /\ pc = "descending" /\ depth = NumInterceptors
    /\ pc' = "handler"
    /\ UNCHANGED <<options, at, depth, outcome, response, reporting, touched>>

\* The innermost interceptor entered returns or throws without calling its action.
ShortCircuit(out) ==
    /\ pc = "descending" /\ depth > 0
    /\ pc' = "ascending" /\ depth' = depth - 1 /\ outcome' = out
    /\ UNCHANGED <<options, at, response, reporting, touched>>

MethodSettles(out) ==
    /\ pc = "handler"
    /\ pc' = "ascending" /\ outcome' = out
    /\ UNCHANGED <<options, at, depth, response, reporting, touched>>

\* Variant: the outermost interceptor is never left.
LeaveInnerInterceptor(out) ==
    /\ pc = "ascending" /\ depth > 1
    /\ depth' = depth - 1 /\ outcome' = out
    /\ UNCHANGED <<options, pc, at, response, reporting, touched>>

\* An interceptor passes on what its action returned or threw, or replaces it.
LeaveInterceptor(out) ==
    /\ pc = "ascending" /\ depth > 0
    /\ depth' = depth - 1 /\ outcome' = out
    /\ UNCHANGED <<options, pc, at, response, reporting, touched>>

\* The method or an interceptor threw.  The finally block reports in any case, and
\* what the report throws replaces what was thrown before.
ExecutionFailed ==
    /\ pc = "ascending" /\ depth = 0 /\ outcome \in Errors
    /\ \E thrown \in Errors \cup {NoOutcome} :
        /\ HandleError(outcome, thrown)
        /\ IF thrown = NoOutcome THEN ReportFinished(outcome, "done", "lastChance")
           ELSE ReportFinished(thrown, "lastChance", "lastChance")
    /\ UNCHANGED <<options, at, depth>>

NoContent(status) == IF ~HeadersSent /\ status = 200 THEN 204 ELSE status

\* The status code execute() has set when it sends a result.
StatusFor(result) ==
    CASE result.kind = "undefined"              -> NoContent(response.status)
      [] result.kind = "null"                   -> response.status
      [] result.kind \in {"json", "unencodable"} -> 200
      [] result.kind = "empty"                  -> NoContent(result.status)
      [] OTHER                                  -> result.status

\* What sending throws: JSON or the encoding refuses the body (a toJSON() may throw
\* anything), a header is set once the headers are sent, and Node.js refuses the
\* headers or the status of a Response.
SendThrows(result) ==
    CASE result.kind = "undefined"            -> {NoOutcome}
      [] result.kind \in {"null", "json"}      -> {IF HeadersSent THEN Other ELSE NoOutcome}
      [] result.kind = "unencodable"          -> IF HeadersSent THEN {Other} ELSE Errors
      [] result.kind = "unknownBody"          -> {Other}
      [] result.kind \in {"body", "empty"}     -> {Other, NoOutcome}

\* Return value handling.
SendResult ==
    /\ pc = "ascending" /\ depth = 0 /\ outcome \in Results
    /\ \E thrown \in SendThrows(outcome) :
        IF thrown = NoOutcome
        THEN response' = Answered(StatusFor(outcome)) /\ ReportFinished(outcome, "done", "lastChance")
        ELSE response' = Begun(StatusFor(outcome)) /\ ReportFinished(thrown, "lastChance", "lastChance")
    /\ UNCHANGED <<options, at, depth, touched>>

\* Variant: the last-chance handler only logs.
LastChanceLogs ==
    /\ pc = "lastChance"
    /\ pc' = "done"
    /\ UNCHANGED <<options, at, depth, outcome, response, reporting, touched>>

\* The catch block of mount().  It cannot put undefined or null into words, and what
\* it throws itself nobody handles.
LastChance ==
    /\ pc = "lastChance"
    /\ \/ /\ outcome.kind = "nullish"
          /\ pc' = "lost" /\ UNCHANGED <<outcome, response, reporting, touched>>
       \/ /\ outcome.kind # "nullish"
          /\ \E thrown \in Errors \cup {NoOutcome} :
                /\ HandleError(outcome, thrown)
                /\ IF thrown = NoOutcome THEN ReportFinished(outcome, "done", "lost")
                   ELSE pc' = "lost" /\ UNCHANGED <<outcome, reporting>>
    /\ UNCHANGED <<options, at, depth>>

Execute ==
    \/ Accept \/ MiddlewareNext \/ MiddlewareStops
    \/ \E err \in Errors : MiddlewareFails(err) \/ ParamsFail(err)
    \/ ParamsResolve
    \/ EnterInterceptor \/ CallMethod
    \/ \E out \in Errors \cup Results :
            ShortCircuit(out) \/ MethodSettles(out) \/ LeaveInterceptor(out)
    \/ ExecutionFailed \/ SendResult
    \/ LastChance

\* Application code sets a status code, writes, or ends the response.
UserSetsStatus ==
    /\ pc \in Running /\ ~HeadersSent
    /\ \E s \in Statuses : response' = Begun(s)
    /\ UNCHANGED <<options, pc, at, depth, outcome, reporting, touched>>

UserResponds ==
    /\ pc \in Running \cup {"abandoned"} /\ ~response.ended
    /\ \E ended \in BOOLEAN :
        response' = [Answered(response.status) EXCEPT !.ended = ended]
    /\ touched' = TRUE
    /\ UNCHANGED <<options, pc, at, depth, outcome, reporting>>

\* Filters are added or removed, or answer differently.
FiltersChange ==
    /\ loud' = ~loud
    /\ filtered' = TRUE
    /\ UNCHANGED <<options, pc, at, depth, outcome, response, timers, touched, late>>

\* A timeout elapses: the request is reported as long or as hung.
TimerFires ==
    /\ \E t \in timers : timers' = timers \ {t}
    /\ UNCHANGED <<options, pc, at, depth, outcome, response, loud, touched, filtered, late>>

RequestNext == Execute \/ UserSetsStatus \/ UserResponds \/ FiltersChange \/ TimerFires

\* The event loop runs every callback, and the application's functions settle.
Fairness == WF_requestVars(Execute)

RequestSpec == RequestInit /\ [][RequestNext]_requestVars /\ Fairness
-----------------------------------------------------------------------------
(***************************************************************************)
(* Properties                                                              *)
(***************************************************************************)
\* A request that execute() or mount() finished with has been answered, unless the
\* last error went to a handler of the option handleError that chose not to.
AnsweredWhenDone ==
    pc = "done" => response.ended \/ (options.handleError = "silent" /\ outcome \in PlainErrors)

\* A request is lost, its handling ending in a rejected promise nobody handles, only
\* when application code had begun the response, an error hook throws, a reporting
\* filter or reporter throws once there is nothing left to tell the client, or what
\* application code threw at a second go can itself not be told.
LostOnlyWhenBegun ==
    pc = "lost" =>
        \/ touched
        \/ options.onErrorThrows \/ options.handleError = "throws"
        \/ options.reporterThrows /\ (response.ended \/ options.handleError = "silent")
        \/ outcome.kind \in {"nullish", "unserializable", "unsendable"}

\* The status codes that tell a result or an error.
Telling(out) ==
    CASE out \in PlainErrors             -> {500}
      [] out.kind \in {"http", "body"}    -> {out.status}
      [] out.kind = "empty"              -> {IF out.status = 200 THEN 204 ELSE out.status}
      [] out.kind = "undefined"          -> {204} \cup Statuses
      [] out.kind = "null"               -> {200} \cup Statuses
      [] out.kind = "json"               -> {200}

\* Unless application code sent something itself, what the client sees is the status
\* of the last thing that went right or wrong before the response ended: the error of
\* a middleware, a parameter, an interceptor, the method or of the sending of its
\* result reaches the client, an HttpError or a Response with its own status.
ErrorsReachClient ==
    pc = "done" /\ response.ended /\ ~touched /\ ~late => response.wire \in Telling(outcome)

\* With constant filters, no timer is left to report a request that is over as
\* long or hung; a lost one may keep them when the report itself throws.
QuietWhenDone ==
    ~filtered /\ (pc = "done" \/ (pc = "lost" /\ ~options.reporterThrows)) => timers = {}

\* Every request comes to an end or stays with the middleware that keeps it.
RequestEnds == <>(pc \in Terminal)

=============================================================================
