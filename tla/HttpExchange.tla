---------------------------- MODULE HttpExchange ----------------------------
(***************************************************************************)
(* A request of HttpClient, from subscribing to what request() returned to *)
(* the last event: packages/http/src/client.ts (request), module.ts and    *)
(* interceptor.ts (the chain of interceptors), server.ts (the zone         *)
(* macrotask around an exchange on the platform "server") and one of two   *)
(* backends: xhr.ts (the XMLHttpRequest below) or testing/ (a list of      *)
(* requests that a test answers).  Each subscription makes an exchange of  *)
(* its own.                                                                *)
(*                                                                         *)
(* The layers of one exchange are a record, and each callback of a layer   *)
(* is an operator that hands on to the layer above it within the same      *)
(* step, as the callbacks do.  The network, the test and the subscriber    *)
(* move on their own: headers, progress, an answer or an error may come,   *)
(* or the subscriber may unsubscribe, at any moment.                       *)
(***************************************************************************)
EXTENDS Naturals, Sequences, HttpClient

CONSTANTS
  Subscriptions,    \* the subscriptions to one observable of request()
  MaxProgress       \* bound: progress events of an exchange in each direction

ASSUME MaxProgressAssumption == MaxProgress \in Nat

VARIABLES
  call,         \* the signature that was called, and with what
  setup,        \* the platform and the backend of the application
  exchange      \* the exchange of each subscription

vars == <<call, setup, exchange>>

request == RequestOf(call)

NoAnswer == [by |-> "nobody", status |-> 0, body |-> "none"]

\* state: of the subscriber.  got: the events it received.  task, saved: of the
\* ZoneMacroTaskWrapper.  xhr, listening, sentHeaders: of HttpXhrBackend.  test and
\* cancelled: of the TestRequest, which is open, taken by the test or lost to it.
\* sent and received count progress events; answer is what the other side did, threw
\* tells of a handler that threw.
NewExchange ==
  [state |-> "idle", got |-> <<>>, task |-> "none", saved |-> [kind |-> "null", body |-> "none"],
   xhr |-> "none", listening |-> FALSE, sentHeaders |-> FALSE,
   test |-> "none", cancelled |-> FALSE,
   sent |-> 0, received |-> 0, answer |-> NoAnswer, threw |-> FALSE]

Init ==
  /\ call \in Calls
  /\ setup \in [platform : {"browser", "server"}, backend : {"xhr", "testing"}]
  /\ exchange = [s \in Subscriptions |-> NewExchange]

Statuses == {0, 200, 204, 404, 1223}
Received == {"", "json", "garbage"}     \* what a server sends

OnServer == setup.platform = "server"
InFlight(x) == x.xhr \in {"sent", "receiving"}

\* Each event with a body of its own type; events without one have none.
Event(kind) == [kind |-> kind, body |-> "none"]
Response(body) == [kind |-> "Response", body |-> body]

-----------------------------------------------------------------------------
(* The teardown of each layer. *)

\* HttpXhrBackend: the listeners are removed and the request is aborted.
\* HttpClientTestingBackend: the request counts as cancelled, however it ended.
Release(x) ==
  [x EXCEPT !.listening = FALSE, !.xhr = IF InFlight(x) THEN "aborted" ELSE @,
            !.cancelled = (x.test # "none")]

\* Mutant: an end that leaves the request below alone.
CancelTask(x) == [x EXCEPT !.task = IF @ = "scheduled" THEN "cancelled" ELSE @]

\* ZoneMacroTaskWrapper: a task that is still scheduled is cancelled.
Cancel(x) == [Release(x) EXCEPT !.task = IF @ = "scheduled" THEN "cancelled" ELSE @]

-----------------------------------------------------------------------------
(* HttpClient.request(): what of the stream of events the subscriber sees. *)

Ends(x, how) == [Cancel(x) EXCEPT !.state = how]


\* A body that can be told from the type asked for is refused, which ends the stream.
BodyFits(body) == request.type = "json" \/ body \in {request.type, "null"}

Deliver(x, event) ==
  CASE request.observe = "events" -> [x EXCEPT !.got = Append(@, event)]
    [] request.observe # "events" /\ event.kind # "Response" -> x
    [] request.observe = "response" /\ event.kind = "Response" -> [x EXCEPT !.got = Append(@, event)]
    [] OTHER ->
         IF BodyFits(event.body) THEN [x EXCEPT !.got = Append(@, [event EXCEPT !.kind = "Body"])]
         ELSE Ends(x, "errored")

-----------------------------------------------------------------------------
(* ZoneMacroTaskWrapper: on the server only the last event comes through, when *)
(* the task of the exchange runs.                                               *)

\* A subscriber that is done hears nothing more.
EmitNext(x, event) ==
  CASE x.state # "open" -> x
    [] x.state = "open" /\ OnServer -> [x EXCEPT !.saved = event]
    [] OTHER -> Deliver(x, event)

RunTask(x) == [x EXCEPT !.task = IF OnServer THEN "ran" ELSE @]

EmitComplete(x) ==
  LET last == IF OnServer THEN Deliver(RunTask(x), x.saved) ELSE x
  IN  IF last.state = "open" THEN Ends(last, "completed") ELSE last

EmitError(x) == Ends(RunTask(x), "errored")

Scheduled(x) == [x EXCEPT !.task = IF OnServer THEN "scheduled" ELSE @]

-----------------------------------------------------------------------------
(* Subscribing: the chain of interceptors is run, then the backend. *)

Opened(s) == [Scheduled(exchange[s]) EXCEPT !.state = "open"]

Becomes(s, x) == exchange' = [exchange EXCEPT ![s] = x] /\ UNCHANGED <<call, setup>>

\* HttpXhrBackend is reached; a body that cannot be serialised is an error of the stream.
Send(s) ==
  /\ setup.backend = "xhr" /\ exchange[s].state = "idle"
  /\ request.method # "JSONP"
  /\ \/ Becomes(s, EmitNext([Opened(s) EXCEPT !.xhr = "sent", !.listening = TRUE], Event("Sent")))
     \/ /\ request.body = "object"
        /\ Becomes(s, EmitError([Opened(s) EXCEPT !.xhr = "unsent"]))

\* An interceptor answers in the place of the backend, with a body of its own making.
InterceptorAnswers(s) ==
  /\ exchange[s].state = "idle"
  /\ \E body \in BodyTypes \union {"null"} :
       LET x == [Opened(s) EXCEPT !.answer = [NoAnswer EXCEPT !.by = "interceptor", !.body = body]]
       IN  Becomes(s, EmitComplete(EmitNext(x, Response(body))))

\* An interceptor, the lookup of the interceptors or HttpXhrBackend (method JSONP) throws
\* out of handle(): RxJS makes it an error of the stream, but no callback of the
\* wrapper hears of it.
HandlerThrows(s) ==
  /\ exchange[s].state = "idle"
  /\ Becomes(s, [Opened(s) EXCEPT !.state = "errored", !.threw = TRUE])

-----------------------------------------------------------------------------
(* The network, and the listeners of HttpXhrBackend. *)

\* request.progress registers the progress listeners; the answer has not begun yet.
UploadProgress(s) ==
  /\ exchange[s].xhr = "sent" /\ request.body # "none"
  /\ exchange[s].sent < MaxProgress
  /\ LET x == [exchange[s] EXCEPT !.sent = @ + 1]
     IN  Becomes(s, IF x.listening /\ request.progress THEN EmitNext(x, Event("UploadProgress")) ELSE x)

\* Mutant: the headers come with every progress event.
DownloadProgressHeading(s) ==
  /\ InFlight(exchange[s])
  /\ exchange[s].received < MaxProgress
  /\ LET x == [exchange[s] EXCEPT !.xhr = "receiving", !.received = @ + 1]
     IN  Becomes(s, IF x.listening /\ request.progress
                    THEN EmitNext(EmitNext(x, Event("ResponseHeader")), Event("DownloadProgress")) ELSE x)

DownloadProgress(s) ==
  /\ InFlight(exchange[s])
  /\ exchange[s].received < MaxProgress
  /\ LET x == [exchange[s] EXCEPT !.xhr = "receiving", !.received = @ + 1]
         headed == IF x.sentHeaders THEN x
                   ELSE [EmitNext(x, Event("ResponseHeader")) EXCEPT !.sentHeaders = TRUE]
     IN  Becomes(s, IF x.listening /\ request.progress
                    THEN EmitNext(headed, Event("DownloadProgress")) ELSE x)

\* A body of bytes is never the empty string.
HasBody(body) == body # "" \/ request.type \in {"arraybuffer", "blob"}

\* onLoad(): what becomes of the status (IE reports 1223 for 204, and a local file has
\* none) and of the body.
LoadStatus(status, body) ==
  CASE status = 1223 -> 204
    [] status = 0 /\ HasBody(body) -> 200
    [] OTHER -> status

\* What is read of a body: JSON is parsed, an empty text of it is null.
ReadBody(status, body) ==
  CASE status = 204 -> "null"
    [] status # 204 /\ request.type = "json" /\ body = "" -> "null"
    [] OTHER -> request.type

Loads(x, status, body) ==
  LET s == LoadStatus(status, body)
      ok == s \in 200..299 /\ ~(s # 204 /\ request.type = "json" /\ body = "garbage")
  IN  IF ok THEN EmitComplete(EmitNext(x, Response(ReadBody(s, body)))) ELSE EmitError(x)

Answered(x, by, status, body) == [x EXCEPT !.answer = [by |-> by, status |-> status, body |-> body]]

Load(s) ==
  /\ InFlight(exchange[s])
  /\ \E status \in Statuses, body \in Received :
       LET x == [Answered(exchange[s], "server", status, body) EXCEPT !.xhr = "loaded"]
       IN  Becomes(s, IF x.listening THEN Loads(x, status, body) ELSE x)

\* Mutant: the backend listens to `load` only.
NetworkErrorUnheard(s) ==
  /\ InFlight(exchange[s])
  /\ Becomes(s, [exchange[s] EXCEPT !.xhr = "failed", !.answer.by = "network"])

NetworkError(s) ==
  /\ InFlight(exchange[s])
  /\ LET x == [exchange[s] EXCEPT !.xhr = "failed", !.answer.by = "network"]
     IN  Becomes(s, IF x.listening THEN EmitError(x) ELSE x)

-----------------------------------------------------------------------------
(* HttpClientTestingBackend and its TestRequests, and the test that uses them. *)

Queue(s) ==
  /\ setup.backend = "testing" /\ exchange[s].state = "idle"
  /\ Becomes(s, EmitNext([Opened(s) EXCEPT !.test = "open"], Event("Sent")))

\* match(), expectOne() and expectNone() take every open request that matches, as the
\* requests of one observable all do; the latter two drop them when their number is not
\* the one expected.
Match ==
  LET open == {s \in Subscriptions : exchange[s].test = "open"}
  IN  /\ open # {}
      /\ \E taken \in {"taken", "lost"} :
           exchange' = [s \in Subscriptions |->
             IF s \in open THEN [exchange[s] EXCEPT !.test = taken] ELSE exchange[s]]
      /\ UNCHANGED <<call, setup>>

\* _maybeConvertBody(): the body as one of the type asked for, if there is a way.
ConvertBody(body) ==
  CASE body \in {"null", request.type} -> {body}
    [] request.type = "blob" /\ body = "arraybuffer" -> {"blob"}
    [] request.type = "json" /\ body = "text" -> {"json"}
    [] request.type = "text" /\ body = "json" -> {"text"}
    [] OTHER -> {}

\* flush() of a request that has not ended; the status is 200, or 204 without a body,
\* unless the test gives one.
Flush(s) ==
  /\ exchange[s].test = "taken" /\ ~exchange[s].cancelled
  /\ \E given \in BodyTypes \union {"null"} : \E body \in ConvertBody(given) :
       \E status \in {200, 404} :
         LET x == Answered(exchange[s], "test", status, body)
         IN  Becomes(s, IF status \in 200..299 THEN EmitComplete(EmitNext(x, Response(body)))
                        ELSE EmitError(x))

TestError(s) ==
  /\ exchange[s].test = "taken" /\ ~exchange[s].cancelled
  /\ Becomes(s, EmitError([exchange[s] EXCEPT !.answer.by = "network"]))

\* event(): whatever the test likes.
TestEvent(s) ==
  /\ exchange[s].test = "taken" /\ ~exchange[s].cancelled
  /\ exchange[s].received < MaxProgress
  /\ \E event \in {Event("DownloadProgress")} \union {Response(body) : body \in BodyTypes} :
       Becomes(s, EmitNext([exchange[s] EXCEPT !.received = @ + 1], event))

-----------------------------------------------------------------------------
(* The subscriber. *)

Unsubscribe(s) ==
  /\ exchange[s].state = "open"
  /\ Becomes(s, Ends(exchange[s], "unsubscribed"))

Next ==
  \/ \E s \in Subscriptions :
       \/ Send(s) \/ InterceptorAnswers(s) \/ HandlerThrows(s)
       \/ UploadProgress(s) \/ DownloadProgress(s) \/ Load(s) \/ NetworkError(s)
       \/ Queue(s) \/ Flush(s) \/ TestError(s) \/ TestEvent(s)
       \/ Unsubscribe(s)
  \/ Match

\* The network answers or fails in the end.
Fairness == \A s \in Subscriptions : WF_vars(Load(s) \/ NetworkError(s))

Spec == Init /\ [][Next]_vars /\ Fairness

-----------------------------------------------------------------------------

Finished == {"completed", "errored", "unsubscribed"}

\* However an exchange ends for its subscriber, nothing of it is left: no request in
\* flight, no listener, no TestRequest that could still be answered, and no macrotask
\* that would keep the zone from being stable - except that a handler which throws on
\* the server leaves its macrotask behind (the teardowns of HttpXhrBackend.handle(),
\* HttpClientTestingBackend.handle() and ZoneMacroTaskWrapper.wrap()).
NothingIsLeft ==
  \A s \in Subscriptions : LET x == exchange[s] IN
    /\ x.state \in Finished => ~InFlight(x) /\ ~x.listening
    /\ x.state \in Finished => x.cancelled = (x.test # "none")
    /\ x.state \in Finished /\ x.task = "scheduled" => OnServer /\ x.threw
    /\ x.state = "open" =>
         (x.task = "scheduled" <=> OnServer) /\ (x.listening <=> x.test = "none")

\* The other side answered well: with a status of success, or a file without one, and
\* a body that is what the caller asked for.
AnsweredWell(answer) ==
  CASE answer.by = "interceptor" -> TRUE
    [] answer.by = "test" -> answer.status = 200
    [] answer.by = "server" ->
         \/ answer.status \in {204, 1223}
         \/ answer.status = 200 /\ ~(answer.body = "garbage" /\ request.type = "json")
         \/ /\ answer.status = 0 /\ HasBody(answer.body)
            /\ ~(answer.body = "garbage" /\ request.type = "json")
    [] OTHER -> FALSE

\* The order of the events: sent, uploading, headers once, downloading, response.
Rank == [Sent |-> 1, UploadProgress |-> 2, ResponseHeader |-> 3,
         DownloadProgress |-> 4, Response |-> 5, Body |-> 5]
Once == {"Sent", "ResponseHeader", "Response", "Body"}

InOrder(got) ==
  \A i, j \in 1..Len(got) : i < j =>
    Rank[got[i].kind] <= Rank[got[j].kind] /\ (got[i].kind = got[j].kind => got[i].kind \notin Once)

\* The events of an exchange come in their order, and the server shows the last of them
\* only.  It completes only with an answer, which the subscriber has then seen last; and an
\* answer that is good is made an error only where its body is not of the type asked for
\* (onLoad(), onDownProgress(), through every layer above them).
AnswersEndInOrder ==
  \A s \in Subscriptions : LET x == exchange[s] IN
    /\ setup.backend = "xhr" =>
         /\ InOrder(x.got)
         /\ ~OnServer => \A i \in 1..Len(x.got) : x.got[i].kind = "DownloadProgress" =>
              \E j \in 1..i : x.got[j].kind = "ResponseHeader"
    /\ OnServer => Len(x.got) <= 1
    /\ x.state = "completed" =>
         AnsweredWell(x.answer) /\ x.got # <<>> /\ x.got[Len(x.got)].kind \in {"Response", "Body"}
    /\ x.state = "errored" /\ AnsweredWell(x.answer) =>
         x.answer.by = "interceptor" /\ ~BodyFits(x.answer.body)

\* What the subscriber gets is what the signature it called declares, in kind and in the
\* type of the body, whoever answers: the network, a test by flush(), or an interceptor
\* or a test by event(), whose bodies are looked at only when the body is asked for
\* (request() behind the signatures of every method, onLoad() and _maybeConvertBody()).
DeclaredIsDelivered ==
  \A s \in Subscriptions : \A i \in 1..Len(exchange[s].got) :
    LET event == exchange[s].got[i]
        ofItsOwn == exchange[s].answer.by = "interceptor"
                      \/ (setup.backend = "testing" /\ exchange[s].received > 0)
    IN  /\ event.kind \in DeclaredKinds(call)
        /\ event.kind = "Body" /\ ~DeclaresJson(call) => event.body \in DeclaredBodies(call)
        /\ event.kind = "Response" /\ ~ofItsOwn => event.body \in DeclaredBodies(call)

\* Every subscription ends, as long as the network settles.
ExchangeEnds ==
  \A s \in Subscriptions :
    setup.backend = "xhr" /\ exchange[s].state = "open" ~> exchange[s].state \in Finished

=============================================================================
