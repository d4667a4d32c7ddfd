------------------------- MODULE HttpExchangeProofs -------------------------
(***************************************************************************)
(* Theorems about the client of @alterior/http: HttpExchange, for any      *)
(* number of subscriptions and of progress events, and, after it,          *)
(* HttpCollections, for any names, values, updates and derived objects.    *)
(* The two share nothing but this module.                                  *)
(***************************************************************************)
EXTENDS HttpExchange, HttpCollections, SequenceTheorems, FiniteSetTheorems, WellFoundedInduction, TLAPS

(***************************************************************************)
(* Types                                                                   *)
(***************************************************************************)
Kinds == {"Sent", "UploadProgress", "ResponseHeader", "DownloadProgress", "Response", "Body"}
EventBodies == BodyTypes \union {"null", "none"}
Events == [kind : Kinds, body : EventBodies]

Exchanges ==
  [state : {"idle", "open"} \union Finished, got : Seq(Events),
   task : {"none", "scheduled", "ran", "cancelled"},
   saved : Events \union {[kind |-> "null", body |-> "none"]},
   xhr : {"none", "unsent", "sent", "receiving", "loaded", "failed", "aborted"},
   listening : BOOLEAN, sentHeaders : BOOLEAN,
   test : {"none", "open", "taken", "lost"}, cancelled : BOOLEAN,
   sent : Nat, received : Nat,
   answer : [by : {"nobody", "interceptor", "server", "network", "test"},
             status : Statuses, body : EventBodies \union Received],
   threw : BOOLEAN]

Requests == [method : Methods, observe : Observing, type : BodyTypes,
             progress : BOOLEAN, body : Bodies]
Setups == [platform : {"browser", "server"}, backend : {"xhr", "testing"}]

\* A call is one of the signatures; what it leaves out, the request has.
LEMMA CallsAreSignatures ==
  ASSUME NEW c \in Calls
  PROVE  c \in Signatures(Methods, BodyTypes \union {"unset"}, Bodies)
<1>. DEFINE All == Signatures(Methods, BodyTypes \union {"unset"}, Bodies)
<1>1. \A m \in Methods : Typed(m) \subseteq All /\ Json(m) \subseteq All
  <2>. TAKE m \in Methods
  <2>1. /\ BodyTypes \ {"json"} \subseteq BodyTypes \union {"unset"}
        /\ {"json", "unset"} \subseteq BodyTypes \union {"unset"}
        /\ {"none"} \subseteq Bodies /\ {m} \subseteq Methods
    BY DEF BodyTypes, Bodies
  <2>. QED
    BY <2>1 DEF Typed, Json, TypedSignatures, JsonSignatures, Signatures
<1>2. \A m \in Methods : TypedWithBody(m) \subseteq All
  <2>. TAKE m \in Methods
  <2>. SUFFICES ASSUME NEW r \in Typed(m), NEW body \in Bodies
                PROVE  AddBody(r, body) \in All
    BY DEF TypedWithBody
  <2>. QED
    BY <1>1 DEF AddBody, Signatures
<1>3. \A m \in Methods : JsonWithBody(m) \subseteq All
  <2>. TAKE m \in Methods
  <2>. SUFFICES ASSUME NEW r \in Json(m), NEW body \in Bodies
                PROVE  AddBody(r, body) \in All
    BY DEF JsonWithBody
  <2>. QED
    BY <1>1 DEF AddBody, Signatures
<1>4. JsonpJson \subseteq All
  BY <1>1 DEF JsonpJson, Methods
<1>5. RequestTyped \subseteq All /\ RequestJson \subseteq All /\ RequestObject \subseteq All
  BY DEF RequestTyped, RequestJson, RequestObject, TypedSignatures, JsonSignatures, Signatures,
         BodyTypes
<1>. HIDE DEF All
<1>. {"DELETE", "GET", "HEAD", "OPTIONS", "PATCH", "POST", "PUT"} \subseteq Methods
  BY DEF Methods
<1>6. /\ DeleteTyped \subseteq All /\ DeleteJson \subseteq All /\ GetTyped \subseteq All
      /\ GetJson \subseteq All /\ HeadTyped \subseteq All /\ HeadJson \subseteq All
      /\ OptionsTyped \subseteq All /\ OptionsJson \subseteq All
  BY <1>1 DEF DeleteTyped, DeleteJson, GetTyped, GetJson, HeadTyped, HeadJson, OptionsTyped, OptionsJson
<1>7. /\ PatchTyped \subseteq All /\ PatchJson \subseteq All /\ PostTyped \subseteq All
      /\ PostJson \subseteq All /\ PutTyped \subseteq All /\ PutJson \subseteq All
  BY <1>2, <1>3 DEF PatchTyped, PatchJson, PostTyped, PostJson, PutTyped, PutJson
<1>. QED
  BY <1>4, <1>5, <1>6, <1>7 DEF Calls, All

LEMMA RequestIs ==
  ASSUME call \in Calls
  PROVE  /\ request \in Requests
         /\ request.observe = (IF call.observe = "unset" THEN "body" ELSE call.observe)
         /\ request.type = (IF call.type = "unset" THEN "json" ELSE call.type)
         /\ DeclaresJson(call) <=> request.type = "json"
<1>. DEFINE c == call
<1>1. c \in Signatures(Methods, BodyTypes \union {"unset"}, Bodies) /\ request = RequestOf(c)
  BY CallsAreSignatures DEF request
<1>. HIDE DEF c
<1>2. request \in Requests
  BY <1>1 DEF Signatures, RequestOf, Requests, Observing, BodyTypes
<1>3. /\ request.observe = (IF c.observe = "unset" THEN "body" ELSE c.observe)
      /\ request.type = (IF c.type = "unset" THEN "json" ELSE c.type)
  BY <1>1 DEF Signatures, RequestOf
<1>. QED
  BY <1>1, <1>2, <1>3 DEF c, DeclaresJson

-----------------------------------------------------------------------------
(***************************************************************************)
(* The invariant of one exchange                                           *)
(***************************************************************************)

\* The layers below the subscriber are there while it is open, and gone after.
LayersFollow(x) ==
  /\ x.state = "idle" => x = NewExchange
  /\ x.state = "open" =>
       /\ x.task = "scheduled" <=> OnServer
       /\ InFlight(x) <=> setup.backend = "xhr"
       /\ x.listening <=> setup.backend = "xhr"
       /\ x.test # "none" <=> setup.backend = "testing"
       /\ x.answer = NoAnswer
  /\ x.state \in Finished =>
       /\ ~InFlight(x) /\ ~x.listening
       /\ x.cancelled = (x.test # "none")
       /\ x.task = "scheduled" => OnServer /\ x.threw
  /\ x.xhr = "sent" => ~x.sentHeaders

\* In a browser the events of an XMLHttpRequest come in their order; while it is open,
\* what can still come belongs behind them.
Before(got, rank) == \A i \in 1..Len(got) : Rank[got[i].kind] <= rank
Headed(got) == \A i \in 1..Len(got) : got[i].kind = "DownloadProgress" =>
                 \E j \in 1..i : got[j].kind = "ResponseHeader"
Heading(got) == \E j \in 1..Len(got) : got[j].kind = "ResponseHeader"

EventsInOrder(x) ==
  setup.backend = "xhr" /\ ~OnServer =>
    /\ InOrder(x.got) /\ Headed(x.got)
    /\ x.state = "open" =>
         /\ Before(x.got, IF x.sentHeaders THEN 4 ELSE 2)
         /\ request.observe = "events" /\ x.sentHeaders => Heading(x.got)

EndIsShown(x) ==
  /\ OnServer => Len(x.got) <= 1 /\ (x.state = "open" => x.got = <<>>)
  /\ x.state = "completed" =>
       AnsweredWell(x.answer) /\ x.got # <<>> /\ x.got[Len(x.got)].kind \in {"Response", "Body"}
  /\ x.state = "errored" /\ AnsweredWell(x.answer) =>
       x.answer.by = "interceptor" /\ ~BodyFits(x.answer.body)

OfItsOwn(x) == x.answer.by = "interceptor" \/ (setup.backend = "testing" /\ x.received > 0)

EventDeclared(x, event) ==
  /\ event.kind \in DeclaredKinds(call)
  /\ event.kind = "Body" => BodyFits(event.body)
  /\ event.kind = "Response" /\ ~OfItsOwn(x) => event.body \in {request.type, "null"}

Sound(x) ==
  /\ x \in Exchanges
  /\ LayersFollow(x)
  /\ EventsInOrder(x)
  /\ EndIsShown(x)
  /\ \A i \in 1..Len(x.got) : EventDeclared(x, x.got[i])

ExchangeInv ==
  /\ call \in Calls
  /\ setup \in Setups
  /\ exchange \in [Subscriptions -> Exchanges]
  /\ \A s \in Subscriptions : Sound(exchange[s])

-----------------------------------------------------------------------------
(***************************************************************************)
(* What the layers make of an exchange                                     *)
(***************************************************************************)

\* An exchange that was torn down keeps what is not part of a layer below.
Closed(x, y) ==
  /\ ~y.listening /\ ~InFlight(y) /\ y.cancelled = (x.test # "none") /\ y.task # "scheduled"
  /\ y.test = x.test /\ y.received = x.received /\ y.answer = x.answer /\ y.threw = x.threw
  /\ y.sentHeaders = x.sentHeaders

Same(x, y) ==
  /\ y.listening = x.listening /\ y.xhr = x.xhr /\ y.cancelled = x.cancelled /\ y.task = x.task
  /\ y.test = x.test /\ y.received = x.received /\ y.answer = x.answer /\ y.threw = x.threw
  /\ y.sentHeaders = x.sentHeaders

LEMMA ReleaseIs ==
  ASSUME NEW x \in Exchanges
  PROVE  /\ Release(x) \in Exchanges
         /\ ~Release(x).listening /\ ~InFlight(Release(x))
         /\ Release(x).cancelled = (x.test # "none")
         /\ Release(x).test = x.test /\ Release(x).task = x.task /\ Release(x).threw = x.threw
         /\ Release(x).state = x.state /\ Release(x).got = x.got
         /\ Release(x).received = x.received /\ Release(x).answer = x.answer
         /\ Release(x).sentHeaders = x.sentHeaders
<1>1. /\ ~Release(x).listening
      /\ Release(x).cancelled = (x.test # "none")
      /\ Release(x).xhr = IF InFlight(x) THEN "aborted" ELSE x.xhr
  BY DEF Exchanges, Release
<1>2. /\ Release(x).state = x.state /\ Release(x).got = x.got
      /\ Release(x).received = x.received /\ Release(x).answer = x.answer
      /\ Release(x).threw = x.threw /\ Release(x).sentHeaders = x.sentHeaders
      /\ Release(x).test = x.test /\ Release(x).task = x.task
  BY DEF Exchanges, Release
<1>3. Release(x) \in Exchanges
  BY DEF Exchanges, Release, InFlight
<1>4. ~InFlight(Release(x))
  BY <1>1 DEF InFlight
<1>. QED
  BY <1>1, <1>2, <1>3, <1>4

LEMMA EndsIs ==
  ASSUME NEW x \in Exchanges, NEW how \in Finished
  PROVE  /\ Ends(x, how) \in Exchanges /\ Closed(x, Ends(x, how))
         /\ Ends(x, how).state = how /\ Ends(x, how).got = x.got
<1>. DEFINE r == Release(x)
<1>1. r \in Exchanges
  BY ReleaseIs
<1>2. Ends(x, how) = [[r EXCEPT !.task = IF @ = "scheduled" THEN "cancelled" ELSE @]
                        EXCEPT !.state = how]
  BY DEF Ends, Cancel
<1>. HIDE DEF r
<1>3. Ends(x, how) \in Exchanges
  BY <1>1, <1>2 DEF Exchanges, Finished
<1>4. /\ Ends(x, how).state = how /\ Ends(x, how).got = r.got
      /\ Ends(x, how).task = IF r.task = "scheduled" THEN "cancelled" ELSE r.task
      /\ Ends(x, how).listening = r.listening /\ Ends(x, how).xhr = r.xhr
      /\ Ends(x, how).cancelled = r.cancelled /\ Ends(x, how).test = r.test
  BY <1>1, <1>2 DEF Exchanges
<1>5. /\ Ends(x, how).received = r.received /\ Ends(x, how).answer = r.answer
      /\ Ends(x, how).threw = r.threw /\ Ends(x, how).sentHeaders = r.sentHeaders
  BY <1>1, <1>2 DEF Exchanges
<1>. QED
  BY <1>3, <1>4, <1>5, ReleaseIs DEF Closed, InFlight, r

\* A step that only shows the subscriber one event more, or none.
LEMMA EmitNextIs ==
  ASSUME call \in Calls, NEW x \in Exchanges, x.state = "open",
         NEW event \in Events, event.kind # "Response"
  PROVE  /\ EmitNext(x, event) \in Exchanges /\ Same(x, EmitNext(x, event))
         /\ EmitNext(x, event).state = "open"
         /\ EmitNext(x, event).got = IF ~OnServer /\ request.observe = "events"
                                     THEN Append(x.got, event) ELSE x.got
<1>. DEFINE y == EmitNext(x, event)
<1>0. x.got \in Seq(Events)
  BY DEF Exchanges
<1>1. CASE OnServer
  <2>1. y = [x EXCEPT !.saved = event]
    BY <1>1 DEF EmitNext
  <2>. HIDE DEF y
  <2>2. y \in Exchanges
    BY <2>1 DEF Exchanges
  <2>3. Same(x, y) /\ y.state = "open" /\ y.got = x.got
    BY <2>1 DEF Exchanges, Same
  <2>. QED
    BY <1>1, <2>2, <2>3 DEF y
<1>2. CASE ~OnServer /\ request.observe = "events"
  <2>1. y = [x EXCEPT !.got = Append(@, event)]
    BY <1>2 DEF EmitNext, Deliver
  <2>. HIDE DEF y
  <2>2. Append(x.got, event) \in Seq(Events)
    BY <1>0, AppendProperties
  <2>3. y \in Exchanges
    BY <2>1, <2>2 DEF Exchanges
  <2>4. Same(x, y) /\ y.state = "open" /\ y.got = Append(x.got, event)
    BY <2>1 DEF Exchanges, Same
  <2>. QED
    BY <1>2, <2>3, <2>4 DEF y
<1>3. CASE ~OnServer /\ request.observe # "events"
  <2>1. y = x
    BY <1>3 DEF EmitNext, Deliver
  <2>. QED
    BY <1>3, <2>1 DEF Same
<1>. QED
  BY <1>1, <1>2, <1>3

\* What the subscriber sees of an answer.
ShownAs(body) == [kind |-> IF request.observe = "body" THEN "Body" ELSE "Response", body |-> body]
Shows(body) == request.observe = "body" => BodyFits(body)

LEMMA ShownIsAnEvent ==
  ASSUME NEW body \in EventBodies
  PROVE  /\ ShownAs(body) \in Events /\ Response(body) \in Events
         /\ ShownAs(body).body = body /\ Response(body).kind = "Response"
         /\ ShownAs(body).kind \in {"Body", "Response"}
         /\ ShownAs(body).kind = "Body" <=> request.observe = "body"
BY DEF ShownAs, Response, Events, Kinds

LEMMA DeliverResponseIs ==
  ASSUME call \in Calls, NEW x \in Exchanges, NEW body \in EventBodies
  PROVE  LET y == Deliver(x, Response(body))
         IN  /\ y \in Exchanges
             /\ Shows(body) => Same(x, y) /\ y.state = x.state /\ y.got = Append(x.got, ShownAs(body))
             /\ ~Shows(body) => y = Ends(x, "errored")
<1>. DEFINE y == Deliver(x, Response(body))
<1>0. x.got \in Seq(Events)
  BY DEF Exchanges
<1>1. request.observe \in {"body", "events", "response"}
  BY RequestIs DEF Requests, Observing
<1>2. CASE Shows(body)
  <2>1. y = [x EXCEPT !.got = Append(@, ShownAs(body))]
    <3>1. Response(body).kind = "Response" /\ Response(body).body = body
      BY DEF Response
    <3>2. CASE request.observe = "body"
      <4>1. [Response(body) EXCEPT !.kind = "Body"] = ShownAs(body)
        BY <3>2 DEF Response, ShownAs
      <4>. QED
        BY <1>2, <3>1, <3>2, <4>1 DEF Deliver, Shows
    <3>3. CASE request.observe # "body"
      <4>1. Response(body) = ShownAs(body)
        BY <3>3 DEF Response, ShownAs
      <4>. QED
        BY <1>1, <3>1, <3>3, <4>1 DEF Deliver
    <3>. QED
      BY <3>2, <3>3
  <2>. HIDE DEF y
  <2>2. Append(x.got, ShownAs(body)) \in Seq(Events)
    BY <1>0, ShownIsAnEvent, AppendProperties
  <2>3. y \in Exchanges
    BY <2>1, <2>2 DEF Exchanges
  <2>4. Same(x, y) /\ y.state = x.state /\ y.got = Append(x.got, ShownAs(body))
    BY <2>1 DEF Exchanges, Same
  <2>. QED
    BY <1>2, <2>3, <2>4 DEF y
<1>3. CASE ~Shows(body)
  <2>1. y = Ends(x, "errored")
    BY <1>3 DEF Shows, Deliver, Response
  <2>. QED
    BY <1>3, <2>1, EndsIs DEF Finished
<1>. QED
  BY <1>2, <1>3

LEMMA RunTaskIs ==
  ASSUME NEW x \in Exchanges
  PROVE  /\ RunTask(x) \in Exchanges
         /\ RunTask(x).state = x.state /\ RunTask(x).got = x.got /\ RunTask(x).saved = x.saved
         /\ RunTask(x).test = x.test /\ RunTask(x).threw = x.threw
         /\ RunTask(x).received = x.received /\ RunTask(x).answer = x.answer
         /\ RunTask(x).sentHeaders = x.sentHeaders
<1>1. RunTask(x) \in Exchanges
  BY DEF Exchanges, RunTask
<1>2. /\ RunTask(x).state = x.state /\ RunTask(x).got = x.got /\ RunTask(x).saved = x.saved
      /\ RunTask(x).test = x.test /\ RunTask(x).threw = x.threw
      /\ RunTask(x).received = x.received /\ RunTask(x).answer = x.answer
      /\ RunTask(x).sentHeaders = x.sentHeaders
  BY DEF Exchanges, RunTask
<1>. QED
  BY <1>1, <1>2

LEMMA EmitErrorIs ==
  ASSUME NEW x \in Exchanges
  PROVE  /\ EmitError(x) \in Exchanges /\ Closed(x, EmitError(x))
         /\ EmitError(x).state = "errored" /\ EmitError(x).got = x.got
BY RunTaskIs, EndsIs DEF EmitError, Closed, Finished

\* An answer ends the exchange, on the server by way of what was saved.
LEMMA AnswerIs ==
  ASSUME call \in Calls, NEW x \in Exchanges, x.state = "open", NEW body \in EventBodies
  PROVE  LET y == EmitComplete(EmitNext(x, Response(body)))
         IN  /\ y \in Exchanges /\ Closed(x, y)
             /\ Shows(body) => y.state = "completed" /\ y.got = Append(x.got, ShownAs(body))
             /\ ~Shows(body) => y.state = "errored" /\ y.got = x.got
<1>. DEFINE next == EmitNext(x, Response(body))
            open == IF OnServer THEN RunTask(next) ELSE x
            last == Deliver(open, Response(body))
            y == EmitComplete(next)
<1>1. /\ open \in Exchanges /\ open.state = "open" /\ open.got = x.got
      /\ open.test = x.test /\ open.threw = x.threw /\ open.received = x.received
      /\ open.answer = x.answer /\ open.sentHeaders = x.sentHeaders
      /\ y = IF last.state = "open" THEN Ends(last, "completed") ELSE last
  <2>1. CASE OnServer
    <3>1. next = [x EXCEPT !.saved = Response(body)]
      BY <2>1 DEF EmitNext
    <3>. HIDE DEF next
    <3>2. next \in Exchanges
      BY <3>1, ShownIsAnEvent DEF Exchanges
    <3>3. Same(x, next) /\ next.state = "open" /\ next.got = x.got /\ next.saved = Response(body)
      BY <3>1 DEF Exchanges, Same
    <3>4. y = IF last.state = "open" THEN Ends(last, "completed") ELSE last
      BY <2>1, <3>3 DEF EmitComplete
    <3>. QED
      BY <2>1, <3>2, <3>3, <3>4, RunTaskIs DEF Same
  <2>2. CASE ~OnServer
    BY <2>2 DEF EmitComplete, EmitNext
  <2>. QED
    BY <2>1, <2>2
<1>. HIDE DEF open
<1>2. /\ last \in Exchanges
      /\ Shows(body) => Same(open, last) /\ last.state = "open" /\ last.got = Append(x.got, ShownAs(body))
      /\ ~Shows(body) => last = Ends(open, "errored")
  BY <1>1, DeliverResponseIs
<1>. HIDE DEF last, y
<1>3. CASE Shows(body)
  <2>1. y = Ends(last, "completed")
    BY <1>1, <1>2, <1>3
  <2>2. y \in Exchanges /\ Closed(last, y) /\ y.state = "completed" /\ y.got = last.got
    BY <1>2, <2>1, EndsIs DEF Finished
  <2>. QED
    BY <1>1, <1>2, <1>3, <2>2 DEF Closed, Same, y, next
<1>4. CASE ~Shows(body)
  <2>1. /\ last \in Exchanges /\ Closed(open, last) /\ last.state = "errored" /\ last.got = x.got
    BY <1>1, <1>2, <1>4, EndsIs DEF Finished
  <2>2. y = last
    BY <1>1, <2>1
  <2>. QED
    BY <1>1, <1>4, <2>1, <2>2 DEF Closed, y, next
<1>. QED
  BY <1>3, <1>4

-----------------------------------------------------------------------------
(***************************************************************************)
(* The order of events                                                     *)
(***************************************************************************)

LEMMA RankIs ==
  /\ \A k \in Kinds : Rank[k] \in 1..5
  /\ Rank["Sent"] = 1 /\ Rank["UploadProgress"] = 2 /\ Rank["ResponseHeader"] = 3
  /\ Rank["DownloadProgress"] = 4 /\ Rank["Response"] = 5 /\ Rank["Body"] = 5
BY DEF Rank, Kinds

LEMMA KindsOf ==
  ASSUME NEW got \in Seq(Events), NEW i \in 1..Len(got)
  PROVE  got[i] \in Events /\ got[i].kind \in Kinds /\ Rank[got[i].kind] \in Nat
<1>1. got[i] \in Events
  OBVIOUS
<1>2. got[i].kind \in Kinds
  BY <1>1 DEF Events
<1>. QED
  BY <1>1, <1>2, RankIs

\* An event behind which nothing comes that belongs before it, and of which there is
\* not one already unless there may be.
LEMMA AppendKeepsOrder ==
  ASSUME NEW got \in Seq(Events), InOrder(got), Headed(got), NEW e \in Events,
         Before(got, Rank[e.kind]),
         e.kind \in Once => Before(got, Rank[e.kind] - 1),
         e.kind = "DownloadProgress" => Heading(got)
  PROVE  LET longer == Append(got, e)
         IN  /\ InOrder(longer) /\ Headed(longer)
             /\ \A r \in Nat : Before(got, r) /\ Rank[e.kind] <= r => Before(longer, r)
             /\ Heading(got) \/ e.kind = "ResponseHeader" => Heading(longer)
<1>. DEFINE longer == Append(got, e)
            n == Len(got)
<1>1. /\ longer \in Seq(Events) /\ Len(longer) = n + 1 /\ n \in Nat
      /\ \A i \in 1..n : longer[i] = got[i]
      /\ longer[n + 1] = e
  BY AppendProperties, LenProperties
<1>2. \A i \in 1..n : got[i].kind \in Kinds /\ Rank[got[i].kind] \in Nat
  BY KindsOf
<1>3. e.kind \in Kinds /\ Rank[e.kind] \in Nat
  BY RankIs DEF Events
<1>. HIDE DEF longer, n
<1>4. InOrder(longer)
  <2>. SUFFICES ASSUME NEW i \in 1..(n + 1), NEW j \in 1..(n + 1), i < j
                PROVE  /\ Rank[longer[i].kind] <= Rank[longer[j].kind]
                       /\ longer[i].kind = longer[j].kind => longer[i].kind \notin Once
    BY <1>1 DEF InOrder
  <2>1. i \in 1..n
    BY <1>1
  <2>2. CASE j = n + 1
    <3>1. longer[i] = got[i] /\ longer[j] = e /\ Rank[got[i].kind] <= Rank[e.kind]
      BY <1>1, <2>1, <2>2 DEF Before, n
    <3>2. ASSUME got[i].kind = e.kind, e.kind \in Once PROVE FALSE
      <4>1. Rank[got[i].kind] <= Rank[e.kind] - 1
        BY <2>1, <3>2 DEF Before, n
      <4>. QED
        BY <1>3, <3>2, <4>1
    <3>. QED
      BY <3>1, <3>2
  <2>3. CASE j # n + 1
    <3>1. j \in 1..n
      BY <1>1, <2>3
    <3>. QED
      BY <1>1, <2>1, <3>1 DEF InOrder, n
  <2>. QED
    BY <2>2, <2>3
<1>5. Heading(got) \/ e.kind = "ResponseHeader" => Heading(longer)
  <2>1. ASSUME Heading(got) PROVE Heading(longer)
    <3>1. PICK j \in 1..n : got[j].kind = "ResponseHeader"
      BY <2>1 DEF Heading, n
    <3>2. j \in 1..(n + 1)
      BY <1>1
    <3>. QED
      BY <1>1, <3>1, <3>2 DEF Heading
  <2>2. ASSUME e.kind = "ResponseHeader" PROVE Heading(longer)
    <3>1. n + 1 \in 1..(n + 1)
      BY <1>1
    <3>. QED
      BY <1>1, <2>2, <3>1 DEF Heading
  <2>. QED
    BY <2>1, <2>2
<1>6. Headed(longer)
  <2>. SUFFICES ASSUME NEW i \in 1..(n + 1), longer[i].kind = "DownloadProgress"
                PROVE  \E j \in 1..i : longer[j].kind = "ResponseHeader"
    BY <1>1 DEF Headed
  <2>1. CASE i = n + 1
    <3>1. PICK j \in 1..n : got[j].kind = "ResponseHeader"
      BY <1>1, <2>1 DEF Heading, n
    <3>2. j \in 1..i /\ longer[j] = got[j]
      BY <1>1, <2>1, <3>1
    <3>. QED
      BY <3>1, <3>2
  <2>2. CASE i # n + 1
    <3>1. i \in 1..n
      BY <1>1, <2>2
    <3>2. PICK j \in 1..i : got[j].kind = "ResponseHeader"
      BY <1>1, <3>1 DEF Headed, n
    <3>3. longer[j] = got[j]
      BY <1>1, <3>1
    <3>. QED
      BY <3>2, <3>3
  <2>. QED
    BY <2>1, <2>2
<1>7. ASSUME NEW r \in Nat, Before(got, r), Rank[e.kind] <= r PROVE Before(longer, r)
  <2>. SUFFICES ASSUME NEW i \in 1..(n + 1) PROVE Rank[longer[i].kind] <= r
    BY <1>1 DEF Before
  <2>1. CASE i = n + 1
    BY <1>1, <1>7, <2>1
  <2>2. CASE i # n + 1
    <3>1. i \in 1..n
      BY <1>1, <2>2
    <3>. QED
      BY <1>1, <1>7, <3>1 DEF Before, n
  <2>. QED
    BY <2>1, <2>2
<1>. QED
  BY <1>4, <1>5, <1>6, <1>7 DEF longer

\* Nothing is out of order in what is empty.
LEMMA NothingIsInOrder ==
  /\ InOrder(<<>>) /\ Headed(<<>>) /\ \A r \in Nat : Before(<<>>, r)
  /\ Len(<<>>) = 0
BY DEF InOrder, Headed, Before

LEMMA BeforeMore ==
  ASSUME NEW got \in Seq(Events), NEW r \in Nat, Before(got, r), NEW m \in Nat, r <= m
  PROVE  Before(got, m)
<1>. SUFFICES ASSUME NEW i \in 1..Len(got) PROVE Rank[got[i].kind] <= m
  BY DEF Before
<1>1. Rank[got[i].kind] \in Nat /\ Rank[got[i].kind] <= r
  BY KindsOf DEF Before
<1>. QED
  BY <1>1

\* How the exchange is observed, as the call has it.
LEMMA CallObserves ==
  ASSUME call \in Calls
  PROVE  /\ request.observe = "body" <=> call.observe \in {"body", "unset"}
         /\ request.observe = "response" <=> call.observe = "response"
         /\ request.observe = "events" <=> call.observe = "events"
         /\ call.observe \in {"body", "unset", "response", "events"}
<1>1. call.observe \in Observing \union {"unset"}
  BY CallsAreSignatures DEF Signatures
<1>. QED
  BY <1>1, RequestIs DEF Observing

-----------------------------------------------------------------------------
(***************************************************************************)
(* An open exchange, and how it ends                                       *)
(***************************************************************************)

\* What the events of an open exchange say, whatever its layers are about to do.
SoFar(x) ==
  /\ x \in Exchanges /\ x.state = "open"
  /\ EventsInOrder(x)
  /\ OnServer => x.got = <<>>
  /\ \A i \in 1..Len(x.got) : EventDeclared(x, x.got[i])

LEMMA OpenIsSoFar ==
  ASSUME NEW x, Sound(x), x.state = "open"
  PROVE  SoFar(x)
BY DEF Sound, SoFar, EndIsShown

LEMMA SoFarStays ==
  ASSUME NEW x, SoFar(x), NEW y \in Exchanges, y.state = "open", y.got = x.got,
         y.sentHeaders = x.sentHeaders, OfItsOwn(x) => OfItsOwn(y)
  PROVE  SoFar(y)
BY DEF SoFar, EventsInOrder, EventDeclared

\* An end without an answer, or with one that does not fit.
LEMMA EndWithoutAnswerIsSound ==
  ASSUME NEW x, SoFar(x), NEW y \in Exchanges, Closed(x, y), y.got = x.got,
         y.state \in {"errored", "unsubscribed"},
         y.state = "errored" /\ AnsweredWell(x.answer) =>
           x.answer.by = "interceptor" /\ ~BodyFits(x.answer.body)
  PROVE  Sound(y)
<1>1. LayersFollow(y)
  BY DEF Closed, LayersFollow, Finished, InFlight
<1>2. EventsInOrder(y)
  BY DEF SoFar, EventsInOrder
<1>3. EndIsShown(y)
  BY NothingIsInOrder DEF EndIsShown, Closed, SoFar
<1>4. \A i \in 1..Len(y.got) : EventDeclared(y, y.got[i])
  BY DEF SoFar, EventDeclared, OfItsOwn, Closed
<1>. QED
  BY <1>1, <1>2, <1>3, <1>4 DEF Sound

LEMMA ErrorIsSound ==
  ASSUME NEW x, SoFar(x), ~AnsweredWell(x.answer)
  PROVE  Sound(EmitError(x))
BY EmitErrorIs, EndWithoutAnswerIsSound DEF SoFar

LEMMA UnsubscribeIsSound ==
  ASSUME NEW x, SoFar(x)
  PROVE  Sound(Ends(x, "unsubscribed"))
BY EndsIs, EndWithoutAnswerIsSound DEF SoFar, Finished

\* A good answer is shown, or refused for the body an interceptor made.
LEMMA AnswerIsSound ==
  ASSUME call \in Calls, NEW x, SoFar(x), NEW body \in EventBodies, AnsweredWell(x.answer),
         BodyFits(body) \/ (x.answer.by = "interceptor" /\ x.answer.body = body),
         OfItsOwn(x) \/ body \in {request.type, "null"}
  PROVE  Sound(EmitComplete(EmitNext(x, Response(body))))
<1>. DEFINE y == EmitComplete(EmitNext(x, Response(body)))
<1>1. /\ x \in Exchanges /\ x.state = "open" /\ x.got \in Seq(Events)
  BY DEF SoFar, Exchanges
<1>2. /\ y \in Exchanges /\ Closed(x, y)
      /\ Shows(body) => y.state = "completed" /\ y.got = Append(x.got, ShownAs(body))
      /\ ~Shows(body) => y.state = "errored" /\ y.got = x.got
  BY <1>1, AnswerIs
<1>. HIDE DEF y
<1>3. CASE ~Shows(body)
  BY <1>2, <1>3, EndWithoutAnswerIsSound DEF Shows, y
<1>4. CASE Shows(body)
  <2>. DEFINE e == ShownAs(body)
              n == Len(x.got)
  <2>1. /\ y.state = "completed" /\ y.got = Append(x.got, e)
        /\ e \in Events /\ e.kind \in {"Body", "Response"} /\ e.body = body
        /\ e.kind = "Body" <=> request.observe = "body"
    BY <1>2, <1>4, ShownIsAnEvent
  <2>2. /\ n \in Nat /\ Len(y.got) = n + 1 /\ y.got # <<>>
        /\ \A i \in 1..n : y.got[i] = x.got[i]
        /\ y.got[n + 1] = e
    BY <1>1, <2>1, AppendProperties, LenProperties
  <2>. HIDE DEF e, n
  <2>3. LayersFollow(y)
    BY <1>2, <2>1 DEF Closed, LayersFollow, Finished, InFlight
  <2>4. EventsInOrder(y)
    <3>. SUFFICES ASSUME setup.backend = "xhr", ~OnServer
                  PROVE  InOrder(y.got) /\ Headed(y.got)
      BY <2>1 DEF EventsInOrder
    <3>1. InOrder(x.got) /\ Headed(x.got) /\ Before(x.got, IF x.sentHeaders THEN 4 ELSE 2)
      BY <1>1 DEF SoFar, EventsInOrder
    <3>2. Before(x.got, 4) /\ Before(x.got, 5)
      BY <1>1, <3>1, BeforeMore
    <3>3. Rank[e.kind] = 5 /\ e.kind # "DownloadProgress" /\ Rank[e.kind] - 1 = 4
      BY <2>1, RankIs
    <3>. QED
      BY <1>1, <2>1, <3>1, <3>2, <3>3, AppendKeepsOrder
  <2>5. EndIsShown(y)
    <3>1. OnServer => n = 0
      BY NothingIsInOrder DEF SoFar, n
    <3>. QED
      BY <1>2, <2>1, <2>2, <3>1 DEF EndIsShown, Closed
  <2>6. EventDeclared(y, e)
    <3>1. e.kind \in DeclaredKinds(call)
      BY <2>1, CallObserves DEF DeclaredKinds
    <3>2. e.kind = "Body" => BodyFits(e.body)
      BY <1>4, <2>1 DEF Shows
    <3>. QED
      BY <1>2, <2>1, <3>1, <3>2 DEF EventDeclared, OfItsOwn, Closed
  <2>7. \A i \in 1..Len(y.got) : EventDeclared(y, y.got[i])
    <3>. SUFFICES ASSUME NEW i \in 1..(n + 1) PROVE EventDeclared(y, y.got[i])
      BY <2>2
    <3>1. CASE i = n + 1
      BY <2>2, <2>6, <3>1
    <3>2. CASE i # n + 1
      <4>1. i \in 1..n
        BY <2>2, <3>2
      <4>2. EventDeclared(x, x.got[i])
        BY <4>1 DEF SoFar, n
      <4>. QED
        BY <1>2, <2>2, <4>1, <4>2 DEF EventDeclared, OfItsOwn, Closed
    <3>. QED
      BY <3>1, <3>2
  <2>. QED
    BY <1>2, <2>3, <2>4, <2>5, <2>7 DEF Sound, y
<1>. QED
  BY <1>3, <1>4

LEMMA OpenIsSound ==
  ASSUME NEW x, SoFar(x), LayersFollow(x)
  PROVE  Sound(x)
<1>1. EndIsShown(x)
  BY NothingIsInOrder DEF SoFar, EndIsShown
<1>. QED
  BY <1>1 DEF SoFar, Sound

\* A step that shows one event more, which on an XMLHttpRequest is in its order.
LEMMA EventIsSoFar ==
  ASSUME call \in Calls, NEW x, SoFar(x), NEW y \in Exchanges, y.state = "open",
         OfItsOwn(x) => OfItsOwn(y),
         NEW event \in Events, event.kind \notin {"Response", "Body"},
         y.got = (IF ~OnServer /\ request.observe = "events" THEN Append(x.got, event) ELSE x.got),
         x.sentHeaders => y.sentHeaders,
         setup.backend = "xhr" /\ ~OnServer /\ request.observe = "events" =>
           /\ Before(x.got, Rank[event.kind])
           /\ event.kind \in Once => Before(x.got, Rank[event.kind] - 1)
           /\ event.kind = "DownloadProgress" => Heading(x.got)
           /\ Rank[event.kind] <= (IF y.sentHeaders THEN 4 ELSE 2)
           /\ y.sentHeaders => Heading(x.got) \/ event.kind = "ResponseHeader"
  PROVE  SoFar(y)
<1>0. x.got \in Seq(Events) /\ x.state = "open" /\ event.kind \in Kinds
  BY DEF SoFar, Exchanges, Events
<1>1. CASE ~OnServer /\ request.observe = "events"
  <2>. DEFINE n == Len(x.got)
  <2>1. /\ y.got = Append(x.got, event) /\ n \in Nat /\ Len(y.got) = n + 1
        /\ \A i \in 1..n : y.got[i] = x.got[i]
        /\ y.got[n + 1] = event
    BY <1>0, <1>1, AppendProperties, LenProperties
  <2>. HIDE DEF n
  <2>2. EventsInOrder(y)
    <3>. SUFFICES ASSUME setup.backend = "xhr"
                  PROVE  /\ InOrder(y.got) /\ Headed(y.got)
                         /\ Before(y.got, IF y.sentHeaders THEN 4 ELSE 2)
                         /\ y.sentHeaders => Heading(y.got)
      BY <1>1 DEF EventsInOrder
    <3>. DEFINE most == IF y.sentHeaders THEN 4 ELSE 2
    <3>1. InOrder(x.got) /\ Headed(x.got) /\ Before(x.got, IF x.sentHeaders THEN 4 ELSE 2)
      BY <1>0, <1>1 DEF SoFar, EventsInOrder
    <3>2. Before(x.got, most)
      BY <1>0, <3>1, BeforeMore
    <3>3. most \in Nat /\ Rank[event.kind] <= most
      BY <1>1
    <3>. HIDE DEF most
    <3>4. /\ InOrder(y.got) /\ Headed(y.got) /\ Before(y.got, most)
          /\ Heading(x.got) \/ event.kind = "ResponseHeader" => Heading(y.got)
      BY <1>0, <1>1, <2>1, <3>1, <3>2, <3>3, AppendKeepsOrder
    <3>. QED
      BY <1>1, <3>4 DEF most
  <2>3. EventDeclared(y, event)
    <3>1. event.kind \in DeclaredKinds(call)
      BY <1>0, <1>1, CallObserves DEF DeclaredKinds, Kinds
    <3>. QED
      BY <3>1 DEF EventDeclared
  <2>4. \A i \in 1..Len(y.got) : EventDeclared(y, y.got[i])
    <3>. SUFFICES ASSUME NEW i \in 1..(n + 1) PROVE EventDeclared(y, y.got[i])
      BY <2>1
    <3>1. CASE i = n + 1
      BY <2>1, <2>3, <3>1
    <3>2. CASE i # n + 1
      <4>1. i \in 1..n
        BY <2>1, <3>2
      <4>2. EventDeclared(x, x.got[i])
        BY <4>1 DEF SoFar, n
      <4>. QED
        BY <2>1, <4>1, <4>2 DEF EventDeclared
    <3>. QED
      BY <3>1, <3>2
  <2>. QED
    BY <1>1, <2>2, <2>4 DEF SoFar
<1>2. CASE ~(~OnServer /\ request.observe = "events")
  <2>1. y.got = x.got
    BY <1>2
  <2>2. EventsInOrder(y)
    <3>. SUFFICES ASSUME setup.backend = "xhr", ~OnServer
                  PROVE  /\ InOrder(y.got) /\ Headed(y.got)
                         /\ Before(y.got, IF y.sentHeaders THEN 4 ELSE 2)
      BY <1>2 DEF EventsInOrder
    <3>1. InOrder(x.got) /\ Headed(x.got) /\ Before(x.got, IF x.sentHeaders THEN 4 ELSE 2)
      BY <1>0 DEF SoFar, EventsInOrder
    <3>. QED
      BY <1>0, <2>1, <3>1, BeforeMore
  <2>. QED
    BY <2>1, <2>2 DEF SoFar, EventDeclared
<1>. QED
  BY <1>1, <1>2

-----------------------------------------------------------------------------
(***************************************************************************)
(* The steps                                                               *)
(***************************************************************************)

\* The call and the setup are all that what is sound depends on.
LEMMA SoundIsOfTheCall ==
  ASSUME call' = call, setup' = setup
  PROVE  \A y : Sound(y)' <=> Sound(y)
<1>1. request' = request /\ (OnServer' <=> OnServer) /\ setup' = setup /\ call' = call
  BY DEF request, OnServer
<1>2. \A y : /\ LayersFollow(y)' <=> LayersFollow(y)
             /\ EventsInOrder(y)' <=> EventsInOrder(y)
  BY <1>1 DEF LayersFollow, EventsInOrder
<1>3. \A y : /\ AnsweredWell(y)' <=> AnsweredWell(y)
             /\ BodyFits(y)' <=> BodyFits(y)
  BY <1>1 DEF AnsweredWell, HasBody, BodyFits
<1>4. \A y : EndIsShown(y)' <=> EndIsShown(y)
  BY <1>1, <1>3 DEF EndIsShown
<1>5. \A y, event : EventDeclared(y, event)' <=> EventDeclared(y, event)
  BY <1>1, <1>3 DEF EventDeclared, OfItsOwn
<1>. QED
  BY <1>2, <1>4, <1>5 DEF Sound

\* What becomes of one exchange is nothing to the others.
LEMMA OneBecomes ==
  ASSUME ExchangeInv, NEW s \in Subscriptions, NEW x, Sound(x), Becomes(s, x)
  PROVE  ExchangeInv'
<1>1. /\ call' = call /\ setup' = setup /\ exchange' = [exchange EXCEPT ![s] = x]
      /\ x \in Exchanges
  BY DEF Becomes, Sound
<1>2. /\ exchange' \in [Subscriptions -> Exchanges]
      /\ exchange'[s] = x
      /\ \A t \in Subscriptions \ {s} : exchange'[t] = exchange[t]
  BY <1>1 DEF ExchangeInv
<1>3. \A t \in Subscriptions : Sound(exchange'[t])
  BY <1>2 DEF ExchangeInv
<1>4. \A t \in Subscriptions : Sound(exchange[t])'
  BY <1>1, <1>3, SoundIsOfTheCall
<1>. QED
  BY <1>1, <1>2, <1>4 DEF ExchangeInv

\* An exchange before anything was sent.
LEMMA OpenedIs ==
  ASSUME NEW s, Sound(exchange[s]), exchange[s].state = "idle"
  PROVE  LET x == Opened(s)
         IN  /\ x \in Exchanges /\ x.state = "open" /\ x.got = <<>>
             /\ x.task = "scheduled" <=> OnServer
             /\ x.xhr = "none" /\ ~x.listening /\ ~x.sentHeaders /\ x.test = "none"
             /\ x.cancelled = FALSE /\ x.received = 0 /\ x.answer = NoAnswer /\ ~x.threw
<1>1. exchange[s] = NewExchange /\ NewExchange \in Exchanges
  BY DEF Sound, LayersFollow
<1>. DEFINE x == Opened(s)
<1>2. x = [[NewExchange EXCEPT !.task = IF OnServer THEN "scheduled" ELSE @] EXCEPT !.state = "open"]
  BY <1>1 DEF Opened, Scheduled
<1>. HIDE DEF x
<1>3. /\ x.state = "open" /\ x.got = <<>>
      /\ x.task = "scheduled" <=> OnServer
      /\ x.xhr = "none" /\ ~x.listening /\ ~x.sentHeaders /\ x.test = "none"
      /\ x.cancelled = FALSE /\ x.received = 0 /\ x.answer = NoAnswer /\ ~x.threw
  BY <1>2 DEF NewExchange
<1>4. x \in Exchanges
  BY <1>1, <1>2 DEF Exchanges
<1>. QED
  BY <1>3, <1>4 DEF x

LEMMA EmptyIsSoFar ==
  ASSUME NEW x \in Exchanges, x.state = "open", x.got = <<>>, ~x.sentHeaders
  PROVE  SoFar(x)
BY NothingIsInOrder DEF SoFar, EventsInOrder

LEMMA LayersStay ==
  ASSUME NEW x, NEW y, LayersFollow(x), Same(x, y), x.state = "open", y.state = "open"
  PROVE  LayersFollow(y)
BY DEF LayersFollow, Same, InFlight, Finished

LEMMA NothingWasAnswered ==
  /\ ~AnsweredWell(NoAnswer)
  /\ \A answer : answer.by = "network" => ~AnsweredWell(answer)
BY DEF AnsweredWell, NoAnswer

\* The first event is that it was sent.
LEMMA SentIsSound ==
  ASSUME call \in Calls, NEW x \in Exchanges, x.state = "open", x.got = <<>>, ~x.sentHeaders,
         LayersFollow(x)
  PROVE  Sound(EmitNext(x, Event("Sent")))
<1>. DEFINE y == EmitNext(x, Event("Sent"))
<1>. DEFINE e == Event("Sent")
<1>1. /\ e \in Events /\ e.kind = "Sent"
  BY DEF Event, Events, Kinds, EventBodies
<1>2. /\ y \in Exchanges /\ Same(x, y) /\ y.state = "open"
      /\ y.got = IF ~OnServer /\ request.observe = "events" THEN Append(x.got, e) ELSE x.got
  BY <1>1, EmitNextIs
<1>. HIDE DEF y, e
<1>3. Before(x.got, 1) /\ Before(x.got, 0) /\ Rank[e.kind] = 1
  BY <1>1, NothingIsInOrder, RankIs
<1>4. SoFar(y)
  <2>1. SoFar(x) /\ (OfItsOwn(x) => OfItsOwn(y)) /\ ~y.sentHeaders
    BY <1>2, EmptyIsSoFar DEF Same, OfItsOwn
  <2>2. /\ Rank[e.kind] - 1 = 0 /\ Rank[e.kind] <= 2
        /\ e.kind \notin {"Response", "Body"} /\ e.kind # "DownloadProgress"
    BY <1>1, <1>3
  <2>. QED
    BY <1>1, <1>2, <1>3, <2>1, <2>2, EventIsSoFar
<1>. QED
  BY <1>2, <1>4, LayersStay, OpenIsSound DEF y

LEMMA SendIsSound ==
  ASSUME ExchangeInv, NEW s \in Subscriptions, Send(s)
  PROVE  ExchangeInv'
<1>. DEFINE o == Opened(s)
            x == [o EXCEPT !.xhr = "sent", !.listening = TRUE]
            y == [o EXCEPT !.xhr = "unsent"]
<1>1. Sound(exchange[s]) /\ exchange[s].state = "idle" /\ setup.backend = "xhr" /\ call \in Calls
  BY DEF ExchangeInv, Send
<1>2. /\ o \in Exchanges /\ o.state = "open" /\ o.got = <<>>
      /\ o.task = "scheduled" <=> OnServer
      /\ o.xhr = "none" /\ ~o.listening /\ ~o.sentHeaders /\ o.test = "none"
      /\ o.cancelled = FALSE /\ o.received = 0 /\ o.answer = NoAnswer /\ ~o.threw
  BY <1>1, OpenedIs
<1>3. Becomes(s, EmitNext(x, Event("Sent"))) \/ Becomes(s, EmitError(y))
  BY DEF Send
<1>. HIDE DEF o
<1>4. Sound(EmitNext(x, Event("Sent")))
  <2>1. x \in Exchanges
    BY <1>2 DEF Exchanges
  <2>2. /\ x.state = "open" /\ x.got = <<>> /\ ~x.sentHeaders
        /\ x.task = "scheduled" <=> OnServer
        /\ x.xhr = "sent" /\ x.listening /\ x.test = "none" /\ x.answer = NoAnswer
    BY <1>2 DEF Exchanges
  <2>. HIDE DEF x
  <2>3. LayersFollow(x)
    BY <1>1, <2>2 DEF LayersFollow, InFlight, Finished
  <2>. QED
    BY <1>1, <2>1, <2>2, <2>3, SentIsSound
<1>5. Sound(EmitError(y))
  <2>1. y \in Exchanges
    BY <1>2 DEF Exchanges
  <2>2. y.state = "open" /\ y.got = <<>> /\ ~y.sentHeaders /\ y.answer = NoAnswer
    BY <1>2 DEF Exchanges
  <2>. HIDE DEF y
  <2>. QED
    BY <2>1, <2>2, EmptyIsSoFar, NothingWasAnswered, ErrorIsSound
<1>. QED
  BY <1>3, <1>4, <1>5, OneBecomes

LEMMA QueueIsSound ==
  ASSUME ExchangeInv, NEW s \in Subscriptions, Queue(s)
  PROVE  ExchangeInv'
<1>. DEFINE o == Opened(s)
            x == [o EXCEPT !.test = "open"]
<1>1. Sound(exchange[s]) /\ exchange[s].state = "idle" /\ setup.backend = "testing" /\ call \in Calls
  BY DEF ExchangeInv, Queue
<1>2. /\ o \in Exchanges /\ o.state = "open" /\ o.got = <<>>
      /\ o.task = "scheduled" <=> OnServer
      /\ o.xhr = "none" /\ ~o.listening /\ ~o.sentHeaders /\ o.test = "none"
      /\ o.cancelled = FALSE /\ o.received = 0 /\ o.answer = NoAnswer /\ ~o.threw
  BY <1>1, OpenedIs
<1>3. Becomes(s, EmitNext(x, Event("Sent")))
  BY DEF Queue
<1>. HIDE DEF o
<1>4. x \in Exchanges
  BY <1>2 DEF Exchanges
<1>5. /\ x.state = "open" /\ x.got = <<>> /\ ~x.sentHeaders
      /\ x.task = "scheduled" <=> OnServer
      /\ x.xhr = "none" /\ ~x.listening /\ x.test = "open" /\ x.answer = NoAnswer
  BY <1>2 DEF Exchanges
<1>. HIDE DEF x
<1>6. LayersFollow(x)
  BY <1>1, <1>5 DEF LayersFollow, InFlight, Finished
<1>. QED
  BY <1>1, <1>3, <1>4, <1>5, <1>6, SentIsSound, OneBecomes

LEMMA InterceptorAnswersIsSound ==
  ASSUME ExchangeInv, NEW s \in Subscriptions, InterceptorAnswers(s)
  PROVE  ExchangeInv'
<1>. DEFINE o == Opened(s)
<1>1. PICK body \in BodyTypes \union {"null"} :
        Becomes(s, EmitComplete(EmitNext(
          [o EXCEPT !.answer = [NoAnswer EXCEPT !.by = "interceptor", !.body = body]], Response(body))))
  BY DEF InterceptorAnswers
<1>. DEFINE answer == [NoAnswer EXCEPT !.by = "interceptor", !.body = body]
            x == [o EXCEPT !.answer = answer]
<1>2. Sound(exchange[s]) /\ exchange[s].state = "idle" /\ call \in Calls
  BY DEF ExchangeInv, InterceptorAnswers
<1>3. o \in Exchanges /\ o.state = "open" /\ o.got = <<>> /\ ~o.sentHeaders
  BY <1>2, OpenedIs
<1>4. /\ answer.by = "interceptor" /\ answer.body = body
      /\ answer \in [by : {"interceptor"}, status : {0}, body : BodyTypes \union {"null"}]
  BY DEF NoAnswer
<1>. HIDE DEF o, answer
<1>5. x \in Exchanges
  BY <1>3, <1>4 DEF Exchanges, Statuses, EventBodies
<1>6. x.state = "open" /\ x.got = <<>> /\ ~x.sentHeaders /\ x.answer = answer
  BY <1>3 DEF Exchanges
<1>. HIDE DEF x
<1>7. SoFar(x) /\ AnsweredWell(x.answer) /\ OfItsOwn(x)
  BY <1>4, <1>5, <1>6, EmptyIsSoFar DEF AnsweredWell, OfItsOwn
<1>8. Sound(EmitComplete(EmitNext(x, Response(body))))
  BY <1>2, <1>4, <1>6, <1>7, AnswerIsSound DEF EventBodies
<1>. QED
  BY <1>1, <1>8, OneBecomes DEF x, answer

LEMMA HandlerThrowsIsSound ==
  ASSUME ExchangeInv, NEW s \in Subscriptions, HandlerThrows(s)
  PROVE  ExchangeInv'
<1>. DEFINE o == Opened(s)
            x == [o EXCEPT !.state = "errored", !.threw = TRUE]
<1>1. Sound(exchange[s]) /\ exchange[s].state = "idle" /\ call \in Calls /\ Becomes(s, x)
  BY DEF ExchangeInv, HandlerThrows
<1>2. /\ o \in Exchanges /\ o.state = "open" /\ o.got = <<>>
      /\ o.task = "scheduled" <=> OnServer
      /\ o.xhr = "none" /\ ~o.listening /\ ~o.sentHeaders /\ o.test = "none"
      /\ o.cancelled = FALSE /\ o.received = 0 /\ o.answer = NoAnswer /\ ~o.threw
  BY <1>1, OpenedIs
<1>. HIDE DEF o
<1>3. x \in Exchanges
  BY <1>2 DEF Exchanges, Finished
<1>4. /\ x.state = "errored" /\ x.got = <<>> /\ x.threw
      /\ x.task = "scheduled" <=> OnServer
      /\ x.xhr = "none" /\ ~x.listening /\ x.test = "none" /\ x.cancelled = FALSE /\ x.answer = NoAnswer
  BY <1>2 DEF Exchanges
<1>. HIDE DEF x
<1>5. LayersFollow(x)
  BY <1>4 DEF LayersFollow, InFlight, Finished
<1>6. EventsInOrder(x) /\ EndIsShown(x) /\ \A i \in 1..Len(x.got) : EventDeclared(x, x.got[i])
  BY <1>4, NothingIsInOrder, NothingWasAnswered DEF EventsInOrder, EndIsShown
<1>. QED
  BY <1>1, <1>3, <1>5, <1>6, OneBecomes DEF Sound

\* Only an open exchange hears from below.
LEMMA InFlightIsOpen ==
  ASSUME NEW x, Sound(x), InFlight(x)
  PROVE  /\ SoFar(x) /\ x.state = "open" /\ setup.backend = "xhr" /\ x.listening
         /\ x.answer = NoAnswer
<1>1. x.state \in {"idle", "open"} \union Finished
  BY DEF Sound, Exchanges
<1>2. x.state # "idle"
  BY DEF Sound, LayersFollow, NewExchange, InFlight
<1>3. x.state = "open" /\ LayersFollow(x)
  BY <1>1, <1>2 DEF Sound, LayersFollow
<1>. QED
  BY <1>3, OpenIsSoFar DEF LayersFollow

LEMMA TakenIsOpen ==
  ASSUME NEW x, Sound(x), x.test = "taken", ~x.cancelled
  PROVE  /\ SoFar(x) /\ x.state = "open" /\ setup.backend = "testing" /\ x.answer = NoAnswer
<1>1. x.state \in {"idle", "open"} \union Finished
  BY DEF Sound, Exchanges
<1>2. x.state # "idle"
  BY DEF Sound, LayersFollow, NewExchange
<1>3. x.state = "open" /\ LayersFollow(x)
  BY <1>1, <1>2 DEF Sound, LayersFollow
<1>. QED
  BY <1>3, OpenIsSoFar DEF LayersFollow

LEMMA EventIs ==
  ASSUME NEW kind \in Kinds
  PROVE  Event(kind) \in Events /\ Event(kind).kind = kind
BY DEF Event, Events, EventBodies

LEMMA UploadProgressIsSound ==
  ASSUME ExchangeInv, NEW s \in Subscriptions, UploadProgress(s)
  PROVE  ExchangeInv'
<1>. DEFINE e == exchange[s]
            x == [e EXCEPT !.sent = @ + 1]
            event == Event("UploadProgress")
            y == EmitNext(x, event)
<1>1. /\ call \in Calls /\ Sound(e) /\ e.xhr = "sent"
      /\ Becomes(s, IF x.listening /\ request.progress THEN y ELSE x)
  BY DEF ExchangeInv, UploadProgress
<1>2. e \in Exchanges /\ LayersFollow(e) /\ SoFar(e) /\ e.state = "open"
  BY <1>1, InFlightIsOpen DEF Sound, InFlight
<1>. HIDE DEF e
<1>3. x \in Exchanges
  BY <1>2 DEF Exchanges
<1>4. Same(e, x) /\ x.state = "open" /\ x.got = e.got
  BY <1>2 DEF Exchanges, Same
<1>5. event \in Events /\ event.kind = "UploadProgress" /\ Rank[event.kind] = 2
  BY EventIs, RankIs DEF Kinds
<1>. HIDE DEF x, event
<1>6. SoFar(x) /\ LayersFollow(x)
  BY <1>2, <1>3, <1>4, SoFarStays, LayersStay DEF Same, OfItsOwn
<1>7. /\ y \in Exchanges /\ Same(x, y) /\ y.state = "open"
      /\ y.got = IF ~OnServer /\ request.observe = "events" THEN Append(x.got, event) ELSE x.got
  BY <1>1, <1>3, <1>4, <1>5, EmitNextIs
<1>. HIDE DEF y
<1>8. SoFar(y)
  <2>1. ~x.sentHeaders /\ ~y.sentHeaders
    BY <1>1, <1>2, <1>4, <1>7 DEF Same, LayersFollow
  <2>2. setup.backend = "xhr" /\ ~OnServer => Before(x.got, Rank[event.kind])
    BY <1>4, <1>5, <1>6, <2>1 DEF SoFar, EventsInOrder
  <2>3. event.kind \notin Once /\ event.kind \notin {"Response", "Body", "DownloadProgress"}
    BY <1>5 DEF Once
  <2>4. OfItsOwn(x) => OfItsOwn(y)
    BY <1>7 DEF OfItsOwn, Same
  <2>. QED
    BY <1>1, <1>5, <1>6, <1>7, <2>1, <2>2, <2>3, <2>4, EventIsSoFar
<1>9. LayersFollow(y)
  BY <1>4, <1>6, <1>7, LayersStay
<1>. QED
  BY <1>1, <1>6, <1>8, <1>9, OpenIsSound, OneBecomes

LEMMA DownloadProgressIsSound ==
  ASSUME ExchangeInv, NEW s \in Subscriptions, DownloadProgress(s)
  PROVE  ExchangeInv'
<1>. DEFINE e == exchange[s]
            x == [e EXCEPT !.xhr = "receiving", !.received = @ + 1]
            head == Event("ResponseHeader")
            z == EmitNext(x, head)
            headed == IF x.sentHeaders THEN x ELSE [z EXCEPT !.sentHeaders = TRUE]
            event == Event("DownloadProgress")
            y == EmitNext(headed, event)
<1>1. /\ call \in Calls /\ Sound(e) /\ InFlight(e)
      /\ Becomes(s, IF x.listening /\ request.progress THEN y ELSE x)
  BY DEF ExchangeInv, DownloadProgress
<1>2. e \in Exchanges /\ LayersFollow(e) /\ SoFar(e) /\ e.state = "open" /\ setup.backend = "xhr"
  BY <1>1, InFlightIsOpen DEF Sound
<1>. HIDE DEF e
<1>3. x \in Exchanges
  <2>1. [e EXCEPT !.received = @ + 1] \in Exchanges
    BY <1>2 DEF Exchanges
  <2>2. x = [[e EXCEPT !.received = @ + 1] EXCEPT !.xhr = "receiving"]
    BY <1>2 DEF Exchanges
  <2>. QED
    BY <2>1, <2>2 DEF Exchanges
<1>4. /\ x.state = "open" /\ x.got = e.got /\ x.sentHeaders = e.sentHeaders
      /\ x.xhr = "receiving" /\ x.listening = e.listening /\ x.test = e.test /\ x.task = e.task
      /\ x.answer = e.answer /\ x.received > 0
  BY <1>2 DEF Exchanges
<1>5. /\ head \in Events /\ head.kind = "ResponseHeader" /\ Rank[head.kind] = 3
      /\ event \in Events /\ event.kind = "DownloadProgress" /\ Rank[event.kind] = 4
  BY EventIs, RankIs DEF Kinds
<1>. HIDE DEF x, event, head
<1>6. SoFar(x) /\ LayersFollow(x)
  <2>1. SoFar(x)
    BY <1>2, <1>3, <1>4, SoFarStays DEF OfItsOwn
  <2>2. LayersFollow(x)
    BY <1>2, <1>4 DEF LayersFollow, InFlight, Finished
  <2>. QED
    BY <2>1, <2>2
<1>7. /\ headed \in Exchanges /\ headed.state = "open" /\ SoFar(headed) /\ LayersFollow(headed)
      /\ headed.sentHeaders
  <2>1. CASE x.sentHeaders
    BY <1>3, <1>4, <1>6, <2>1
  <2>2. CASE ~x.sentHeaders
    <3>1. /\ z \in Exchanges /\ Same(x, z) /\ z.state = "open"
          /\ z.got = IF ~OnServer /\ request.observe = "events" THEN Append(x.got, head) ELSE x.got
      BY <1>1, <1>3, <1>4, <1>5, EmitNextIs
    <3>. DEFINE h == [z EXCEPT !.sentHeaders = TRUE]
    <3>. HIDE DEF z
    <3>2. h \in Exchanges
      BY <3>1 DEF Exchanges
    <3>3. /\ h.state = "open" /\ h.got = z.got /\ h.sentHeaders
          /\ h.listening = z.listening /\ h.xhr = z.xhr /\ h.task = z.task
          /\ h.test = z.test /\ h.received = z.received /\ h.answer = z.answer
      BY <3>1 DEF Exchanges
    <3>4. headed = h
      BY <2>2 DEF z
    <3>. HIDE DEF h, headed
    <3>5. LayersFollow(h)
      BY <1>4, <1>6, <3>1, <3>3 DEF LayersFollow, Same, InFlight, Finished
    <3>6. setup.backend = "xhr" /\ ~OnServer =>
            Before(x.got, Rank[head.kind]) /\ Before(x.got, Rank[head.kind] - 1)
      <4>. SUFFICES ASSUME setup.backend = "xhr", ~OnServer
                    PROVE  Before(x.got, 3) /\ Before(x.got, 2)
        BY <1>5
      <4>1. Before(x.got, 2) /\ x.got \in Seq(Events)
        BY <1>3, <1>4, <1>6, <2>2 DEF SoFar, EventsInOrder, Exchanges
      <4>. QED
        BY <4>1, BeforeMore
    <3>7. OfItsOwn(x) => OfItsOwn(h)
      BY <3>1, <3>3 DEF OfItsOwn, Same
    <3>8. SoFar(h)
      BY <1>1, <1>5, <1>6, <2>2, <3>1, <3>2, <3>3, <3>6, <3>7, EventIsSoFar
    <3>. QED
      BY <3>2, <3>3, <3>4, <3>5, <3>8
  <2>. QED
    BY <2>1, <2>2
<1>. HIDE DEF headed
<1>8. /\ y \in Exchanges /\ Same(headed, y) /\ y.state = "open"
      /\ y.got = IF ~OnServer /\ request.observe = "events"
                 THEN Append(headed.got, event) ELSE headed.got
  BY <1>1, <1>5, <1>7, EmitNextIs
<1>. HIDE DEF y
<1>9. SoFar(y)
  <2>1. headed.sentHeaders /\ y.sentHeaders
    BY <1>7, <1>8 DEF Same
  <2>2. setup.backend = "xhr" /\ ~OnServer =>
          /\ Before(headed.got, Rank[event.kind])
          /\ request.observe = "events" => Heading(headed.got)
    BY <1>5, <1>7, <2>1 DEF SoFar, EventsInOrder
  <2>3. event.kind \notin Once /\ event.kind \notin {"Response", "Body"}
    BY <1>5 DEF Once
  <2>4. OfItsOwn(headed) => OfItsOwn(y)
    BY <1>8 DEF OfItsOwn, Same
  <2>. QED
    BY <1>1, <1>5, <1>7, <1>8, <2>1, <2>2, <2>3, <2>4, EventIsSoFar
<1>10. LayersFollow(y)
  BY <1>7, <1>8, LayersStay
<1>. QED
  BY <1>1, <1>6, <1>9, <1>10, OpenIsSound, OneBecomes

\* An answer is made one of success just where it is good.
LEMMA LoadsWhatIsGood ==
  ASSUME NEW status \in Statuses, NEW body \in Received
  PROVE  LET s == LoadStatus(status, body)
         IN  AnsweredWell([by |-> "server", status |-> status, body |-> body]) <=>
               s \in 200..299 /\ ~(s # 204 /\ request.type = "json" /\ body = "garbage")
<1>. DEFINE answer == [by |-> "server", status |-> status, body |-> body]
<1>1. answer.by = "server" /\ answer.status = status /\ answer.body = body
  OBVIOUS
<1>. HIDE DEF answer
<1>2. AnsweredWell(answer) <=>
        \/ status \in {204, 1223}
        \/ status = 200 /\ ~(body = "garbage" /\ request.type = "json")
        \/ status = 0 /\ HasBody(body) /\ ~(body = "garbage" /\ request.type = "json")
  BY <1>1 DEF AnsweredWell
<1>3. CASE status = 1223
  BY <1>2, <1>3 DEF LoadStatus, answer
<1>4. CASE status = 0 /\ HasBody(body)
  BY <1>2, <1>4 DEF LoadStatus, answer
<1>5. CASE status # 1223 /\ ~(status = 0 /\ HasBody(body))
  <2>1. LoadStatus(status, body) = status
    BY <1>5 DEF LoadStatus
  <2>2. status \in {0, 200, 204, 404}
    BY <1>5 DEF Statuses
  <2>. QED
    BY <1>2, <1>5, <2>1, <2>2 DEF answer
<1>. QED
  BY <1>3, <1>4, <1>5

\* What was answered, and what the exchange keeps with it.
LEMMA AnsweredIs ==
  ASSUME NEW e, SoFar(e), e.answer = NoAnswer,
         NEW by \in {"server", "network", "test"}, NEW status \in Statuses,
         NEW body \in EventBodies \union Received
  PROVE  LET answer == [by |-> by, status |-> status, body |-> body]
             x == [e EXCEPT !.answer = answer]
         IN  SoFar(x) /\ x.answer = answer /\ x.listening = e.listening
<1>. DEFINE answer == [by |-> by, status |-> status, body |-> body]
            x == [e EXCEPT !.answer = answer]
<1>1. e \in Exchanges /\ e.state = "open"
  BY DEF SoFar
<1>2. answer \in [by : {"nobody", "interceptor", "server", "network", "test"},
                  status : Statuses, body : EventBodies \union Received]
  OBVIOUS
<1>3. answer.by # "interceptor" /\ e.answer.by # "interceptor"
  BY DEF NoAnswer
<1>. HIDE DEF answer
<1>4. x \in Exchanges
  BY <1>1, <1>2 DEF Exchanges
<1>5. /\ x.state = "open" /\ x.got = e.got /\ x.sentHeaders = e.sentHeaders
      /\ x.received = e.received /\ x.answer = answer /\ x.listening = e.listening
  BY <1>1 DEF Exchanges
<1>. HIDE DEF x
<1>6. SoFar(x)
  BY <1>3, <1>4, <1>5, SoFarStays DEF OfItsOwn
<1>. QED
  BY <1>5, <1>6 DEF x, answer

LEMMA LoadIsSound ==
  ASSUME ExchangeInv, NEW s \in Subscriptions, Load(s)
  PROVE  ExchangeInv'
<1>. DEFINE e == exchange[s]
<1>1. /\ call \in Calls /\ Sound(e) /\ InFlight(e)
      /\ \E status \in Statuses, body \in Received :
           LET x == [Answered(e, "server", status, body) EXCEPT !.xhr = "loaded"]
           IN  Becomes(s, IF x.listening THEN Loads(x, status, body) ELSE x)
  BY DEF ExchangeInv, Load
<1>2. SoFar(e) /\ e.state = "open" /\ e.listening /\ e.answer = NoAnswer
  BY <1>1, InFlightIsOpen
<1>. HIDE DEF e
<1>3. PICK status \in Statuses, body \in Received :
        LET x == [Answered(e, "server", status, body) EXCEPT !.xhr = "loaded"]
        IN  Becomes(s, IF x.listening THEN Loads(x, status, body) ELSE x)
  BY <1>1
<1>. DEFINE answer == [by |-> "server", status |-> status, body |-> body]
            a == [e EXCEPT !.answer = answer]
            x == [a EXCEPT !.xhr = "loaded"]
            st == LoadStatus(status, body)
            ok == st \in 200..299 /\ ~(st # 204 /\ request.type = "json" /\ body = "garbage")
<1>4. SoFar(a) /\ a.answer = answer /\ a.listening
  BY <1>2, AnsweredIs
<1>5. Becomes(s, IF x.listening THEN Loads(x, status, body) ELSE x)
  BY <1>3 DEF Answered
<1>6. AnsweredWell(answer) <=> ok
  BY LoadsWhatIsGood
<1>. HIDE DEF a, answer
<1>7. /\ x \in Exchanges /\ x.state = "open" /\ x.got = a.got /\ x.sentHeaders = a.sentHeaders
      /\ x.received = a.received /\ x.answer = answer /\ x.listening
  <2>1. a \in Exchanges /\ a.state = "open"
    BY <1>4 DEF SoFar
  <2>2. x \in Exchanges
    BY <2>1 DEF Exchanges
  <2>. QED
    BY <1>4, <2>1, <2>2 DEF Exchanges
<1>. HIDE DEF x
<1>8. SoFar(x)
  BY <1>4, <1>7, SoFarStays DEF SoFar, OfItsOwn
<1>9. CASE ok
  <2>. DEFINE read == ReadBody(st, body)
  <2>1. Loads(x, status, body) = EmitComplete(EmitNext(x, Response(read)))
    BY <1>9 DEF Loads
  <2>2. read \in {request.type, "null"} /\ request.type \in BodyTypes
    BY <1>1, RequestIs DEF ReadBody, Requests
  <2>. HIDE DEF read, ok
  <2>3. read \in EventBodies /\ BodyFits(read)
    BY <2>2 DEF EventBodies, BodyFits
  <2>4. Sound(EmitComplete(EmitNext(x, Response(read))))
    BY <1>1, <1>6, <1>7, <1>8, <1>9, <2>2, <2>3, AnswerIsSound
  <2>. QED
    BY <1>5, <1>7, <2>1, <2>4, OneBecomes
<1>10. CASE ~ok
  <2>1. Loads(x, status, body) = EmitError(x)
    BY <1>10 DEF Loads
  <2>. HIDE DEF ok
  <2>. QED
    BY <1>5, <1>6, <1>7, <1>8, <1>10, <2>1, ErrorIsSound, OneBecomes
<1>. QED
  BY <1>9, <1>10

LEMMA NetworkErrorIsSound ==
  ASSUME ExchangeInv, NEW s \in Subscriptions, NetworkError(s)
  PROVE  ExchangeInv'
<1>. DEFINE e == exchange[s]
            x == [e EXCEPT !.xhr = "failed", !.answer.by = "network"]
<1>1. /\ call \in Calls /\ Sound(e) /\ InFlight(e)
      /\ Becomes(s, IF x.listening THEN EmitError(x) ELSE x)
  BY DEF ExchangeInv, NetworkError
<1>2. SoFar(e) /\ e \in Exchanges /\ e.state = "open" /\ e.listening /\ e.answer = NoAnswer
  BY <1>1, InFlightIsOpen DEF SoFar
<1>. HIDE DEF e
<1>3. x \in Exchanges
  <2>1. [e EXCEPT !.answer.by = "network"] \in Exchanges
    BY <1>2 DEF Exchanges
  <2>2. x = [[e EXCEPT !.answer.by = "network"] EXCEPT !.xhr = "failed"]
    BY <1>2 DEF Exchanges
  <2>. QED
    BY <2>1, <2>2 DEF Exchanges
<1>4. /\ x.state = "open" /\ x.got = e.got /\ x.sentHeaders = e.sentHeaders
      /\ x.received = e.received /\ x.listening /\ x.answer.by = "network"
  BY <1>2 DEF Exchanges
<1>. HIDE DEF x
<1>5. SoFar(x) /\ ~AnsweredWell(x.answer)
  BY <1>2, <1>3, <1>4, SoFarStays, NothingWasAnswered DEF OfItsOwn, NoAnswer
<1>. QED
  BY <1>1, <1>4, <1>5, ErrorIsSound, OneBecomes

LEMMA FlushIsSound ==
  ASSUME ExchangeInv, NEW s \in Subscriptions, Flush(s)
  PROVE  ExchangeInv'
<1>. DEFINE e == exchange[s]
<1>1. /\ call \in Calls /\ Sound(e) /\ e.test = "taken" /\ ~e.cancelled
  BY DEF ExchangeInv, Flush
<1>2. SoFar(e) /\ e.answer = NoAnswer
  BY <1>1, TakenIsOpen
<1>3. PICK given \in BodyTypes \union {"null"} : \E body \in ConvertBody(given) :
        \E status \in {200, 404} :
          LET x == Answered(e, "test", status, body)
          IN  Becomes(s, IF status \in 200..299 THEN EmitComplete(EmitNext(x, Response(body)))
                         ELSE EmitError(x))
  BY DEF Flush
<1>. HIDE DEF e
<1>4. PICK body \in ConvertBody(given), status \in {200, 404} :
        LET x == Answered(e, "test", status, body)
        IN  Becomes(s, IF status \in 200..299 THEN EmitComplete(EmitNext(x, Response(body)))
                       ELSE EmitError(x))
  BY <1>3
<1>5. body \in {request.type, "null"} /\ request.type \in BodyTypes
  BY <1>1, RequestIs DEF ConvertBody, Requests
<1>6. body \in EventBodies /\ BodyFits(body) /\ status \in Statuses
  BY <1>5 DEF EventBodies, BodyFits, Statuses
<1>. DEFINE answer == [by |-> "test", status |-> status, body |-> body]
            x == [e EXCEPT !.answer = answer]
<1>7. SoFar(x) /\ x.answer = answer
  BY <1>2, <1>6, AnsweredIs
<1>8. AnsweredWell(answer) <=> status = 200
  BY DEF AnsweredWell
<1>9. Becomes(s, IF status \in 200..299 THEN EmitComplete(EmitNext(x, Response(body)))
                 ELSE EmitError(x))
  BY <1>4 DEF Answered
<1>. HIDE DEF x, answer
<1>10. CASE status = 200
  <2>1. Sound(EmitComplete(EmitNext(x, Response(body))))
    BY <1>1, <1>5, <1>6, <1>7, <1>8, <1>10, AnswerIsSound
  <2>. QED
    BY <1>9, <1>10, <2>1, OneBecomes
<1>11. CASE status = 404
  <2>1. Sound(EmitError(x))
    BY <1>7, <1>8, <1>11, ErrorIsSound
  <2>2. status \notin 200..299
    BY <1>11
  <2>. QED
    BY <1>9, <2>1, <2>2, OneBecomes
<1>. QED
  BY <1>10, <1>11

LEMMA TestErrorIsSound ==
  ASSUME ExchangeInv, NEW s \in Subscriptions, TestError(s)
  PROVE  ExchangeInv'
<1>. DEFINE e == exchange[s]
            x == [e EXCEPT !.answer.by = "network"]
<1>1. /\ Sound(e) /\ e.test = "taken" /\ ~e.cancelled /\ Becomes(s, EmitError(x))
  BY DEF ExchangeInv, TestError
<1>2. SoFar(e) /\ e \in Exchanges /\ e.state = "open" /\ e.answer = NoAnswer
  BY <1>1, TakenIsOpen DEF SoFar
<1>. HIDE DEF e
<1>3. x \in Exchanges
  BY <1>2 DEF Exchanges
<1>4. /\ x.state = "open" /\ x.got = e.got /\ x.sentHeaders = e.sentHeaders
      /\ x.received = e.received /\ x.answer.by = "network"
  BY <1>2 DEF Exchanges
<1>. HIDE DEF x
<1>5. SoFar(x) /\ ~AnsweredWell(x.answer)
  BY <1>2, <1>3, <1>4, SoFarStays, NothingWasAnswered DEF OfItsOwn, NoAnswer
<1>. QED
  BY <1>1, <1>5, ErrorIsSound, OneBecomes

LEMMA UnsubscribingIsSound ==
  ASSUME ExchangeInv, NEW s \in Subscriptions, Unsubscribe(s)
  PROVE  ExchangeInv'
<1>1. Sound(exchange[s]) /\ exchange[s].state = "open"
  BY DEF ExchangeInv, Unsubscribe
<1>2. Sound(Ends(exchange[s], "unsubscribed"))
  BY <1>1, OpenIsSoFar, UnsubscribeIsSound
<1>. QED
  BY <1>2, OneBecomes DEF Unsubscribe

\* An answer that a test shows without ending the exchange.
LEMMA ResponseEventIsSound ==
  ASSUME call \in Calls, NEW x, SoFar(x), LayersFollow(x), OfItsOwn(x), x.answer = NoAnswer,
         setup.backend # "xhr", NEW body \in EventBodies
  PROVE  Sound(EmitNext(x, Response(body)))
<1>. DEFINE y == EmitNext(x, Response(body))
<1>1. x \in Exchanges /\ x.state = "open" /\ x.got \in Seq(Events)
  BY DEF SoFar, Exchanges
<1>2. CASE OnServer
  <2>1. y = [x EXCEPT !.saved = Response(body)]
    BY <1>1, <1>2 DEF EmitNext
  <2>. HIDE DEF y
  <2>2. y \in Exchanges
    BY <1>1, <2>1, ShownIsAnEvent DEF Exchanges
  <2>3. y.state = "open" /\ y.got = x.got /\ Same(x, y)
    BY <1>1, <2>1 DEF Exchanges, Same
  <2>. QED
    BY <1>1, <2>2, <2>3, SoFarStays, LayersStay, OpenIsSound DEF Same, OfItsOwn, y
<1>3. CASE ~OnServer
  <2>1. y = Deliver(x, Response(body))
    BY <1>1, <1>3 DEF EmitNext
  <2>2. /\ y \in Exchanges
        /\ Shows(body) => Same(x, y) /\ y.state = x.state /\ y.got = Append(x.got, ShownAs(body))
        /\ ~Shows(body) => y = Ends(x, "errored")
    BY <1>1, <2>1, DeliverResponseIs
  <2>. HIDE DEF y
  <2>3. CASE ~Shows(body)
    <3>1. /\ Closed(x, y) /\ y.got = x.got /\ y.state = "errored"
      BY <1>1, <2>2, <2>3, EndsIs DEF Finished
    <3>. QED
      BY <2>2, <3>1, EndWithoutAnswerIsSound, NothingWasAnswered DEF y
  <2>4. CASE Shows(body)
    <3>. DEFINE e == ShownAs(body)
                n == Len(x.got)
    <3>1. /\ y.got = Append(x.got, e) /\ y.state = "open" /\ Same(x, y)
          /\ e \in Events /\ e.kind \in {"Body", "Response"} /\ e.body = body
          /\ e.kind = "Body" <=> request.observe = "body"
      BY <1>1, <2>2, <2>4, ShownIsAnEvent
    <3>2. /\ n \in Nat /\ Len(y.got) = n + 1
          /\ \A i \in 1..n : y.got[i] = x.got[i]
          /\ y.got[n + 1] = e
      BY <1>1, <3>1, AppendProperties, LenProperties
    <3>. HIDE DEF e, n
    <3>3. EventDeclared(y, e)
      <4>1. e.kind \in DeclaredKinds(call)
        BY <3>1, CallObserves DEF DeclaredKinds
      <4>2. e.kind = "Body" => BodyFits(e.body)
        BY <2>4, <3>1 DEF Shows
      <4>. QED
        BY <3>1, <4>1, <4>2 DEF EventDeclared, OfItsOwn, Same
    <3>4. \A i \in 1..Len(y.got) : EventDeclared(y, y.got[i])
      <4>. SUFFICES ASSUME NEW i \in 1..(n + 1) PROVE EventDeclared(y, y.got[i])
        BY <3>2
      <4>1. CASE i = n + 1
        BY <3>2, <3>3, <4>1
      <4>2. CASE i # n + 1
        <5>1. i \in 1..n
          BY <3>2, <4>2
        <5>2. EventDeclared(x, x.got[i])
          BY <5>1 DEF SoFar, n
        <5>. QED
          BY <3>1, <3>2, <5>1, <5>2 DEF EventDeclared, OfItsOwn, Same
      <4>. QED
        BY <4>1, <4>2
    <3>5. SoFar(y)
      BY <1>3, <2>2, <3>1, <3>4 DEF SoFar, EventsInOrder
    <3>. QED
      BY <1>1, <3>1, <3>5, LayersStay, OpenIsSound DEF y
  <2>. QED
    BY <2>3, <2>4
<1>. QED
  BY <1>2, <1>3

LEMMA TestEventIsSound ==
  ASSUME ExchangeInv, NEW s \in Subscriptions, TestEvent(s)
  PROVE  ExchangeInv'
<1>. DEFINE e == exchange[s]
            x == [e EXCEPT !.received = @ + 1]
<1>1. /\ call \in Calls /\ Sound(e) /\ e.test = "taken" /\ ~e.cancelled
  BY DEF ExchangeInv, TestEvent
<1>2. PICK event \in {Event("DownloadProgress")} \union {Response(body) : body \in BodyTypes} :
        Becomes(s, EmitNext(x, event))
  BY DEF TestEvent
<1>3. /\ SoFar(e) /\ e \in Exchanges /\ e.state = "open" /\ e.answer = NoAnswer
      /\ setup.backend = "testing" /\ LayersFollow(e)
  BY <1>1, TakenIsOpen DEF SoFar, Sound
<1>. HIDE DEF e
<1>4. x \in Exchanges
  BY <1>3 DEF Exchanges
<1>5. /\ x.state = "open" /\ x.got = e.got /\ x.sentHeaders = e.sentHeaders
      /\ x.xhr = e.xhr /\ x.listening = e.listening /\ x.test = e.test /\ x.task = e.task
      /\ x.answer = NoAnswer /\ x.received > 0
  BY <1>3 DEF Exchanges
<1>. HIDE DEF x
<1>6. LayersFollow(x) /\ OfItsOwn(x)
  BY <1>3, <1>5 DEF LayersFollow, InFlight, Finished, OfItsOwn
<1>7. SoFar(x)
  BY <1>3, <1>4, <1>5, <1>6, SoFarStays
<1>8. CASE event = Event("DownloadProgress")
  <2>. DEFINE y == EmitNext(x, event)
  <2>1. event \in Events /\ event.kind \notin {"Response", "Body"}
    BY <1>8, EventIs DEF Kinds
  <2>2. /\ y \in Exchanges /\ Same(x, y) /\ y.state = "open"
        /\ y.got = IF ~OnServer /\ request.observe = "events" THEN Append(x.got, event) ELSE x.got
    BY <1>1, <1>4, <1>5, <2>1, EmitNextIs
  <2>. HIDE DEF y
  <2>3. SoFar(y)
    BY <1>1, <1>3, <1>7, <2>1, <2>2, EventIsSoFar DEF Same, OfItsOwn
  <2>. QED
    BY <1>2, <1>5, <1>6, <2>2, <2>3, LayersStay, OpenIsSound, OneBecomes DEF y
<1>9. CASE event \in {Response(body) : body \in BodyTypes}
  <2>1. PICK body \in BodyTypes : event = Response(body)
    BY <1>9
  <2>2. Sound(EmitNext(x, event))
    BY <1>1, <1>3, <1>5, <1>6, <1>7, <2>1, ResponseEventIsSound DEF EventBodies
  <2>. QED
    BY <1>2, <2>2, OneBecomes
<1>. QED
  BY <1>2, <1>8, <1>9

\* A test takes what is open; no exchange moves.
LEMMA MatchIsSound ==
  ASSUME ExchangeInv, Match
  PROVE  ExchangeInv'
<1>. DEFINE open == {s \in Subscriptions : exchange[s].test = "open"}
<1>1. PICK taken \in {"taken", "lost"} :
        exchange' = [s \in Subscriptions |->
          IF s \in open THEN [exchange[s] EXCEPT !.test = taken] ELSE exchange[s]]
  BY DEF Match
<1>2. call' = call /\ setup' = setup
  BY DEF Match
<1>3. ASSUME NEW s \in Subscriptions PROVE Sound(exchange'[s])
  <2>. DEFINE e == exchange[s]
              x == [e EXCEPT !.test = taken]
  <2>0. Sound(e) /\ e \in Exchanges
    BY DEF ExchangeInv, Sound
  <2>1. CASE e.test # "open"
    BY <1>1, <2>0, <2>1
  <2>2. CASE e.test = "open"
    <3>1. exchange'[s] = x
      BY <1>1, <2>2
    <3>. HIDE DEF e
    <3>2. x \in Exchanges
      BY <2>0 DEF Exchanges
    <3>3. /\ x.state = e.state /\ x.got = e.got /\ x.sentHeaders = e.sentHeaders
          /\ x.xhr = e.xhr /\ x.listening = e.listening /\ x.task = e.task /\ x.threw = e.threw
          /\ x.answer = e.answer /\ x.received = e.received /\ x.cancelled = e.cancelled
          /\ x.test = taken
      BY <2>0 DEF Exchanges
    <3>. HIDE DEF x
    <3>4. LayersFollow(x)
      <4>1. e.state # "idle"
        BY <2>0, <2>2 DEF Sound, LayersFollow, NewExchange
      <4>. QED
        BY <2>0, <2>2, <3>3, <4>1 DEF Sound, LayersFollow, InFlight, Finished
    <3>5. EventsInOrder(x) /\ EndIsShown(x)
      BY <2>0, <3>3 DEF Sound, EventsInOrder, EndIsShown
    <3>6. \A i \in 1..Len(x.got) : EventDeclared(x, x.got[i])
      BY <2>0, <3>3 DEF Sound, EventDeclared, OfItsOwn
    <3>. QED
      BY <3>1, <3>2, <3>4, <3>5, <3>6 DEF Sound
  <2>. QED
    BY <2>1, <2>2
<1>4. exchange' \in [Subscriptions -> Exchanges]
  BY <1>1, <1>3 DEF Sound
<1>. QED
  BY <1>2, <1>3, <1>4, SoundIsOfTheCall DEF ExchangeInv

LEMMA InitIsSound ==
  ASSUME Init
  PROVE  ExchangeInv
<1>1. /\ call \in Calls /\ setup \in Setups
      /\ exchange = [s \in Subscriptions |-> NewExchange]
  BY DEF Init, Setups
<1>2. NewExchange \in Exchanges
  <2>1. <<>> \in Seq(Events)
    OBVIOUS
  <2>2. NoAnswer \in [by : {"nobody", "interceptor", "server", "network", "test"},
                      status : Statuses, body : EventBodies \union Received]
    BY DEF NoAnswer, Statuses, EventBodies
  <2>. QED
    BY <2>1, <2>2 DEF NewExchange, Exchanges
<1>3. Sound(NewExchange)
  <2>. DEFINE x == NewExchange
  <2>1. /\ x.state = "idle" /\ x.got = <<>> /\ x.xhr = "none" /\ ~x.listening
    BY DEF NewExchange
  <2>. HIDE DEF x
  <2>2. LayersFollow(x)
    BY <2>1 DEF LayersFollow, InFlight, Finished, x
  <2>3. EventsInOrder(x) /\ EndIsShown(x) /\ \A i \in 1..Len(x.got) : EventDeclared(x, x.got[i])
    BY <2>1, NothingIsInOrder DEF EventsInOrder, EndIsShown
  <2>. QED
    BY <1>2, <2>2, <2>3 DEF Sound, x
<1>. QED
  BY <1>1, <1>2, <1>3 DEF ExchangeInv

\* Every exchange of a reachable state is sound: its layers follow the subscriber, its
\* events are in order and declared, and its end tells what was answered.
THEOREM ExchangesAreSound == Spec => []ExchangeInv
<1>1. Init => ExchangeInv
  BY InitIsSound
<1>2. ExchangeInv /\ [Next]_vars => ExchangeInv'
  <2>. SUFFICES ASSUME ExchangeInv, [Next]_vars PROVE ExchangeInv'
    OBVIOUS
  <2>1. ASSUME NEW s \in Subscriptions, Send(s) PROVE ExchangeInv'
    BY <2>1, SendIsSound
  <2>2. ASSUME NEW s \in Subscriptions, InterceptorAnswers(s) PROVE ExchangeInv'
    BY <2>2, InterceptorAnswersIsSound
  <2>3. ASSUME NEW s \in Subscriptions, HandlerThrows(s) PROVE ExchangeInv'
    BY <2>3, HandlerThrowsIsSound
  <2>4. ASSUME NEW s \in Subscriptions, UploadProgress(s) PROVE ExchangeInv'
    BY <2>4, UploadProgressIsSound
  <2>5. ASSUME NEW s \in Subscriptions, DownloadProgress(s) PROVE ExchangeInv'
    BY <2>5, DownloadProgressIsSound
  <2>6. ASSUME NEW s \in Subscriptions, Load(s) PROVE ExchangeInv'
    BY <2>6, LoadIsSound
  <2>7. ASSUME NEW s \in Subscriptions, NetworkError(s) PROVE ExchangeInv'
    BY <2>7, NetworkErrorIsSound
  <2>8. ASSUME NEW s \in Subscriptions, Queue(s) PROVE ExchangeInv'
    BY <2>8, QueueIsSound
  <2>9. ASSUME NEW s \in Subscriptions, Flush(s) PROVE ExchangeInv'
    BY <2>9, FlushIsSound
  <2>10. ASSUME NEW s \in Subscriptions, TestError(s) PROVE ExchangeInv'
    BY <2>10, TestErrorIsSound
  <2>11. ASSUME NEW s \in Subscriptions, TestEvent(s) PROVE ExchangeInv'
    BY <2>11, TestEventIsSound
  <2>12. ASSUME NEW s \in Subscriptions, Unsubscribe(s) PROVE ExchangeInv'
    BY <2>12, UnsubscribingIsSound
  <2>13. CASE Match
    BY <2>13, MatchIsSound
  <2>14. CASE UNCHANGED vars
    <3>1. call' = call /\ setup' = setup /\ exchange' = exchange
      BY <2>14 DEF vars
    <3>. QED
      BY <3>1, SoundIsOfTheCall DEF ExchangeInv
  <2>. QED
    BY <2>1, <2>2, <2>3, <2>4, <2>5, <2>6, <2>7, <2>8, <2>9, <2>10, <2>11, <2>12, <2>13, <2>14
    DEF Next
<1>. QED
  BY <1>1, <1>2, PTL DEF Spec

\* However an exchange ends for its subscriber, nothing of it is left below: no request in
\* flight, no listener, no TestRequest to be answered and, unless a handler threw on the
\* server, no macrotask (the teardowns of xhr.ts, testing/ and ZoneMacroTaskWrapper).
THEOREM ExchangeLeavesNothing == Spec => []NothingIsLeft
<1>1. ExchangeInv => NothingIsLeft
  <2>. SUFFICES ASSUME ExchangeInv, NEW s \in Subscriptions,
                       NEW x, x = exchange[s]
                PROVE  /\ x.state \in Finished => ~InFlight(x) /\ ~x.listening
                       /\ x.state \in Finished => x.cancelled = (x.test # "none")
                       /\ x.state \in Finished /\ x.task = "scheduled" => OnServer /\ x.threw
                       /\ x.state = "open" =>
                            /\ x.task = "scheduled" <=> OnServer
                            /\ x.listening <=> x.test = "none"
    BY DEF NothingIsLeft
  <2>1. LayersFollow(x) /\ setup.backend \in {"xhr", "testing"}
    BY DEF ExchangeInv, Sound, Setups
  <2>. QED
    BY <2>1 DEF LayersFollow, Finished
<1>. QED
  BY <1>1, ExchangesAreSound, PTL

\* The events of an exchange come in their order, it completes only with an answer that
\* its subscriber saw last, and a good answer fails only where its body is not of the type
\* asked for (onLoad(), onDownProgress() and the layers above them).
THEOREM EventsEndInOrder == Spec => []AnswersEndInOrder
<1>1. ExchangeInv => AnswersEndInOrder
  <2>. SUFFICES ASSUME ExchangeInv, NEW s \in Subscriptions, NEW x, x = exchange[s]
                PROVE  /\ setup.backend = "xhr" =>
                            /\ InOrder(x.got)
                            /\ ~OnServer => Headed(x.got)
                       /\ EndIsShown(x)
    BY DEF AnswersEndInOrder, EndIsShown, Headed
  <2>1. Sound(x) /\ x.got \in Seq(Events)
    BY DEF ExchangeInv, Exchanges
  <2>2. OnServer => InOrder(x.got)
    <3>1. OnServer => Len(x.got) <= 1 /\ Len(x.got) \in Nat
      BY <2>1 DEF Sound, EndIsShown
    <3>. QED
      BY <3>1 DEF InOrder
  <2>. QED
    BY <2>1, <2>2 DEF Sound, EventsInOrder
<1>. QED
  BY <1>1, ExchangesAreSound, PTL

\* The subscriber gets what the signature it called declares, in kind and in the type of
\* the body (request() behind every signature, onLoad() and _maybeConvertBody()).
THEOREM SignaturesAreKept == Spec => []DeclaredIsDelivered
<1>1. ExchangeInv => DeclaredIsDelivered
  <2>. SUFFICES ASSUME ExchangeInv, NEW s \in Subscriptions,
                       NEW i \in 1..Len(exchange[s].got), NEW event, event = exchange[s].got[i]
                PROVE  /\ event.kind \in DeclaredKinds(call)
                       /\ event.kind = "Body" /\ ~DeclaresJson(call) =>
                            event.body \in DeclaredBodies(call)
                       /\ event.kind = "Response" /\ ~OfItsOwn(exchange[s]) =>
                            event.body \in DeclaredBodies(call)
    BY DEF DeclaredIsDelivered, OfItsOwn
  <2>1. EventDeclared(exchange[s], event)
    BY DEF ExchangeInv, Sound
  <2>2. DeclaredBodies(call) = {request.type, "null"}
    BY RequestIs DEF ExchangeInv, DeclaredBodies, DeclaresJson
  <2>3. ~DeclaresJson(call) => request.type # "json"
    BY RequestIs DEF ExchangeInv
  <2>. QED
    BY <2>1, <2>2, <2>3 DEF EventDeclared, BodyFits
<1>. QED
  BY <1>1, ExchangesAreSound, PTL

(***************************************************************************)
(* HttpCollections: definitions by recursion over a list                   *)
(***************************************************************************)
\* A set of natural numbers that is not empty has a least element.
LEMMA Smallest ==
  ASSUME NEW T \in SUBSET Nat, T # {}
  PROVE  \E x \in T : \A y \in T : x <= y
<1> DEFINE R == {ss \in Nat \X Nat : ss[1] < ss[2]}
<1>1. IsWellFoundedOn(R, Nat)
  BY NatLessThanWellFounded DEF OpToRel
<1>2. PICK x \in T : \A y \in T : ~ (<<y, x>> \in R)
  <2> HIDE DEF R
  <2> QED BY <1>1, WFMin
<1>3. ASSUME NEW y \in T PROVE x <= y
  <2>1. <<y, x>> \in Nat \X Nat /\ <<y, x>>[1] = y /\ <<y, x>>[2] = x
    OBVIOUS
  <2>2. ~(y < x)
    BY <1>2, <2>1
  <2> QED BY <2>2
<1> QED BY <1>3

\* What holds of 0, and of a number whenever it holds of the one before, holds of all.
LEMMA AllNumbers ==
  ASSUME NEW N \in Nat, NEW H \in SUBSET (0..N), 0 \in H, \A d \in 1..N : d - 1 \in H => d \in H
  PROVE  H = 0..N
<1> SUFFICES ASSUME 0..N \ H # {} PROVE FALSE
  OBVIOUS
<1>1. PICK m \in 0..N \ H : \A y \in 0..N \ H : m <= y
  <2>1. 0..N \ H \in SUBSET Nat
    OBVIOUS
  <2> QED BY <2>1, Smallest
<1>2. m \in 1..N /\ m - 1 \in 0..N /\ ~(m <= m - 1)
  OBVIOUS
<1>3. m - 1 \in H
  BY <1>1, <1>2
<1> QED BY <1>2, <1>3

\* A function of the numbers up to N may be defined at each from what it is at the one
\* before: G says what it is then.
Follows(f, N, V, z, G) ==
  f \in [0..N -> V] /\ f[0] = z /\ \A d \in 1..N : f[d] = G[d][f[d - 1]]

LEMMA FoldIsDefined ==
  ASSUME NEW N \in Nat, NEW V, NEW z \in V, NEW G \in [1..N -> [V -> V]]
  PROVE  \E f : Follows(f, N, V, z, G)
<1> DEFINE Defined(n) == \E f \in [0..n -> V] : f[0] = z /\ \A d \in 1..n : f[d] = G[d][f[d - 1]]
           H == {n \in 0..N : Defined(n)}
<1>1. Defined(0)
  <2> DEFINE g == [d \in 0..0 |-> z]
  <2>1. g \in [0..0 -> V] /\ g[0] = z
    OBVIOUS
  <2> HIDE DEF g
  <2> QED BY <2>1
<1>2. ASSUME NEW m \in 1..N, Defined(m - 1) PROVE Defined(m)
  <2>1. PICK f \in [0..(m - 1) -> V] : f[0] = z /\ \A d \in 1..(m - 1) : f[d] = G[d][f[d - 1]]
    BY <1>2
  <2> DEFINE g == [d \in 0..m |-> IF d = m THEN G[m][f[m - 1]] ELSE f[d]]
  <2>2. g \in [0..m -> V] /\ g[0] = z
    BY <2>1
  <2>3. ASSUME NEW d \in 1..m PROVE g[d] = G[d][g[d - 1]]
    <3>1. g[d - 1] = f[d - 1] /\ d - 1 \in 0..(m - 1)
      OBVIOUS
    <3>2. CASE d = m
      <4>1. g[m] = G[m][f[m - 1]]
        OBVIOUS
      <4> HIDE DEF g
      <4> QED BY <3>1, <3>2, <4>1
    <3>3. CASE d # m
      <4>1. g[d] = f[d] /\ d \in 1..(m - 1)
        BY <3>3
      <4> HIDE DEF g
      <4> QED BY <2>1, <3>1, <4>1
    <3> QED BY <3>2, <3>3
  <2> HIDE DEF g
  <2> QED BY <2>2, <2>3
<1>3. H \in SUBSET (0..N) /\ 0 \in H /\ \A d \in 1..N : d - 1 \in H => d \in H
  <2> HIDE DEF Defined
  <2> QED BY <1>1, <1>2
<1>4. N \in H
  <2> HIDE DEF H
  <2>1. H = 0..N
    BY <1>3, AllNumbers
  <2> QED BY <2>1
<1> QED BY <1>4 DEF Follows

-----------------------------------------------------------------------------
(***************************************************************************)
(* HttpCollections: what an update does                                    *)
(***************************************************************************)

\* A list keeps its type when values are left out of it.
LEMMA WithoutIs ==
  ASSUME NEW v, NEW list \in Seq(Values)
  PROVE  Without(v, list) \in Seq(Values) /\ (list = <<>> => Without(v, list) = <<>>)
<1> DEFINE N == Len(list)
           V == Seq(Values)
           z == <<>>
           G == [k \in 1..N |-> [t \in V |-> IF list[k] \in Within[v] THEN t ELSE Append(t, list[k])]]
           body(g) == [k \in 0..N |->
             IF k = 0 THEN <<>> ELSE IF list[k] \in Within[v] THEN g[k - 1] ELSE Append(g[k - 1], list[k])]
           kept == CHOOSE g : g = body(g)
           H == {k \in 0..N : kept[k] \in V}
<1>1. N \in Nat /\ z \in V /\ G \in [1..N -> [V -> V]]
  OBVIOUS
<1>2. PICK f : Follows(f, N, V, z, G)
  <2> HIDE DEF V, G, N, z
  <2> QED BY <1>1, FoldIsDefined
<1>3. \A k \in 1..N : f[k - 1] \in V /\ f[k] = G[k][f[k - 1]]
  <2> HIDE DEF V, G, N, z
  <2> QED BY <1>1, <1>2 DEF Follows
<1>4. f = body(f)
  <2>1. \A k \in 1..N : f[k] = IF list[k] \in Within[v] THEN f[k - 1] ELSE Append(f[k - 1], list[k])
    <3> HIDE DEF V, N
    <3> QED BY <1>3
  <2>2. f = [k \in 0..N |-> f[k]] /\ f[0] = <<>>
    BY <1>2 DEF Follows
  <2> HIDE DEF V, G
  <2> QED BY <2>1, <2>2
<1>5. kept = body(kept)
  <2> HIDE DEF body
  <2> QED BY <1>4
<1>6. Without(v, list) = kept[N]
  BY DEF Without
<1>7. kept[0] = <<>> /\ \A k \in 1..N : kept[k] = IF list[k] \in Within[v] THEN kept[k - 1] ELSE Append(kept[k - 1], list[k])
  <2> HIDE DEF kept, N
  <2>1. \A k \in 0..N : kept[k] =
          IF k = 0 THEN <<>> ELSE IF list[k] \in Within[v] THEN kept[k - 1] ELSE Append(kept[k - 1], list[k])
    BY <1>5
  <2>2. 0 \in 0..N /\ \A k \in 1..N : k \in 0..N /\ k # 0
    BY <1>1
  <2> HIDE DEF body
  <2> QED BY <2>1, <2>2
<1>8. 0 \in H /\ \A d \in 1..N : d - 1 \in H => d \in H
  <2>1. \A d \in 1..N : d \in 0..N /\ list[d] \in Values
    OBVIOUS
  <2>2. z \in V /\ \A t \in V : \A x \in Values : Append(t, x) \in V
    OBVIOUS
  <2> HIDE DEF kept, body, G, V, N
  <2>3. 0 \in H
    BY <1>1, <1>7, <2>2
  <2>4. ASSUME NEW d \in 1..N, kept[d - 1] \in V PROVE kept[d] \in V
    BY <1>7, <2>1, <2>2, <2>4
  <2> QED BY <2>1, <2>3, <2>4
<1>9. H = 0..N
  <2>1. H \in SUBSET (0..N)
    OBVIOUS
  <2> HIDE DEF H, N
  <2> QED BY <1>1, <1>8, <2>1, AllNumbers
<1>10. N \in H
  <2> HIDE DEF H, N
  <2> QED BY <1>1, <1>9
<1>11. list = <<>> => N = 0
  OBVIOUS
<1> HIDE DEF kept, N
<1> QED BY <1>6, <1>7, <1>10, <1>11

\* So does a list that loses its first such value, and an empty one has none to lose.
LEMMA RemoveFirstIs ==
  ASSUME NEW v, NEW list \in Seq(Values)
  PROVE  RemoveFirst(list, v) \in Seq(Values) /\ (list = <<>> => RemoveFirst(list, v) = <<>>)
<1> DEFINE T == {i \in 1..Len(list) : list[i] = v}
<1>1. CASE T = {}
  <2>1. RemoveFirst(list, v) = list
    BY <1>1 DEF RemoveFirst
  <2> QED BY <2>1
<1>2. CASE T # {}
  <2>1. SelectInSeq(list, LAMBDA x : x = v) = Min(T)
    BY <1>2 DEF SelectInSeq
  <2>2. Min(T) \in T
    <3>1. T \in SUBSET Nat
      OBVIOUS
    <3> HIDE DEF T
    <3> QED BY <1>2, <3>1, Smallest DEF Min
  <2>3. RemoveFirst(list, v) = RemoveAt(list, Min(T))
    BY <1>2, <2>1 DEF RemoveFirst
  <2>4. list # <<>>
    BY <1>2
  <2> DEFINE i == Min(T)
  <2> HIDE DEF i
  <2>5. i \in 1..Len(list) /\ RemoveFirst(list, v) = RemoveAt(list, i)
    BY <2>2, <2>3 DEF i
  <2> QED BY <2>4, <2>5 DEF RemoveAt
<1> QED BY <1>1, <1>2

Maps == UNION {[S -> Nat] : S \in SUBSET Names}
Heaps == Seq(Seq(Values))

\* A map and a heap in which every name of the map finds an array.
States == {s \in [map : Maps, heap : Heaps] : \A n \in DOMAIN s.map : s.map[n] \in 1..Len(s.heap)}

LEMMA UpdatesAre ==
  ASSUME HttpAssumption, class \in Classes, NEW u \in UpdatesOf(class)
  PROVE  /\ u.op \in {"append", "set", "delete"} /\ u.name \in Names /\ u.values \in Seq(Values)
         /\ class = "HttpParams" /\ u.op # "delete" => u.values # <<>>
         /\ class \in {"HttpHeaders", "HttpParams"}
<1>1. \A v \in Values : <<v>> \in Seq(Values) /\ <<v>> # <<>>
  OBVIOUS
<1>2. <<>> \in Seq(Values)
  OBVIOUS
<1> QED BY <1>1, <1>2 DEF UpdatesOf, HttpAssumption

LEMMA StateIs ==
  ASSUME NEW s \in States
  PROVE  /\ s = State(s.map, s.heap) /\ s.heap \in Heaps /\ Len(s.heap) \in Nat
         /\ DOMAIN s.map \in SUBSET Names
         /\ s.map = [n \in DOMAIN s.map |-> s.map[n]]
         /\ \A n \in DOMAIN s.map : s.map[n] \in 1..Len(s.heap) /\ s.heap[s.map[n]] \in Seq(Values)
BY DEF States, Maps, Heaps, State

LEMMA StateMade ==
  ASSUME NEW S \in SUBSET Names, NEW m, m = [n \in S |-> m[n]], NEW h \in Heaps,
         \A n \in S : m[n] \in 1..Len(h)
  PROVE  State(m, h) \in States
<1>1. DOMAIN m = S
  OBVIOUS
<1>2. Len(h) \in Nat
  BY DEF Heaps
<1>3. \A n \in S : m[n] \in Nat
  BY <1>2
<1>4. m \in [S -> Nat]
  BY <1>3
<1>5. m \in Maps
  BY <1>4 DEF Maps
<1> QED BY <1>1, <1>5 DEF States, State

View(s) == [n \in DOMAIN s.map |-> s.heap[s.map[n]]]
Lost(s, name) == Restrict(View(s), DOMAIN View(s) \ {name})
Put(s, name, list) == State(s.map, [s.heap EXCEPT ![s.map[name]] = list])

\* What an update may have done: name now has the list given, in its array or in a new one,
\* or it has none.
Dropped(s, t, name) == t = State(Restrict(s.map, DOMAIN s.map \ {name}), s.heap)
Renewed(s, t, name, list) == t = State(With(s.map, name, Len(s.heap) + 1), Append(s.heap, list))

Separate(s) ==
  /\ \A n, m \in DOMAIN s.map : s.map[n] = s.map[m] => n = m
  /\ \A n \in DOMAIN s.map : s.heap[s.map[n]] # <<>>

LEMMA DroppedIs ==
  ASSUME NEW s \in States, NEW name, NEW t, Dropped(s, t, name)
  PROVE  /\ t \in States /\ t.heap = s.heap
         /\ \A n \in DOMAIN t.map : n \in DOMAIN s.map /\ t.map[n] = s.map[n]
         /\ View(t) = Lost(s, name)
         /\ Separate(s) => Separate(t)
<1> DEFINE S == DOMAIN s.map \ {name}
           m == [n \in S |-> s.map[n]]
<1>1. t = State(m, s.heap) /\ t.map = m /\ t.heap = s.heap
  BY DEF Dropped, Restrict, State
<1>2. DOMAIN m = S /\ \A n \in S : m[n] = s.map[n] /\ n \in DOMAIN s.map
  OBVIOUS
<1>3. t \in States
  <2>1. s.heap \in Heaps /\ S \in SUBSET Names /\ \A n \in S : m[n] \in 1..Len(s.heap)
    BY StateIs
  <2>2. m = [n \in S |-> m[n]]
    OBVIOUS
  <2> HIDE DEF m, S
  <2> QED BY <1>1, <2>1, <2>2, StateMade
<1>4. View(t) = Lost(s, name)
  BY <1>1 DEF View, Lost, Restrict
<1>5. Separate(s) => Separate(t)
  BY <1>1, <1>2 DEF Separate
<1> QED BY <1>1, <1>2, <1>3, <1>4, <1>5

LEMMA RenewedIs ==
  ASSUME NEW s \in States, NEW name \in Names, NEW list \in Seq(Values), NEW t, Renewed(s, t, name, list)
  PROVE  /\ t \in States /\ Len(t.heap) = Len(s.heap) + 1
         /\ \A p \in 1..Len(s.heap) : t.heap[p] = s.heap[p]
         /\ \A n \in DOMAIN t.map :
              \/ n = name /\ t.map[n] = Len(s.heap) + 1
              \/ n # name /\ n \in DOMAIN s.map /\ t.map[n] = s.map[n]
         /\ View(t) = With(View(s), name, list)
         /\ Separate(s) /\ list # <<>> => Separate(t)
<1> DEFINE S == DOMAIN s.map \union {name}
           m == [n \in S |-> IF n = name THEN Len(s.heap) + 1 ELSE s.map[n]]
           h == Append(s.heap, list)
<1>1. t = State(m, h) /\ t.map = m /\ t.heap = h
  <2>1. With(s.map, name, Len(s.heap) + 1) = m
    BY DEF With
  <2> QED BY <2>1 DEF Renewed, State
<1>2. DOMAIN m = S /\ m[name] = Len(s.heap) + 1 /\ \A n \in S : n # name => n \in DOMAIN s.map /\ m[n] = s.map[n]
  OBVIOUS
<1>3. /\ s.heap \in Heaps /\ DOMAIN s.map \in SUBSET Names /\ Len(s.heap) \in Nat
      /\ \A n \in DOMAIN s.map : s.map[n] \in 1..Len(s.heap)
  BY StateIs
<1>4. h \in Heaps /\ Len(h) = Len(s.heap) + 1 /\ h[Len(s.heap) + 1] = list /\ \A p \in 1..Len(s.heap) : h[p] = s.heap[p]
  BY <1>3 DEF Heaps
<1>5. t \in States
  <2>1. S \in SUBSET Names /\ \A n \in S : m[n] \in 1..Len(h)
    <3>1. S \in SUBSET Names
      BY <1>3
    <3> HIDE DEF m, h
    <3> QED BY <1>2, <1>3, <1>4, <3>1
  <2>2. m = [n \in S |-> m[n]]
    OBVIOUS
  <2> HIDE DEF m, S, h
  <2> QED BY <1>1, <1>4, <2>1, <2>2, StateMade
<1>6. View(t) = With(View(s), name, list)
  <2>1. With(View(s), name, list) = [n \in S |-> IF n = name THEN list ELSE s.heap[s.map[n]]]
    BY DEF View, With
  <2>2. ASSUME NEW n \in S PROVE h[m[n]] = IF n = name THEN list ELSE s.heap[s.map[n]]
    <3> HIDE DEF m, h
    <3> QED BY <1>2, <1>3, <1>4
  <2>3. View(t) = [n \in S |-> h[m[n]]]
    BY <1>1, <1>2 DEF View
  <2> HIDE DEF m, h, S
  <2> QED BY <2>1, <2>2, <2>3
<1>7. Separate(s) /\ list # <<>> => Separate(t)
  <2> HIDE DEF m, h
  <2> QED BY <1>1, <1>2, <1>3, <1>4 DEF Separate
<1> HIDE DEF h
<1> QED BY <1>1, <1>2, <1>4, <1>5, <1>6, <1>7

LEMMA PutIs ==
  ASSUME NEW s \in States, NEW name \in DOMAIN s.map, NEW list \in Seq(Values), NEW t, t = Put(s, name, list)
  PROVE  /\ t \in States /\ Len(t.heap) = Len(s.heap) /\ t.map = s.map
         /\ t.heap[s.map[name]] = list
         /\ \A p \in 1..Len(s.heap) : p # s.map[name] => t.heap[p] = s.heap[p]
         /\ Separate(s) => View(t) = With(View(s), name, list)
         /\ Separate(s) /\ list # <<>> => Separate(t)
<1> DEFINE h == [s.heap EXCEPT ![s.map[name]] = list]
<1>1. t = State(s.map, h) /\ t.map = s.map /\ t.heap = h
  BY DEF Put, State
<1>2. /\ s.heap \in Heaps /\ DOMAIN s.map \in SUBSET Names /\ s.map = [n \in DOMAIN s.map |-> s.map[n]]
      /\ \A n \in DOMAIN s.map : s.map[n] \in 1..Len(s.heap)
  BY StateIs
<1>3. /\ h \in Heaps /\ Len(h) = Len(s.heap) /\ h[s.map[name]] = list
      /\ \A p \in 1..Len(s.heap) : p # s.map[name] => h[p] = s.heap[p]
  BY <1>2 DEF Heaps
<1>4. t \in States
  <2> DEFINE S == DOMAIN s.map
             m == s.map
  <2>1. t = State(m, h) /\ S \in SUBSET Names /\ m = [n \in S |-> m[n]] /\ \A n \in S : m[n] \in 1..Len(h)
    BY <1>1, <1>2, <1>3
  <2> HIDE DEF h, m, S
  <2> QED BY <1>3, <2>1, StateMade
<1>5. ASSUME Separate(s) PROVE View(t) = With(View(s), name, list)
  <2>1. With(View(s), name, list) = [n \in DOMAIN s.map |-> IF n = name THEN list ELSE s.heap[s.map[n]]]
    BY DEF View, With
  <2>2. \A n \in DOMAIN s.map : h[s.map[n]] = IF n = name THEN list ELSE s.heap[s.map[n]]
    <3> HIDE DEF h
    <3> QED BY <1>2, <1>3, <1>5 DEF Separate
  <2>3. View(t) = [n \in DOMAIN s.map |-> h[s.map[n]]]
    BY <1>1 DEF View
  <2> HIDE DEF h
  <2> QED BY <2>1, <2>2, <2>3
<1>6. Separate(s) /\ list # <<>> => Separate(t)
  <2> HIDE DEF h
  <2> QED BY <1>1, <1>2, <1>3 DEF Separate
<1> HIDE DEF h
<1> QED BY <1>1, <1>3, <1>4, <1>5, <1>6

LEMMA StateExcept ==
  ASSUME NEW s \in States, NEW x
  PROVE  [s EXCEPT !.map = x] = State(x, s.heap) /\ [s EXCEPT !.heap = x] = State(s.map, x)
<1>1. ASSUME NEW m, NEW h
      PROVE  [State(m, h) EXCEPT !.map = x] = State(x, h) /\ [State(m, h) EXCEPT !.heap = x] = State(m, x)
  BY DEF State
<1>2. s = State(s.map, s.heap)
  BY StateIs
<1> DEFINE m == s.map
           h == s.heap
<1>3. s = State(m, h)
  BY <1>2
<1> HIDE DEF m, h
<1>4. [s EXCEPT !.map = x] = State(x, h) /\ [s EXCEPT !.heap = x] = State(m, x)
  BY <1>1, <1>3
<1> QED BY <1>4 DEF m, h

\* What an update does to a map and a heap, and what it means for the view of them.
Untouched(s, t, u) == t = s /\ (Separate(s) => Meaning(class, u, View(s)) = View(s))
Drops(s, t, u) ==
  Dropped(s, t, u.name) /\ Meaning(class, u, View(s)) = Lost(s, u.name)
Renews(s, t, u, list) ==
  list # <<>> /\ Renewed(s, t, u.name, list) /\ Meaning(class, u, View(s)) = With(View(s), u.name, list)
Puts(s, t, u, list) ==
  /\ u.name \in DOMAIN s.map /\ InPlace(u) /\ list # <<>> /\ t = Put(s, u.name, list)
  /\ Meaning(class, u, View(s)) = With(View(s), u.name, list)
Empties(s, t, u) ==
  /\ u.name \in DOMAIN s.map /\ InPlace(u) /\ Dropped(Put(s, u.name, <<>>), t, u.name)
  /\ Meaning(class, u, View(s)) = Lost(s, u.name)

LEMMA MeaningIs ==
  ASSUME NEW s \in States, NEW name, NEW list \in Seq(Values)
  PROVE  /\ DOMAIN View(s) = DOMAIN s.map
         /\ name \in DOMAIN s.map => View(s)[name] = s.heap[s.map[name]] /\ View(s)[name] \in Seq(Values)
         /\ name \notin DOMAIN s.map => Lost(s, name) = View(s)
         /\ name \in DOMAIN s.map => With(View(s), name, View(s)[name]) = View(s)
<1>1. \A n \in DOMAIN s.map : s.heap[s.map[n]] \in Seq(Values)
  BY StateIs
<1> QED BY <1>1 DEF View, Lost, Restrict, With

LEMMA ApplyIs ==
  ASSUME HttpAssumption, class \in Classes, NEW u \in UpdatesOf(class), NEW s \in States,
         NEW t, t = Apply(s, u)
  PROVE  \/ Untouched(s, t, u) \/ Drops(s, t, u) \/ Empties(s, t, u)
         \/ \E list \in Seq(Values) : Renews(s, t, u, list) \/ Puts(s, t, u, list)
<1> DEFINE has == u.name \in DOMAIN s.map
           old == IF has THEN View(s)[u.name] ELSE <<>>
           lost == Lost(s, u.name)
<1>1. /\ u.op \in {"append", "set", "delete"} /\ u.name \in Names /\ u.values \in Seq(Values)
      /\ class = "HttpParams" /\ u.op # "delete" => u.values # <<>>
      /\ class \in {"HttpHeaders", "HttpParams"}
  BY UpdatesAre
<1>2. /\ DOMAIN View(s) = DOMAIN s.map /\ old \in Seq(Values)
      /\ has => old = s.heap[s.map[u.name]]
      /\ ~has => lost = View(s) /\ old = <<>>
      /\ has => With(View(s), u.name, old) = View(s)
      /\ Separate(s) /\ has => old # <<>>
  <2>1. <<>> \in Seq(Values)
    OBVIOUS
  <2> QED BY <2>1, MeaningIs DEF Separate
<1>3. ASSUME NEW list \in Seq(Values)
      PROVE  /\ SetFresh(s, u.name, list) = State(With(s.map, u.name, Len(s.heap) + 1), Append(s.heap, list))
             /\ Renewed(s, SetFresh(s, u.name, list), u.name, list)
             /\ Dropped(s, Drop(s, u.name), u.name)
  BY StateExcept DEF SetFresh, Drop, Dropped, Renewed
<1>4. CASE u.op # "delete"
  <2>1. CASE class = "HttpHeaders" /\ u.values = <<>>
    <3>1. t = s
      BY <1>4, <2>1 DEF Apply, ApplyToHeaders
    <3>2. old \o u.values = old
      BY <1>2, <2>1
    <3>3. Meaning(class, u, View(s)) = IF old = <<>> THEN lost ELSE With(View(s), u.name, old)
      BY <1>1, <1>2, <1>4, <2>1, <3>2 DEF Meaning, Lost
    <3> QED BY <1>2, <3>1, <3>3 DEF Untouched
  <2>2. CASE ~(class = "HttpHeaders" /\ u.values = <<>>)
    <3>1. t = AppendOrSet(s, u) /\ u.values # <<>>
      BY <1>1, <1>4, <2>2 DEF Apply, ApplyToHeaders, ApplyToParams
    <3>2. CASE u.op = "append" /\ has
      <4> DEFINE list == old \o u.values
      <4>1. list \in Seq(Values) /\ list # <<>>
        BY <1>1, <1>2, <3>1
      <4>2. t = Put(s, u.name, list)
        BY <1>2, <3>1, <3>2, StateIs DEF AppendOrSet, PushOnto, Put, State
      <4>3. Meaning(class, u, View(s)) = With(View(s), u.name, list)
        BY <1>2, <3>2, <4>1 DEF Meaning
      <4>4. Puts(s, t, u, list)
        BY <3>2, <4>1, <4>2, <4>3 DEF Puts, InPlace
      <4> QED BY <4>1, <4>4
    <3>3. CASE ~(u.op = "append" /\ has)
      <4>1. t = SetFresh(s, u.name, u.values)
        BY <3>1, <3>3 DEF AppendOrSet
      <4>2. u.op = "append" => old \o u.values = u.values
        BY <1>1, <1>2, <3>3
      <4>3. Meaning(class, u, View(s)) = With(View(s), u.name, u.values)
        BY <1>1, <1>2, <1>4, <3>1, <4>2 DEF Meaning
      <4>4. Renews(s, t, u, u.values)
        BY <1>1, <1>3, <3>1, <4>1, <4>3 DEF Renews
      <4> QED BY <1>1, <4>4
    <3> QED BY <3>2, <3>3
  <2> QED BY <2>1, <2>2
<1>5. CASE u.op = "delete" /\ u.values = <<>>
  <2>1. t = Drop(s, u.name)
    BY <1>1, <1>5 DEF Apply, ApplyToHeaders, ApplyToParams
  <2>2. Meaning(class, u, View(s)) = lost
    BY <1>5 DEF Meaning, Lost
  <2> QED BY <1>1, <1>3, <2>1, <2>2 DEF Drops
<1>6. CASE u.op = "delete" /\ u.values # <<>> /\ class = "HttpHeaders"
  <2> DEFINE list == Without(u.values[1], old)
  <2>1. list \in Seq(Values) /\ (old = <<>> => list = <<>>)
    BY <1>2, WithoutIs
  <2>2. Meaning(class, u, View(s)) = IF list = <<>> THEN lost ELSE With(View(s), u.name, list)
    BY <1>2, <1>6 DEF Meaning, Lost
  <2>3. CASE ~has
    <3>1. t = s
      BY <1>6, <2>3 DEF Apply, ApplyToHeaders
    <3> QED BY <1>2, <2>1, <2>2, <2>3, <3>1 DEF Untouched
  <2>4. CASE has
    <3>1. t = IF list = <<>> THEN Drop(s, u.name) ELSE SetFresh(s, u.name, list)
      BY <1>2, <1>6, <2>4 DEF Apply, ApplyToHeaders
    <3> HIDE DEF list
    <3>2. CASE list = <<>>
      BY <1>3, <2>1, <2>2, <3>1, <3>2 DEF Drops
    <3>3. CASE list # <<>>
      <4>1. Renews(s, t, u, list)
        BY <1>3, <2>1, <2>2, <3>1, <3>3 DEF Renews
      <4> QED BY <2>1, <4>1
    <3> QED BY <3>2, <3>3
  <2> QED BY <2>3, <2>4
<1>7. CASE u.op = "delete" /\ u.values # <<>> /\ class = "HttpParams"
  <2> DEFINE list == RemoveFirst(old, u.values[1])
  <2>1. list \in Seq(Values) /\ (old = <<>> => list = <<>>)
    BY <1>2, RemoveFirstIs
  <2>2. Meaning(class, u, View(s)) = IF list = <<>> THEN lost ELSE With(View(s), u.name, list)
    BY <1>2, <1>7 DEF Meaning, Lost
  <2>3. CASE ~has
    <3>1. t = Drop(s, u.name)
      BY <1>7, <2>3 DEF Apply, ApplyToParams
    <3> QED BY <1>1, <1>2, <1>3, <2>1, <2>2, <2>3, <3>1 DEF Drops
  <2>4. CASE has
    <3> DEFINE spliced == Put(s, u.name, list)
    <3>1. [s EXCEPT !.heap[s.map[u.name]] = RemoveFirst(@, u.values[1])] = spliced
      <4> DEFINE x == RemoveFirst(s.heap[s.map[u.name]], u.values[1])
      <4>1. x = list
        BY <1>2, <2>4
      <4> HIDE DEF x, list
      <4>2. [s EXCEPT !.heap[s.map[u.name]] = x] = [s EXCEPT !.heap = [s.heap EXCEPT ![s.map[u.name]] = x]]
        OBVIOUS
      <4>3. [s EXCEPT !.heap[s.map[u.name]] = x] = Put(s, u.name, x)
        BY <4>2, StateExcept DEF Put
      <4> QED BY <4>1, <4>3 DEF x
    <3>2. spliced.heap[s.map[u.name]] = list /\ spliced \in States /\ spliced.map = s.map
      BY <2>1, <2>4, PutIs
    <3>3. t = IF list = <<>> THEN Drop(spliced, u.name) ELSE spliced
      BY <1>1, <1>7, <2>4, <3>1, <3>2 DEF Apply, ApplyToParams
    <3>4. InPlace(u)
      BY <1>7 DEF InPlace
    <3> HIDE DEF list
    <3>5. CASE list = <<>>
      <4>1. Dropped(spliced, t, u.name)
        BY <3>2, <3>3, <3>5, StateIs DEF Drop, Dropped, State
      <4> QED BY <2>2, <2>4, <3>4, <3>5, <4>1 DEF Empties
    <3>6. CASE list # <<>>
      <4>1. Puts(s, t, u, list)
        BY <2>2, <2>4, <3>3, <3>4, <3>6 DEF Puts
      <4> QED BY <2>1, <4>1
    <3> QED BY <3>5, <3>6
  <2> QED BY <2>3, <2>4
<1> QED BY <1>1, <1>4, <1>5, <1>6, <1>7

Unshared(s) == \A n, m \in DOMAIN s.map : s.map[n] = s.map[m] => n = m

\* t has grown out of s by the first k updates: a name kept its array or has one that is
\* new, and an array that is no longer what it was had an update in place under its name.
Grown(s, t, updates, k) ==
  /\ Len(t.heap) >= Len(s.heap)
  /\ Unshared(s) => Unshared(t)
  /\ \A n \in DOMAIN t.map : t.map[n] > Len(s.heap) \/ (n \in DOMAIN s.map /\ t.map[n] = s.map[n])
  /\ \A p \in 1..Len(s.heap) : t.heap[p] # s.heap[p] =>
       \E j \in 1..k : InPlace(updates[j]) /\ updates[j].name \in DOMAIN s.map /\ s.map[updates[j].name] = p

\* One update: what it does to arrays and names, and that it does what it means where no
\* name shares its array with another.
LEMMA ApplyStep ==
  ASSUME HttpAssumption, class \in Classes, NEW u \in UpdatesOf(class), NEW s \in States,
         NEW t, t = Apply(s, u)
  PROVE  /\ t \in States /\ Len(t.heap) >= Len(s.heap)
         /\ \A n \in DOMAIN t.map :
              \/ n = u.name /\ t.map[n] = Len(s.heap) + 1
              \/ n \in DOMAIN s.map /\ t.map[n] = s.map[n]
         /\ \A p \in 1..Len(s.heap) : t.heap[p] # s.heap[p] =>
              InPlace(u) /\ u.name \in DOMAIN s.map /\ s.map[u.name] = p
         /\ Separate(s) => Separate(t) /\ View(t) = Meaning(class, u, View(s))
<1>1. u.name \in Names
  BY UpdatesAre
<1>2. Len(s.heap) \in Nat /\ \A n \in DOMAIN s.map : s.map[n] \in 1..Len(s.heap)
  BY StateIs
<1>3. CASE Untouched(s, t, u)
  BY <1>2, <1>3 DEF Untouched
<1>4. CASE Drops(s, t, u)
  <2>1. Dropped(s, t, u.name) /\ Meaning(class, u, View(s)) = Lost(s, u.name)
    BY <1>4 DEF Drops
  <2>2. /\ t \in States /\ t.heap = s.heap
        /\ \A n \in DOMAIN t.map : n \in DOMAIN s.map /\ t.map[n] = s.map[n]
        /\ View(t) = Lost(s, u.name)
        /\ Separate(s) => Separate(t)
    BY <2>1, DroppedIs
  <2> QED BY <1>2, <2>1, <2>2
<1>5. ASSUME NEW list \in Seq(Values), Renews(s, t, u, list)
      PROVE  /\ t \in States /\ Len(t.heap) >= Len(s.heap)
             /\ \A n \in DOMAIN t.map :
                  \/ n = u.name /\ t.map[n] = Len(s.heap) + 1
                  \/ n \in DOMAIN s.map /\ t.map[n] = s.map[n]
             /\ \A p \in 1..Len(s.heap) : t.heap[p] = s.heap[p]
             /\ Separate(s) => Separate(t) /\ View(t) = Meaning(class, u, View(s))
  BY <1>1, <1>2, <1>5, RenewedIs DEF Renews
<1>6. ASSUME NEW list \in Seq(Values), Puts(s, t, u, list)
      PROVE  /\ t \in States /\ Len(t.heap) >= Len(s.heap) /\ t.map = s.map
             /\ \A p \in 1..Len(s.heap) : t.heap[p] # s.heap[p] => s.map[u.name] = p
             /\ InPlace(u) /\ u.name \in DOMAIN s.map
             /\ Separate(s) => Separate(t) /\ View(t) = Meaning(class, u, View(s))
  BY <1>2, <1>6, PutIs DEF Puts
<1>7. CASE Empties(s, t, u)
  <2> DEFINE put == Put(s, u.name, <<>>)
  <2>1. <<>> \in Seq(Values) /\ u.name \in DOMAIN s.map /\ InPlace(u) /\ Dropped(put, t, u.name)
    BY <1>7 DEF Empties
  <2>2. /\ put \in States /\ Len(put.heap) = Len(s.heap) /\ put.map = s.map
        /\ \A p \in 1..Len(s.heap) : p # s.map[u.name] => put.heap[p] = s.heap[p]
        /\ put.heap[s.map[u.name]] = <<>>
        /\ Separate(s) => View(put) = With(View(s), u.name, <<>>)
    <3> DEFINE list == <<>>
    <3>1. list \in Seq(Values) /\ put = Put(s, u.name, list)
      OBVIOUS
    <3> HIDE DEF put
    <3>2. /\ put \in States /\ Len(put.heap) = Len(s.heap) /\ put.map = s.map
          /\ \A p \in 1..Len(s.heap) : p # s.map[u.name] => put.heap[p] = s.heap[p]
          /\ put.heap[s.map[u.name]] = list
          /\ Separate(s) => View(put) = With(View(s), u.name, list)
      <4> HIDE DEF list
      <4> QED BY <2>1, <3>1, PutIs
    <3> QED BY <3>2
  <2> HIDE DEF put
  <2>3. /\ t \in States /\ t.heap = put.heap
        /\ \A n \in DOMAIN t.map : n \in DOMAIN s.map /\ t.map[n] = s.map[n]
        /\ View(t) = Lost(put, u.name)
    BY <2>1, <2>2, DroppedIs
  <2>4. t.map = Restrict(s.map, DOMAIN s.map \ {u.name})
    BY <2>1, <2>2 DEF Dropped, State
  <2>5. DOMAIN t.map = DOMAIN s.map \ {u.name}
    BY <2>4 DEF Restrict
  <2>6. ASSUME Separate(s) PROVE View(t) = Meaning(class, u, View(s))
    <3>1. DOMAIN View(s) = DOMAIN s.map
      BY DEF View
    <3>2. Restrict(With(View(s), u.name, <<>>), DOMAIN With(View(s), u.name, <<>>) \ {u.name})
            = Lost(s, u.name)
      BY <2>1, <3>1 DEF Lost, Restrict, With
    <3> QED BY <1>7, <2>2, <2>3, <2>6, <3>2 DEF Empties, Lost
  <2>7. ASSUME Separate(s) PROVE Separate(t)
    BY <1>2, <2>1, <2>2, <2>3, <2>5, <2>7 DEF Separate
  <2> QED BY <1>2, <2>1, <2>2, <2>3, <2>6, <2>7
<1> QED BY <1>2, <1>3, <1>4, <1>5, <1>6, <1>7, ApplyIs

\* All updates: there is a state after each.
LEMMA UpdatedIs ==
  ASSUME HttpAssumption, class \in Classes, NEW s \in States, NEW updates \in Seq(UpdatesOf(class))
  PROVE  \E made \in [0..Len(updates) -> States] :
           /\ made[0] = s /\ \A k \in 1..Len(updates) : made[k] = Apply(made[k - 1], updates[k])
           /\ Updated(s, updates) = made[Len(updates)]
<1> DEFINE N == Len(updates)
           G == [k \in 1..N |-> [t \in States |-> Apply(t, updates[k])]]
           body(g) == [k \in 0..N |-> IF k = 0 THEN s ELSE Apply(g[k - 1], updates[k])]
           made == CHOOSE g : g = body(g)
           H == {k \in 0..N : made[k] \in States}
<1>1. N \in Nat /\ \A k \in 1..N : updates[k] \in UpdatesOf(class) /\ k \in 0..N /\ k - 1 \in 0..N /\ k # 0
  OBVIOUS
<1>2. G \in [1..N -> [States -> States]]
  <2> HIDE DEF N
  <2> QED BY <1>1, ApplyStep
<1>3. PICK f : Follows(f, N, States, s, G)
  <2> HIDE DEF G, N
  <2> QED BY <1>1, <1>2, FoldIsDefined
<1>4. f \in [0..N -> States] /\ f[0] = s /\ \A k \in 1..N : f[k] = Apply(f[k - 1], updates[k])
  <2> HIDE DEF N
  <2>1. f \in [0..N -> States] /\ f[0] = s /\ \A k \in 1..N : f[k] = G[k][f[k - 1]]
    BY <1>3 DEF Follows
  <2> QED BY <1>1, <2>1
<1>5. f = body(f)
  <2> HIDE DEF N, G
  <2> QED BY <1>4
<1>6. made = body(made)
  <2> HIDE DEF body
  <2> QED BY <1>5
<1>7. Updated(s, updates) = made[N]
  BY DEF Updated
<1>8. made[0] = s /\ \A k \in 1..N : made[k] = Apply(made[k - 1], updates[k])
  <2> HIDE DEF made, N
  <2>1. \A k \in 0..N : made[k] = IF k = 0 THEN s ELSE Apply(made[k - 1], updates[k])
    BY <1>6
  <2>2. 0 \in 0..N
    BY <1>1
  <2> HIDE DEF body
  <2> QED BY <1>1, <2>1, <2>2
<1>9. made = [k \in 0..N |-> made[k]]
  <2> HIDE DEF made, N
  <2> QED BY <1>6
<1> HIDE DEF made, N, body
<1>10. H = 0..N
  <2>1. 0 \in H /\ \A k \in 1..N : k - 1 \in H => k \in H
    BY <1>1, <1>8, ApplyStep
  <2>2. H \in SUBSET (0..N)
    OBVIOUS
  <2> HIDE DEF H
  <2> QED BY <1>1, <2>1, <2>2, AllNumbers
<1>11. made \in [0..N -> States]
  BY <1>9, <1>10
<1> QED BY <1>7, <1>8, <1>11 DEF N

LEMMA GrownStep ==
  ASSUME HttpAssumption, class \in Classes, NEW s \in States, NEW updates \in Seq(UpdatesOf(class)),
         NEW k \in 1..Len(updates), NEW r \in States, Grown(s, r, updates, k - 1)
  PROVE  Grown(s, Apply(r, updates[k]), updates, k)
<1> DEFINE u == updates[k]
           t == Apply(r, u)
<1>1. /\ k \in Nat /\ k # 0 /\ u \in UpdatesOf(class) /\ Len(s.heap) \in Nat /\ Len(r.heap) \in Nat
      /\ k \in 1..k /\ \A j \in 1..(k - 1) : j \in 1..k
  BY StateIs
<1>2. /\ t \in States /\ Len(t.heap) >= Len(r.heap)
      /\ \A n \in DOMAIN t.map :
           \/ n = u.name /\ t.map[n] = Len(r.heap) + 1
           \/ n \in DOMAIN r.map /\ t.map[n] = r.map[n]
      /\ \A p \in 1..Len(r.heap) : t.heap[p] # r.heap[p] =>
           InPlace(u) /\ u.name \in DOMAIN r.map /\ r.map[u.name] = p
  BY <1>1, ApplyStep
<1>3. /\ \A n \in DOMAIN r.map : r.map[n] \in 1..Len(r.heap)
      /\ \A n \in DOMAIN s.map : s.map[n] \in 1..Len(s.heap)
      /\ \A n \in DOMAIN t.map : t.map[n] \in 1..Len(t.heap)
      /\ Len(t.heap) \in Nat
  BY <1>2, StateIs
<1> HIDE DEF t
<1>4. Len(t.heap) >= Len(s.heap)
  BY <1>1, <1>2, <1>3 DEF Grown
<1>5. Unshared(s) => Unshared(t)
  BY <1>1, <1>2, <1>3 DEF Grown, Unshared
<1>6. ASSUME NEW n \in DOMAIN t.map
      PROVE  t.map[n] > Len(s.heap) \/ (n \in DOMAIN s.map /\ t.map[n] = s.map[n])
  BY <1>1, <1>2, <1>3 DEF Grown
<1>7. ASSUME NEW p \in 1..Len(s.heap), t.heap[p] # s.heap[p]
      PROVE  \E j \in 1..k : InPlace(updates[j]) /\ updates[j].name \in DOMAIN s.map /\ s.map[updates[j].name] = p
  <2>1. p \in 1..Len(r.heap)
    BY <1>1 DEF Grown
  <2>2. CASE r.heap[p] # s.heap[p]
    BY <1>1, <2>2 DEF Grown
  <2>3. CASE r.heap[p] = s.heap[p]
    <3>1. InPlace(u) /\ u.name \in DOMAIN r.map /\ r.map[u.name] = p
      BY <1>2, <1>7, <2>1, <2>3
    <3>2. ~(r.map[u.name] > Len(s.heap))
      BY <1>1, <3>1
    <3>3. u.name \in DOMAIN s.map /\ r.map[u.name] = s.map[u.name]
      BY <3>1, <3>2 DEF Grown
    <3> QED BY <1>1, <3>1, <3>3
  <2> QED BY <2>2, <2>3
<1> QED BY <1>4, <1>5, <1>6, <1>7 DEF Grown, t

LEMMA UpdatedGrows ==
  ASSUME HttpAssumption, class \in Classes, NEW s \in States, NEW updates \in Seq(UpdatesOf(class))
  PROVE  Updated(s, updates) \in States /\ Grown(s, Updated(s, updates), updates, Len(updates))
<1> DEFINE N == Len(updates)
<1>1. PICK made \in [0..N -> States] :
        /\ made[0] = s /\ \A k \in 1..N : made[k] = Apply(made[k - 1], updates[k])
        /\ Updated(s, updates) = made[N]
  BY UpdatedIs
<1> DEFINE H == {k \in 0..N : Grown(s, made[k], updates, k)}
<1>2. N \in Nat /\ \A k \in 1..N : k \in 0..N /\ k - 1 \in 0..N
  OBVIOUS
<1>3. 0 \in H
  <2>1. Grown(s, s, updates, 0)
    <3>1. Len(s.heap) \in Nat
      BY StateIs
    <3> QED BY <3>1 DEF Grown
  <2> HIDE DEF N
  <2> QED BY <1>1, <1>2, <2>1
<1>4. ASSUME NEW k \in 1..N, k - 1 \in H PROVE k \in H
  <2>1. made[k - 1] \in States /\ Grown(s, made[k - 1], updates, k - 1)
    BY <1>2, <1>4
  <2>2. Grown(s, Apply(made[k - 1], updates[k]), updates, k)
    BY <2>1, GrownStep
  <2> QED BY <1>1, <1>2, <2>2
<1>5. H = 0..N
  <2>1. H \in SUBSET (0..N)
    OBVIOUS
  <2> HIDE DEF H, N
  <2> QED BY <1>2, <1>3, <1>4, <2>1, AllNumbers
<1> HIDE DEF N
<1>6. N \in 0..N
  BY <1>2
<1> QED BY <1>1, <1>5, <1>6 DEF N

\* Some updates lead from one view to another.
Lead(c, from, updates, to) ==
  \E g : /\ g[0] = from /\ g[Len(updates)] = to
         /\ \A k \in 1..Len(updates) : g[k] = Meaning(c, updates[k], g[k - 1])

LEMMA UpdatedIsMeant ==
  ASSUME HttpAssumption, class \in Classes, NEW s \in States, Separate(s),
         NEW updates \in Seq(UpdatesOf(class)), NEW to, Lead(class, View(s), updates, to)
  PROVE  View(Updated(s, updates)) = to
<1> DEFINE N == Len(updates)
<1>1. PICK made \in [0..N -> States] :
        /\ made[0] = s /\ \A k \in 1..N : made[k] = Apply(made[k - 1], updates[k])
        /\ Updated(s, updates) = made[N]
  BY UpdatedIs
<1>2. PICK g : g[0] = View(s) /\ g[N] = to /\ \A k \in 1..N : g[k] = Meaning(class, updates[k], g[k - 1])
  BY DEF Lead
<1> DEFINE H == {k \in 0..N : Separate(made[k]) /\ View(made[k]) = g[k]}
<1>3. N \in Nat /\ \A k \in 1..N : k \in 0..N /\ k - 1 \in 0..N /\ updates[k] \in UpdatesOf(class)
  OBVIOUS
<1> HIDE DEF N
<1>4. 0 \in H /\ H \in SUBSET (0..N)
  BY <1>1, <1>2, <1>3
<1>5. ASSUME NEW k \in 1..N, k - 1 \in H PROVE k \in H
  <2>1. made[k - 1] \in States /\ Separate(made[k - 1]) /\ View(made[k - 1]) = g[k - 1] /\ k \in 0..N
    BY <1>3, <1>5
  <2>2. made[k] = Apply(made[k - 1], updates[k]) /\ updates[k] \in UpdatesOf(class)
    BY <1>1, <1>3
  <2>3. Separate(made[k]) /\ View(made[k]) = Meaning(class, updates[k], View(made[k - 1]))
    BY <2>1, <2>2, ApplyStep
  <2> QED BY <1>2, <2>1, <2>3
<1>6. H = 0..N
  <2> HIDE DEF H
  <2> QED BY <1>3, <1>4, <1>5, AllNumbers
<1>7. N \in 0..N
  BY <1>3
<1> QED BY <1>1, <1>2, <1>6, <1>7

-----------------------------------------------------------------------------
(***************************************************************************)
(* HttpCollections: the objects                                            *)
(***************************************************************************)

Views == UNION {[S -> Seq(Values)] : S \in SUBSET Names}

Collected == [map : Maps, from : Nat, updates : Seq(UpdatesOf(class))]

CollectionTypes ==
  /\ class \in Classes /\ objects \in Seq(Collected) /\ arrays \in Heaps
  /\ meant \in Seq(Views) /\ Len(meant) = Len(objects) /\ objects # <<>>

Held(i) == State(objects[i].map, arrays)

\* An object to be copied is older and needs no copy itself, nor does the first object; who
\* has still to copy has no names.
CopiesOlder ==
  /\ \A i \in 1..Len(objects) :
       /\ objects[i].from \in 0..(i - 1)
       /\ Pending(i) => ~Pending(objects[i].from) /\ DOMAIN objects[i].map = {}
  /\ objects[1].updates = <<>>

\* An array has one name, also where several objects hold it.
Named ==
  /\ \A i \in 1..Len(objects) : Held(i) \in States
  /\ \A i, j \in 1..Len(objects) : \A n \in DOMAIN objects[i].map, m \in DOMAIN objects[j].map :
       objects[i].map[n] = objects[j].map[m] => n = m

\* As long as only the first object was read, it is what it was made to be, and the updates
\* of every other object lead from it to what that one was made to be.
FirstIsMeant == Separate(Held(1)) /\ View(Held(1)) = meant[1]
NoneRead == \A j \in 2..Len(objects) : Pending(j)
UpdatesLead ==
  NoneRead =>
    /\ FirstIsMeant
    /\ \A i \in 1..Len(objects) :
         (i # 1 => objects[i].from = 1) /\ Lead(class, meant[1], objects[i].updates, meant[i])

CollectionInv == CollectionTypes /\ CopiesOlder /\ Named /\ UpdatesLead

LEMMA SetToSeqIs ==
  ASSUME NEW S, IsFiniteSet(S)
  PROVE  /\ Cardinality(S) \in Nat /\ SetToSeq(S) \in [1..Cardinality(S) -> S]
         /\ \A x \in S : \E k \in 1..Cardinality(S) : SetToSeq(S)[k] = x
<1> DEFINE n == Cardinality(S)
           f == SetToSeq(S)
<1>1. n \in Nat /\ IsFiniteSet(1..n) /\ Cardinality(1..n) = n
  BY FS_CardinalityType, FS_Interval
<1>2. \E g : g \in Injection(1..n, S)
  <2>1. ExistsBijection(1..n, S)
    BY <1>1, FS_SameCardinalityBij
  <2> QED BY <2>1 DEF ExistsBijection, Bijection
<1>3. f \in [1..n -> S] /\ IsInjective(f)
  <2>1. \E g : g \in [1..n -> S] /\ IsInjective(g)
    BY <1>2 DEF Injection
  <2> QED BY <2>1 DEF SetToSeq
<1>4. f \in Injection(1..n, S)
  BY <1>3 DEF Injection
<1> HIDE DEF f, n
<1>5. f \in Surjection(1..n, S)
  <2>1. Cardinality(1..n) = Cardinality(S)
    BY <1>1 DEF n
  <2> QED BY <1>4, <2>1, FS_Injection
<1> QED BY <1>1, <1>3, <1>5 DEF Surjection, f, n

LEMMA CollectionInitially == HttpAssumption /\ CollectionInit => CollectionInv
<1> SUFFICES ASSUME HttpAssumption, CollectionInit PROVE CollectionInv
  OBVIOUS
<1>1. PICK given \in UNION {[S -> {<<v>> : v \in Values}] : S \in {T \in SUBSET Names : IsFiniteSet(T)}} :
        LET names == SetToSeq(DOMAIN given)
            map == [n \in DOMAIN given |-> CHOOSE k \in DOMAIN names : names[k] = n]
        IN  /\ objects = <<[map |-> map, from |-> 0, updates |-> <<>>]>>
            /\ arrays = [k \in DOMAIN names |-> given[names[k]]]
            /\ meant = <<given>>
  BY DEF CollectionInit
<1> DEFINE S == DOMAIN given
           N == Cardinality(S)
           names == SetToSeq(S)
           map == [n \in S |-> CHOOSE k \in DOMAIN names : names[k] = n]
<1>2. /\ S \in SUBSET Names /\ IsFiniteSet(S) /\ given = [n \in S |-> given[n]]
      /\ \A n \in S : given[n] \in {<<v>> : v \in Values}
  <2>1. PICK T \in SUBSET Names : IsFiniteSet(T) /\ given \in [T -> {<<v>> : v \in Values}]
    OBVIOUS
  <2>2. S = T
    BY <2>1
  <2> QED BY <2>1, <2>2
<1>3. /\ objects = <<[map |-> map, from |-> 0, updates |-> <<>>]>>
      /\ arrays = [k \in DOMAIN names |-> given[names[k]]] /\ meant = <<given>> /\ class \in Classes
  BY <1>1 DEF CollectionInit
<1>4. /\ N \in Nat /\ names \in [1..N -> S]
      /\ \A x \in S : \E k \in 1..N : names[k] = x
  BY <1>2, SetToSeqIs
<1> HIDE DEF names, N, S
<1>5. DOMAIN names = 1..N
  BY <1>4
<1>6. /\ objects = <<[map |-> map, from |-> 0, updates |-> <<>>]>>
      /\ arrays = [k \in 1..N |-> given[names[k]]] /\ meant = <<given>> /\ class \in Classes
  BY <1>5, <1>3
<1>7. \A n \in S : map[n] \in 1..N /\ names[map[n]] = n
  BY <1>4, <1>5
<1>8. \A n \in S : given[n] \in Seq(Values) /\ given[n] # <<>>
  <2>1. \A v \in Values : <<v>> \in Seq(Values) /\ <<v>> # <<>>
    OBVIOUS
  <2> QED BY <1>2, <2>1
<1>9. arrays \in Heaps /\ Len(arrays) = N
  <2>1. \A k \in 1..N : given[names[k]] \in Seq(Values)
    BY <1>4, <1>8
  <2>2. arrays \in [1..N -> Seq(Values)]
    BY <1>6, <2>1
  <2> QED BY <1>4, <2>2 DEF Heaps
<1>10. \A n \in S : arrays[map[n]] = given[n]
  BY <1>6, <1>7
<1>11. S \in SUBSET Names /\ map = [n \in S |-> map[n]] /\ DOMAIN map = S
  BY <1>2
<1> HIDE DEF map
<1>12. /\ Len(objects) = 1 /\ objects[1] = [map |-> map, from |-> 0, updates |-> <<>>]
       /\ Len(meant) = 1 /\ meant[1] = given /\ objects # <<>>
  BY <1>6
<1>13. State(map, arrays) \in States
  <2> HIDE DEF State
  <2> QED BY <1>7, <1>9, <1>11, StateMade
<1>14. CollectionTypes
  <2>1. map \in Maps
    <3>1. map \in [S -> Nat]
      BY <1>4, <1>7, <1>11
    <3> QED BY <1>11, <3>1 DEF Maps
  <2>2. [map |-> map, from |-> 0, updates |-> <<>>] \in Collected
    BY <2>1 DEF Collected
  <2>3. given \in Views
    <3>1. given \in [S -> Seq(Values)]
      BY <1>2, <1>8
    <3> QED BY <1>11, <3>1 DEF Views
  <2>4. \A E : \A x \in E : <<x>> \in Seq(E)
    OBVIOUS
  <2>5. objects \in Seq(Collected)
    BY <1>6, <2>2, <2>4
  <2>6. meant \in Seq(Views)
    BY <1>6, <2>3, <2>4
  <2> QED BY <1>6, <1>9, <1>12, <2>5, <2>6 DEF CollectionTypes
<1>15. CopiesOlder
  BY <1>12 DEF CopiesOlder, Pending
<1>16. Named
  BY <1>7, <1>11, <1>12, <1>13 DEF Named, Held
<1>17. UpdatesLead
  <2>1. Held(1) = State(map, arrays) /\ Held(1).map = map /\ Held(1).heap = arrays
    BY <1>12 DEF Held, State
  <2>2. Separate(Held(1))
    BY <1>7, <1>8, <1>10, <1>11, <2>1 DEF Separate
  <2>3. View(Held(1)) = given
    BY <1>2, <1>10, <1>11, <2>1 DEF View
  <2>4. Lead(class, given, <<>>, given)
    <3> DEFINE g == [k \in 0..0 |-> given]
    <3>1. g[0] = given
      OBVIOUS
    <3> HIDE DEF g
    <3> QED BY <3>1 DEF Lead
  <2> QED BY <1>12, <2>2, <2>3, <2>4 DEF UpdatesLead, FirstIsMeant
<1> QED BY <1>14, <1>15, <1>16, <1>17 DEF CollectionInv

LEMMA RestrictView ==
  ASSUME NEW view \in Views, NEW S, NEW name \in Names, NEW list \in Seq(Values)
  PROVE  Restrict(view, DOMAIN view \ S) \in Views /\ With(view, name, list) \in Views
<1>1. PICK T \in SUBSET Names : view \in [T -> Seq(Values)]
  BY DEF Views
<1>2. Restrict(view, DOMAIN view \ S) \in [T \ S -> Seq(Values)]
  BY <1>1 DEF Restrict
<1>3. With(view, name, list) \in [T \union {name} -> Seq(Values)]
  BY <1>1 DEF With
<1>4. T \ S \in SUBSET Names /\ T \union {name} \in SUBSET Names
  OBVIOUS
<1> QED BY <1>2, <1>3, <1>4 DEF Views

LEMMA MeaningTyped ==
  ASSUME HttpAssumption, class \in Classes, NEW u \in UpdatesOf(class), NEW view \in Views
  PROVE  Meaning(class, u, view) \in Views
<1> DEFINE old == IF u.name \in DOMAIN view THEN view[u.name] ELSE <<>>
           left == IF class = "HttpHeaders" THEN Without(u.values[1], old) ELSE RemoveFirst(old, u.values[1])
           new == IF u.op = "append" THEN old \o u.values
                  ELSE IF u.op = "set" THEN IF u.values = <<>> THEN old ELSE u.values
                  ELSE IF u.values = <<>> THEN <<>> ELSE left
<1>1. u.name \in Names /\ u.values \in Seq(Values)
  BY UpdatesAre
<1>2. old \in Seq(Values)
  BY DEF Views
<1>3. left \in Seq(Values)
  BY <1>2, WithoutIs, RemoveFirstIs
<1>4. new \in Seq(Values)
  <2> HIDE DEF old, left
  <2> QED BY <1>1, <1>2, <1>3
<1>5. Meaning(class, u, view) = IF new = <<>> THEN Restrict(view, DOMAIN view \ {u.name}) ELSE With(view, u.name, new)
  BY DEF Meaning
<1> HIDE DEF new
<1> QED BY <1>1, <1>4, <1>5, RestrictView

\* What is known of the objects, their number included.
LEMMA ObjectsAre ==
  ASSUME CollectionTypes
  PROVE  /\ Len(objects) \in Nat \ {0} /\ DOMAIN objects = 1..Len(objects)
         /\ \A i \in 1..Len(objects) :
              /\ objects[i] \in Collected /\ objects[i].from \in Nat
              /\ objects[i].updates \in Seq(UpdatesOf(class))
              /\ meant[i] \in Views
<1>1. /\ objects \in Seq(Collected) /\ meant \in Seq(Views) /\ Len(meant) = Len(objects) /\ objects # <<>>
  BY DEF CollectionTypes
<1>2. \A i \in 1..Len(objects) : objects[i] \in Collected /\ meant[i] \in Views
  BY <1>1
<1> QED BY <1>1, <1>2 DEF Collected

-----------------------------------------------------------------------------
(***************************************************************************)
(* HttpCollections: append(), set() and delete()                           *)
(***************************************************************************)

LEMMA LeadOn ==
  ASSUME NEW c, NEW E, NEW updates \in Seq(E), NEW u \in E, NEW from, NEW to, Lead(c, from, updates, to)
  PROVE  Lead(c, from, Append(updates, u), Meaning(c, u, to))
<1> DEFINE N == Len(updates)
           longer == Append(updates, u)
<1>1. N \in Nat /\ Len(longer) = N + 1 /\ longer[N + 1] = u /\ \A k \in 1..N : longer[k] = updates[k]
  OBVIOUS
<1>2. PICK g : g[0] = from /\ g[N] = to /\ \A k \in 1..N : g[k] = Meaning(c, updates[k], g[k - 1])
  BY DEF Lead
<1> DEFINE h == [k \in 0..(N + 1) |-> IF k = N + 1 THEN Meaning(c, u, to) ELSE g[k]]
<1> HIDE DEF N, longer
<1>3. h[0] = from /\ h[N + 1] = Meaning(c, u, to) /\ h[N] = to
  BY <1>1, <1>2
<1>4. ASSUME NEW k \in 1..(N + 1) PROVE h[k] = Meaning(c, longer[k], h[k - 1])
  <2>1. CASE k = N + 1
    BY <1>1, <1>3, <2>1
  <2>2. CASE k # N + 1
    <3>1. k \in 1..N /\ k \in 0..(N + 1) /\ k - 1 \in 0..(N + 1) /\ k - 1 # N + 1
      BY <1>1, <2>2
    <3>2. h[k] = g[k] /\ h[k - 1] = g[k - 1]
      BY <2>2, <3>1
    <3> HIDE DEF h
    <3> QED BY <1>1, <1>2, <3>1, <3>2
  <2> QED BY <2>1, <2>2
<1> HIDE DEF h
<1> QED BY <1>1, <1>3, <1>4 DEF Lead, longer

LEMMA CloneStep ==
  ASSUME HttpAssumption, CollectionInv, NEW i \in DOMAIN objects, NEW u \in UpdatesOf(class), Clone(i, u)
  PROVE  CollectionInv'
<1>0. PICK N : N = Len(objects)
  OBVIOUS
<1> DEFINE o == [map |-> <<>>, from |-> IF Pending(i) THEN objects[i].from ELSE i,
                 updates |-> Append(objects[i].updates, u)]
<1>1. /\ objects' = Append(objects, o) /\ meant' = Append(meant, Meaning(class, u, meant[i]))
      /\ class' = class /\ arrays' = arrays
  BY DEF Clone
<1>2. /\ N \in Nat \ {0} /\ i \in 1..N /\ objects \in Seq(Collected) /\ meant \in Seq(Views) /\ Len(meant) = N
      /\ \A j \in 1..N : objects[j].updates \in Seq(UpdatesOf(class)) /\ meant[j] \in Views
  BY <1>0, ObjectsAre DEF CollectionInv, CollectionTypes
<1>3. o.map = <<>> /\ DOMAIN o.map = {} /\ o.updates = Append(objects[i].updates, u)
  OBVIOUS
<1>4. o.from \in 1..N /\ ~Pending(o.from) /\ (Pending(i) => o.from = objects[i].from) /\ (~Pending(i) => o.from = i)
  BY <1>0, <1>2 DEF CollectionInv, CopiesOlder, Pending
<1>5. o \in Collected
  <2>1. <<>> \in Maps
    <3>1. <<>> \in [{} -> Nat]
      OBVIOUS
    <3>2. {} \in SUBSET Names
      OBVIOUS
    <3> QED BY <3>1, <3>2 DEF Maps
  <2>2. o.updates \in Seq(UpdatesOf(class)) /\ o.from \in Nat
    BY <1>2, <1>3, <1>4
  <2> QED BY <2>1, <2>2 DEF Collected
<1> HIDE DEF o
<1>6. /\ Len(objects') = N + 1 /\ objects'[N + 1] = o /\ \A j \in 1..N : objects'[j] = objects[j]
      /\ Len(meant') = N + 1 /\ meant'[N + 1] = Meaning(class, u, meant[i]) /\ \A j \in 1..N : meant'[j] = meant[j]
  BY <1>0, <1>1, <1>2
<1>7. 1..(N + 1) = 1..N \union {N + 1} /\ 1 \in 1..N /\ N + 1 # 1 /\ i \in 1..N /\ N + 1 \in 2..(N + 1)
  BY <1>2
<1>8. CollectionTypes'
  <2>1. objects' \in Seq(Collected) /\ objects' # <<>>
    BY <1>1, <1>2, <1>5
  <2>2. Meaning(class, u, meant[i]) \in Views
    BY <1>2, MeaningTyped DEF CollectionInv, CollectionTypes
  <2>3. meant' \in Seq(Views)
    BY <1>1, <1>2, <2>2
  <2>4. Collected' = Collected
    BY <1>1 DEF Collected, UpdatesOf
  <2> QED BY <1>1, <1>6, <2>1, <2>3, <2>4 DEF CollectionInv, CollectionTypes
<1>9. \A j \in 1..N : Held(j)' = Held(j) /\ Pending(j)' = Pending(j)
  BY <1>1, <1>6 DEF Held, Pending
<1>10. CopiesOlder'
  <2>1. ASSUME NEW j \in 1..N
        PROVE  /\ objects'[j].from \in 0..(j - 1)
               /\ objects'[j].from # 0 => objects'[objects'[j].from].from = 0 /\ DOMAIN objects'[j].map = {}
    <3>1. objects[j].from \in 0..(j - 1) /\ (objects[j].from # 0 => objects[objects[j].from].from = 0 /\ DOMAIN objects[j].map = {})
      BY <1>0, <1>2 DEF CollectionInv, CopiesOlder, Pending
    <3>2. objects[j].from # 0 => objects[j].from \in 1..N
      BY <1>2, <3>1
    <3> QED BY <1>6, <3>1, <3>2
  <2>2. /\ objects'[N + 1].from \in 0..N
        /\ objects'[objects'[N + 1].from].from = 0 /\ DOMAIN objects'[N + 1].map = {}
    BY <1>2, <1>3, <1>4, <1>6 DEF Pending
  <2>3. (N + 1) - 1 = N /\ objects'[1].updates = <<>>
    BY <1>2, <1>6, <1>7 DEF CollectionInv, CopiesOlder
  <2> QED BY <1>6, <1>7, <2>1, <2>2, <2>3 DEF CopiesOlder, Pending
<1>11. Named'
  <2>1. Held(N + 1)' \in States
    <3> DEFINE S == {}
               m == <<>>
    <3>1. S \in SUBSET Names /\ m = [n \in S |-> m[n]] /\ arrays \in Heaps /\ \A n \in S : m[n] \in 1..Len(arrays)
      BY DEF CollectionInv, CollectionTypes
    <3>2. PICK t : t = State(m, arrays)
      OBVIOUS
    <3>3. Held(N + 1)' = t
      BY <1>1, <1>3, <1>6, <3>2 DEF Held
    <3> HIDE DEF S, m
    <3>4. t \in States
      BY <3>1, <3>2, StateMade
    <3> QED BY <3>3, <3>4
  <2>2. States' = States
    BY DEF States, Maps, Heaps
  <2>3. \A j \in 1..(N + 1) : Held(j)' \in States'
    BY <1>0, <1>7, <1>9, <2>1, <2>2 DEF CollectionInv, Named
  <2>4. ASSUME NEW j \in 1..(N + 1), NEW k \in 1..(N + 1),
               NEW n \in DOMAIN objects'[j].map, NEW m \in DOMAIN objects'[k].map,
               objects'[j].map[n] = objects'[k].map[m]
        PROVE  n = m
    <3>1. j \in 1..N /\ k \in 1..N
      BY <1>3, <1>6, <1>7
    <3> QED BY <1>0, <1>6, <2>4, <3>1 DEF CollectionInv, Named
  <2> QED BY <1>6, <2>3, <2>4 DEF Named
<1>12. UpdatesLead'
  <2> SUFFICES ASSUME NoneRead'
               PROVE  /\ FirstIsMeant'
                      /\ \A j \in 1..(N + 1) :
                           /\ j # 1 => objects'[j].from = 1
                           /\ Lead(class', meant'[1], objects'[j].updates, meant'[j])
    BY <1>6 DEF UpdatesLead
  <2>1. NoneRead
    BY <1>0, <1>2, <1>6, <1>9 DEF NoneRead
  <2>2. /\ FirstIsMeant
        /\ \A j \in 1..N : (j # 1 => objects[j].from = 1) /\ Lead(class, meant[1], objects[j].updates, meant[j])
    BY <1>0, <2>1 DEF CollectionInv, UpdatesLead
  <2>3. FirstIsMeant'
    BY <1>6, <1>7, <1>9, <2>2 DEF FirstIsMeant, Separate, View
  <2>4. o.from = 1
    BY <1>4, <1>7, <2>2 DEF Pending
  <2>5. Lead(class, meant[1], o.updates, Meaning(class, u, meant[i]))
    BY <1>2, <1>3, <2>2, LeadOn
  <2>6. ASSUME NEW j \in 1..(N + 1)
        PROVE  (j # 1 => objects'[j].from = 1) /\ Lead(class', meant'[1], objects'[j].updates, meant'[j])
    <3>1. CASE j \in 1..N
      BY <1>1, <1>6, <1>7, <2>2, <3>1
    <3>2. CASE j = N + 1
      BY <1>1, <1>6, <1>7, <2>4, <2>5, <3>2
    <3> QED BY <1>7, <3>1, <3>2
  <2> QED BY <2>3, <2>6
<1> QED BY <1>8, <1>10, <1>11, <1>12 DEF CollectionInv

-----------------------------------------------------------------------------
(***************************************************************************)
(* HttpCollections: the first read                                         *)
(***************************************************************************)

\* What it makes of the object and of the arrays, s being the object to copy.
LEMMA InitialiseIs ==
  ASSUME HttpAssumption, CollectionInv, NEW i \in DOMAIN objects, Initialise(i)
  PROVE  /\ i \in 2..Len(objects) /\ objects[i].from \in 1..(i - 1)
         /\ ~Pending(objects[i].from) /\ Held(objects[i].from) \in States
         /\ objects[i].updates \in Seq(UpdatesOf(class))
         /\ \E t \in States :
              /\ t = Updated(Held(objects[i].from), objects[i].updates)
              /\ Grown(Held(objects[i].from), t, objects[i].updates, Len(objects[i].updates))
              /\ objects' = [objects EXCEPT ![i] = [map |-> t.map, from |-> 0, updates |-> Remembered(i)]]
              /\ arrays' = t.heap
         /\ class' = class /\ meant' = meant
<1>1. /\ Len(objects) \in Nat \ {0} /\ i \in 1..Len(objects)
      /\ objects[i].updates \in Seq(UpdatesOf(class)) /\ class \in Classes
  BY ObjectsAre DEF CollectionInv, CollectionTypes
<1>2. /\ objects[i].from \in 0..(i - 1) /\ objects[i].from # 0 /\ ~Pending(objects[i].from)
  BY <1>1 DEF CollectionInv, CopiesOlder, Initialise, Pending
<1>3. i \in 2..Len(objects) /\ objects[i].from \in 1..(i - 1) /\ objects[i].from \in 1..Len(objects)
  BY <1>1, <1>2
<1>4. Held(objects[i].from) \in States
  BY <1>3 DEF CollectionInv, Named
<1>5. PICK t : t = Updated(Held(objects[i].from), objects[i].updates)
  OBVIOUS
<1>6. t \in States /\ Grown(Held(objects[i].from), t, objects[i].updates, Len(objects[i].updates))
  BY <1>1, <1>4, <1>5, UpdatedGrows
<1>7. /\ objects' = [objects EXCEPT ![i] = [map |-> t.map, from |-> 0, updates |-> Remembered(i)]]
      /\ arrays' = t.heap /\ class' = class /\ meant' = meant
  BY <1>5 DEF Initialise, Held
<1> QED BY <1>1, <1>2, <1>3, <1>4, <1>5, <1>6, <1>7

LEMMA InitialiseStep ==
  ASSUME HttpAssumption, CollectionInv, NEW i \in DOMAIN objects, Initialise(i)
  PROVE  CollectionInv'
<1>0. PICK N, f, s, o : N = Len(objects) /\ f = objects[i].from /\ s = Held(f) /\ o = objects'[i]
  OBVIOUS
<1>1. /\ i \in 2..N /\ f \in 1..(i - 1) /\ f # 0 /\ ~Pending(f) /\ s \in States
      /\ s.map = objects[f].map /\ s.heap = arrays /\ objects[i].updates \in Seq(UpdatesOf(class))
      /\ class' = class /\ meant' = meant
  BY <1>0, InitialiseIs DEF Held, State
<1>2. PICK t \in States :
        /\ Grown(s, t, objects[i].updates, Len(objects[i].updates))
        /\ objects' = [objects EXCEPT ![i] = [map |-> t.map, from |-> 0, updates |-> Remembered(i)]]
        /\ arrays' = t.heap
  BY <1>0, InitialiseIs
<1>3. /\ N \in Nat \ {0} /\ DOMAIN objects = 1..N /\ 1 \in 1..N /\ i \in 1..N /\ i # 1 /\ f \in 1..N /\ f # i
      /\ objects \in Seq(Collected) /\ meant \in Seq(Views) /\ Len(meant) = N /\ class \in Classes
      /\ \A j \in 1..N : objects[j] \in Collected
  BY <1>0, <1>1, ObjectsAre DEF CollectionInv, CollectionTypes
<1>4. /\ Len(objects') = N /\ objects' # <<>>
      /\ o = [map |-> t.map, from |-> 0, updates |-> Remembered(i)]
      /\ \A j \in 1..N : j # i => objects'[j] = objects[j]
  BY <1>0, <1>2, <1>3
<1>5. o.map = t.map /\ o.from = 0 /\ objects'[i] = o
  BY <1>0, <1>4
<1>6. /\ t.heap \in Heaps /\ Len(t.heap) \in Nat /\ Len(arrays) \in Nat /\ Len(t.heap) >= Len(arrays)
      /\ \A n \in DOMAIN t.map : t.map[n] \in 1..Len(t.heap)
      /\ \A n \in DOMAIN t.map : t.map[n] > Len(arrays) \/ (n \in DOMAIN objects[f].map /\ t.map[n] = objects[f].map[n])
  BY <1>1, <1>2, StateIs DEF Grown
<1>7. CollectionTypes'
  <2>1. o \in Collected
    <3>1. Remembered(i) \in Seq(UpdatesOf(class))
      BY <1>1 DEF Remembered
    <3>2. t.map \in Maps
      BY DEF States
    <3> QED BY <1>4, <3>1, <3>2 DEF Collected
  <2>2. objects' \in Seq(Collected)
    BY <1>2, <1>3, <1>4, <2>1
  <2>3. Collected' = Collected
    BY <1>1 DEF Collected, UpdatesOf
  <2> QED BY <1>1, <1>2, <1>3, <1>4, <1>6, <2>2, <2>3 DEF CollectionTypes
<1>8. CopiesOlder'
  <2>1. ASSUME NEW j \in 1..N
        PROVE  /\ objects'[j].from \in 0..(j - 1)
               /\ objects'[j].from # 0 => objects'[objects'[j].from].from = 0 /\ DOMAIN objects'[j].map = {}
    <3>1. CASE j = i
      BY <1>1, <1>5, <3>1
    <3>2. CASE j # i
      <4>1. /\ objects[j].from \in 0..(j - 1) /\ objects'[j] = objects[j]
            /\ objects[j].from # 0 => objects[objects[j].from].from = 0 /\ DOMAIN objects[j].map = {}
        BY <1>0, <1>4, <3>2 DEF CollectionInv, CopiesOlder, Pending
      <4>2. objects[j].from # 0 => objects[j].from \in 1..N
        BY <1>3, <4>1
      <4> QED BY <1>4, <1>5, <4>1, <4>2
    <3> QED BY <3>1, <3>2
  <2>2. objects'[1].updates = <<>>
    BY <1>3, <1>4 DEF CollectionInv, CopiesOlder
  <2> QED BY <1>4, <2>1, <2>2 DEF CopiesOlder, Pending
<1>9. Named'
  <2>1. States' = States
    BY DEF States, Maps, Heaps
  <2>2. ASSUME NEW j \in 1..N PROVE Held(j)' \in States
    <3>1. CASE j = i
      <4>1. Held(j)' = t
        <5>1. Held(j)' = State(t.map, t.heap)
          BY <1>2, <1>5, <3>1 DEF Held
        <5> QED BY <5>1, StateIs
      <4> QED BY <4>1
    <3>2. CASE j # i
      <4>1. Held(j) \in States /\ Held(j).map = objects[j].map /\ Held(j).heap = arrays
        BY <1>0 DEF CollectionInv, Named, Held, State
      <4>2. PICK m, S : m = objects[j].map /\ S = DOMAIN m
        OBVIOUS
      <4>3. S \in SUBSET Names /\ m = [n \in S |-> m[n]] /\ \A n \in S : m[n] \in 1..Len(arrays)
        BY <4>1, <4>2, StateIs
      <4>4. \A n \in S : m[n] \in 1..Len(t.heap)
        BY <1>6, <4>3
      <4>5. Held(j)' = State(m, t.heap)
        BY <1>2, <1>4, <3>2, <4>2 DEF Held
      <4>6. PICK r : r = State(m, t.heap)
        OBVIOUS
      <4>7. r \in States
        BY <1>6, <4>3, <4>4, <4>6, StateMade
      <4> QED BY <4>5, <4>6, <4>7
    <3> QED BY <3>1, <3>2
  <2>3. ASSUME NEW j \in 1..N, NEW n \in DOMAIN objects[j].map
        PROVE  /\ objects[j].map[n] \in 1..Len(arrays)
               /\ \A k \in 1..N : \A m \in DOMAIN objects[k].map : objects[j].map[n] = objects[k].map[m] => n = m
    <3>1. Held(j) \in States /\ Held(j).map = objects[j].map /\ Held(j).heap = arrays
      BY <1>0 DEF CollectionInv, Named, Held, State
    <3> QED BY <1>0, <3>1, StateIs DEF CollectionInv, Named
  <2>4. ASSUME NEW k \in 1..N, k # i, NEW n \in DOMAIN t.map, NEW m \in DOMAIN objects[k].map,
               t.map[n] = objects[k].map[m]
        PROVE  n = m
    <3>1. objects[k].map[m] \in 1..Len(arrays)
      BY <2>3
    <3>2. ~(t.map[n] > Len(arrays))
      BY <1>6, <2>4, <3>1
    <3>3. n \in DOMAIN objects[f].map /\ t.map[n] = objects[f].map[n]
      BY <1>6, <3>2
    <3> QED BY <1>3, <2>3, <2>4, <3>3
  <2>5. Unshared(t)
    <3>1. Unshared(s)
      BY <1>1, <1>3, <2>3 DEF Unshared
    <3> QED BY <1>2, <3>1 DEF Grown
  <2>6. ASSUME NEW j \in 1..N, NEW k \in 1..N,
               NEW n \in DOMAIN objects'[j].map, NEW m \in DOMAIN objects'[k].map,
               objects'[j].map[n] = objects'[k].map[m]
        PROVE  n = m
    <3>1. CASE j = i /\ k = i
      BY <1>5, <2>5, <2>6, <3>1 DEF Unshared
    <3>2. CASE j = i /\ k # i
      <4>1. n \in DOMAIN t.map /\ m \in DOMAIN objects[k].map /\ t.map[n] = objects[k].map[m]
        BY <1>4, <1>5, <2>6, <3>2
      <4> QED BY <2>4, <3>2, <4>1
    <3>3. CASE j # i /\ k = i
      <4>1. m \in DOMAIN t.map /\ n \in DOMAIN objects[j].map /\ t.map[m] = objects[j].map[n]
        BY <1>4, <1>5, <2>6, <3>3
      <4> QED BY <2>4, <3>3, <4>1
    <3>4. CASE j # i /\ k # i
      BY <1>4, <2>3, <2>6, <3>4
    <3> QED BY <3>1, <3>2, <3>3, <3>4
  <2> QED BY <1>4, <2>1, <2>2, <2>6 DEF Named
<1>10. UpdatesLead'
  <2>1. ~NoneRead'
    BY <1>1, <1>4, <1>5 DEF NoneRead, Pending
  <2> QED BY <2>1 DEF UpdatesLead
<1> QED BY <1>7, <1>8, <1>9, <1>10 DEF CollectionInv

-----------------------------------------------------------------------------
\* The invariant that the two properties below rest on.
THEOREM CollectionsAreSound == CollectionSpec => []CollectionInv
<1>1. CollectionInit => CollectionInv
  BY HttpAssumption, CollectionInitially
<1>2. CollectionInv /\ [CollectionNext]_collectionVars => CollectionInv'
  <2> SUFFICES ASSUME CollectionInv, [CollectionNext]_collectionVars PROVE CollectionInv'
    OBVIOUS
  <2>1. ASSUME NEW i \in DOMAIN objects, NEW u \in UpdatesOf(class), Clone(i, u) PROVE CollectionInv'
    BY <2>1, HttpAssumption, CloneStep
  <2>2. ASSUME NEW i \in DOMAIN objects, Initialise(i) PROVE CollectionInv'
    BY <2>2, HttpAssumption, InitialiseStep
  <2>3. CASE UNCHANGED collectionVars
    <3>1. UNCHANGED <<class, objects, arrays, meant>>
      BY <2>3 DEF collectionVars
    <3>2. CollectionTypes'
      BY <3>1 DEF CollectionInv, CollectionTypes, Collected, UpdatesOf
    <3>3. CopiesOlder'
      BY <3>1 DEF CollectionInv, CopiesOlder, Pending
    <3>4. Named'
      <4>1. \A i : Held(i)' = Held(i)
        BY <3>1 DEF Held
      <4>2. States' = States
        BY DEF States, Maps, Heaps
      <4> QED BY <3>1, <4>1, <4>2 DEF CollectionInv, Named
    <3>5. UpdatesLead'
      BY <3>1 DEF CollectionInv, UpdatesLead, NoneRead, FirstIsMeant, Separate, View, Held, Pending
    <3> QED BY <3>2, <3>3, <3>4, <3>5 DEF CollectionInv
  <2> QED BY <2>1, <2>2, <2>3 DEF CollectionNext
<1> QED BY <1>1, <1>2, PTL DEF CollectionSpec

\* An object that is made, and one that is read, leave every other object what it was.
LEMMA OthersStay ==
  ASSUME HttpAssumption, CollectionInv, [CollectionNext]_collectionVars, NEW i \in DOMAIN objects
  PROVE  \/ objects'[i] = objects[i] /\ arrays' = arrays
         \/ Initialise(i)
         \/ \E j \in DOMAIN objects : j # i /\ Initialise(j) /\ objects'[i] = objects[i]
<1>1. objects \in Seq(Collected) /\ DOMAIN objects = 1..Len(objects)
  BY ObjectsAre DEF CollectionInv, CollectionTypes
<1>2. ASSUME NEW j \in DOMAIN objects, NEW u \in UpdatesOf(class), Clone(j, u)
      PROVE  objects'[i] = objects[i] /\ arrays' = arrays
  BY <1>1, <1>2 DEF Clone
<1>3. ASSUME NEW j \in DOMAIN objects, Initialise(j), j # i PROVE objects'[i] = objects[i]
  BY <1>1, <1>3 DEF Initialise
<1>4. CASE UNCHANGED collectionVars
  BY <1>4 DEF collectionVars
<1> QED BY <1>2, <1>3, <1>4 DEF CollectionNext

\* HttpHeaders and HttpParams: what a chain of append(), set() and delete() makes, the first
\* time one of the derived objects is read, is what the updates mean one after the other.
THEOREM ChainsAreMadeWhole == CollectionSpec => FirstReadIsRight
<1>1. ASSUME CollectionInv, [CollectionNext]_collectionVars, NEW i \in DOMAIN objects,
             Pending(i), objects'[i].from = 0, \A j \in 2..Len(objects) : Pending(j)
      PROVE  Shown(i)' = meant[i]
  <2>1. Initialise(i)
    BY <1>1, HttpAssumption, OthersStay DEF Pending
  <2>2. PICK t \in States :
          /\ t = Updated(Held(objects[i].from), objects[i].updates)
          /\ objects' = [objects EXCEPT ![i] = [map |-> t.map, from |-> 0, updates |-> Remembered(i)]]
          /\ arrays' = t.heap
    BY <1>1, <2>1, HttpAssumption, InitialiseIs
  <2>3. /\ i \in 2..Len(objects) /\ i \in 1..Len(objects) /\ i # 1
        /\ Held(objects[i].from) \in States /\ objects[i].updates \in Seq(UpdatesOf(class))
    BY <1>1, <2>1, HttpAssumption, InitialiseIs, ObjectsAre DEF CollectionInv
  <2>4. /\ objects[i].from = 1 /\ Separate(Held(1)) /\ View(Held(1)) = meant[1]
        /\ Lead(class, meant[1], objects[i].updates, meant[i])
    BY <1>1, <2>3 DEF CollectionInv, UpdatesLead, NoneRead, FirstIsMeant
  <2>5. View(t) = meant[i]
    BY <1>1, <2>2, <2>3, <2>4, HttpAssumption, UpdatedIsMeant DEF CollectionInv, CollectionTypes
  <2>6. objects'[i].map = t.map
    BY <1>1, <2>2 DEF CollectionInv, CollectionTypes
  <2> QED BY <2>2, <2>5, <2>6 DEF Shown, View
<1>2. CollectionInv /\ [CollectionNext]_collectionVars =>
        [\A i \in DOMAIN objects :
           /\ Pending(i) /\ objects'[i].from = 0
           /\ \A j \in 2..Len(objects) : Pending(j)
           => Shown(i)' = meant[i]]_collectionVars
  BY <1>1
<1> QED BY <1>2, CollectionsAreSound, PTL DEF CollectionSpec, FirstReadIsRight

\* HttpHeaders and HttpParams: a list that was read changes only by an append(), or a delete()
\* of one value, of the same name in an object copied from one that holds it.
THEOREM OnlyOwnUpdatesDisturb == CollectionSpec => OnlyUpdatesInPlaceDisturb
<1>1. ASSUME CollectionInv, [CollectionNext]_collectionVars,
             NEW i \in DOMAIN objects, NEW n \in DOMAIN objects[i].map, Shown(i)'[n] # Shown(i)[n]
      PROVE  \E j \in DOMAIN objects :
               /\ Pending(j) /\ objects'[j].from = 0
               /\ n \in DOMAIN objects[objects[j].from].map
               /\ \E k \in DOMAIN objects[j].updates :
                    /\ objects[j].updates[k].name = n
                    /\ InPlace(objects[j].updates[k])
  <2>1. ~(objects'[i] = objects[i] /\ arrays' = arrays)
    BY <1>1 DEF Shown
  <2>2. ~Initialise(i)
    BY <1>1, ObjectsAre DEF CollectionInv, CopiesOlder, Initialise
  <2>3. PICK j \in DOMAIN objects : Initialise(j) /\ objects'[i] = objects[i]
    BY <1>1, <2>1, <2>2, HttpAssumption, OthersStay
  <2>4. PICK p : p = objects[i].map[n]
    OBVIOUS
  <2>5. PICK s, t : /\ s = Held(objects[j].from)
                    /\ Grown(s, t, objects[j].updates, Len(objects[j].updates))
                    /\ objects' = [objects EXCEPT ![j] = [map |-> t.map, from |-> 0, updates |-> Remembered(j)]]
                    /\ arrays' = t.heap
    BY <1>1, <2>3, HttpAssumption, InitialiseIs
  <2>6. /\ objects[j].from \in 1..Len(objects) /\ i \in 1..Len(objects)
        /\ objects[j].updates \in Seq(UpdatesOf(class))
        /\ s.map = objects[objects[j].from].map /\ s.heap = arrays
    BY <1>1, <2>3, <2>5, HttpAssumption, InitialiseIs, ObjectsAre DEF CollectionInv, Held, State
  <2>7. p \in 1..Len(s.heap)
    <3>1. Held(i) \in States /\ Held(i).map = objects[i].map /\ Held(i).heap = arrays
      BY <1>1, <2>6 DEF CollectionInv, Named, Held, State
    <3> QED BY <1>1, <2>4, <2>6, <3>1, StateIs
  <2>8. t.heap[p] # s.heap[p]
    BY <1>1, <2>3, <2>4, <2>5, <2>6 DEF Shown
  <2>9. PICK k \in 1..Len(objects[j].updates) :
          /\ InPlace(objects[j].updates[k]) /\ objects[j].updates[k].name \in DOMAIN s.map
          /\ s.map[objects[j].updates[k].name] = p
    BY <2>5, <2>7, <2>8 DEF Grown
  <2>10. objects[j].updates[k].name = n
    BY <1>1, <2>4, <2>6, <2>9 DEF CollectionInv, Named
  <2>11. Pending(j) /\ objects'[j].from = 0 /\ k \in DOMAIN objects[j].updates
    <3>1. Pending(j)
      BY <2>3 DEF Initialise
    <3>2. objects'[j].from = 0
      BY <1>1, <2>3, <2>5 DEF CollectionInv, CollectionTypes
    <3> QED BY <2>6, <2>9, <3>1, <3>2
  <2> QED BY <2>6, <2>9, <2>10, <2>11
<1>2. CollectionInv /\ [CollectionNext]_collectionVars =>
        [\A i \in DOMAIN objects : \A n \in DOMAIN objects[i].map :
           Shown(i)'[n] # Shown(i)[n]
           => \E j \in DOMAIN objects :
                  /\ Pending(j) /\ objects'[j].from = 0
                  /\ n \in DOMAIN objects[objects[j].from].map
                  /\ \E k \in DOMAIN objects[j].updates :
                         /\ objects[j].updates[k].name = n
                         /\ InPlace(objects[j].updates[k])]_collectionVars
  BY <1>1
<1> QED BY <1>2, CollectionsAreSound, PTL DEF CollectionSpec, OnlyUpdatesInPlaceDisturb
=============================================================================
