----------------------------- MODULE Responses -----------------------------
(***************************************************************************)
(* The Response of packages/web-server (response.ts): its factories, the   *)
(* encoding of its body, and the two ways in which a route method may give *)
(* it to the server: return it, or throw it as an HttpError.               *)
(*                                                                         *)
(* A body is "undefined", "null", "falsy" (0 or false), "empty" (the empty *)
(* string), "text", "bytes" (a Buffer), "view" (an ArrayBuffer, or a typed *)
(* array that is no Buffer) or "object", for all others; of an encoded one *)
(* the form is kept.  Of content types it is told whether the application  *)
(* gave its own.                                                           *)
(***************************************************************************)
EXTENDS Naturals, Sequences, FiniteSets, TLC

VARIABLE made   \* [status, headers, unencodedBody, body, encoding]

ContentBodies == {"undefined", "null", "falsy", "empty", "text", "bytes", "view", "object"}
Falsy == {"undefined", "null", "falsy", "empty"}

OwnType == "Content-Type of its own"
JsonType == "Content-Type of JSON"

-----------------------------------------------------------------------------
(* encodeAs(), and the constructor, which encodes as JSON. *)

Form(body, encoding) ==
  IF body = "undefined" THEN "undefined" ELSE IF encoding = "json" THEN "JSON" ELSE body

\* A content type that was set for JSON stays when the encoding changes, and the one of
\* the application is not replaced.
Encoded(r, encoding) ==
  IF r.unencodedBody = "undefined" THEN [r EXCEPT !.encoding = "raw", !.body = "undefined"]
  ELSE [r EXCEPT !.encoding = encoding,
                 !.body = Form(r.unencodedBody, encoding),
                 !.headers = IF encoding = "json" /\ OwnType \notin @ THEN @ \union {JsonType} ELSE @]

NewResponse(status, headers, body, isRawBody) ==
  Encoded([status |-> status, headers |-> headers, unencodedBody |-> body,
           body |-> "undefined", encoding |-> "json"], IF isRawBody THEN "raw" ELSE "json")

\* header()
WithOwnType(r) == [r EXCEPT !.headers = @ \union {OwnType}]

-----------------------------------------------------------------------------
(* The factories, by their status. *)

Common == "created" :> 201 @@ "ok" :> 200 @@ "serverError" :> 500

Refusals ==
  "badRequest" :> 400 @@ "unauthorized" :> 401 @@ "forbidden" :> 403 @@ "notFound" :> 404

Informational == "continue" :> 100 @@ "switchingProtocols" :> 101 @@ "processing" :> 101

Successful ==
  "accepted" :> 202 @@ "nonAuthoritativeInformation" :> 202 @@ "noContent" :> 204
    @@ "resetContent" :> 204 @@ "partialContent" :> 206

Redirections ==
  "multipleChoices" :> 300 @@ "movedPermanently" :> 301 @@ "found" :> 302 @@ "seeOther" :> 303
    @@ "notModified" :> 304 @@ "useProxy" :> 302 @@ "temporaryRedirect" :> 307

OtherClientErrors ==
  "paymentRequired" :> 402 @@ "methodNotAllowed" :> 405 @@ "notAcceptable" :> 406
    @@ "proxyAuthenticationRequired" :> 407 @@ "requestTimeout" :> 408 @@ "conflict" :> 409
    @@ "gone" :> 410 @@ "lengthRequired" :> 411 @@ "preconditionFailed" :> 412
    @@ "requestTooLarge" :> 413 @@ "uriTooLong" :> 414 @@ "unsupportedMediaType" :> 415
    @@ "rangeNotSatisfiable" :> 416 @@ "expectationFailed" :> 417

ServerErrors ==
  "notImplemented" :> 501 @@ "badGateway" :> 502 @@ "serviceUnavailable" :> 503
    @@ "gatewayTimeout" :> 504 @@ "httpVersionNotSupported" :> 505

Status ==
  Common @@ Refusals @@ Informational @@ Successful @@ Redirections @@ OtherClientErrors
    @@ ServerErrors

Locating == {"created", "movedPermanently", "found", "seeOther", "useProxy", "temporaryRedirect"}

HeadersOf(factory) ==
  CASE factory \in Locating -> {"Location"}
    [] factory = "methodNotAllowed" -> {"Allow"}
    [] factory = "proxyAuthenticationRequired" -> {"Proxy-Authenticate"}
    [] OTHER -> {}

\* The bodies that a factory takes.
BodiesOf(factory) ==
  CASE factory \in {"noContent", "resetContent"} -> {"empty"}
    [] factory = "notModified" -> {"null"}
    [] OTHER -> ContentBodies

Make(factory, body) == NewResponse(Status[factory], HeadersOf(factory), body, FALSE)

-----------------------------------------------------------------------------
(* What is written to the response of Node, which keeps the body to itself where the  *)
(* status has none.                                                                   *)

Outgoing(status, form, type) == [status |-> status, form |-> form, type |-> type]

ContentType(headers) ==
  IF OwnType \in headers THEN "own" ELSE IF JsonType \in headers THEN "json" ELSE "none"

\* execute(), for a method that returned it: JSON is made again of the unencoded body,
\* unless that is falsy, and raw text and a raw Buffer are written.
Returned(r) ==
  LET type == ContentType(r.headers) IN
    CASE r.encoding = "json" /\ r.unencodedBody \in Falsy -> Outgoing(r.status, "nothing", type)
      [] r.encoding = "json" /\ r.unencodedBody \notin Falsy -> Outgoing(r.status, "JSON", "json")
      [] r.encoding = "raw" /\ r.body \in {"text", "bytes"} -> Outgoing(r.status, r.body, type)
      [] r.encoding = "raw" /\ r.body = "empty" -> Outgoing(r.status, "nothing", type)
      [] r.encoding = "raw" /\ r.body \in {"undefined", "null"} ->
           Outgoing(IF r.status = 200 THEN 204 ELSE r.status, "nothing", type)
      [] OTHER -> Outgoing(500, "error", "json")

\* What handleError() writes of a body: an error without one has one of its own, and what
\* is not text or bytes of some kind is made JSON.
Written(body) ==
  CASE body \in {"undefined", "null"} -> "status"
    [] body = "empty" -> "nothing"
    [] body \in {"bytes", "view"} -> "bytes"
    [] body \in {"object", "falsy"} -> "JSON"
    [] OTHER -> body

\* Mutant: asError() passes on the body that was not encoded.
ThrownUnencoded(r) ==
  Outgoing(r.status, Written(r.unencodedBody),
       IF ContentType(r.headers) = "none" THEN "json" ELSE ContentType(r.headers))

\* asError() and handleError(), for a method that threw it.
Thrown(r) ==
  Outgoing(r.status, Written(r.body),
       IF ContentType(r.headers) = "none" THEN "json" ELSE ContentType(r.headers))

=============================================================================
