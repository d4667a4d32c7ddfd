----------------------------- MODULE HttpClient -----------------------------
(***************************************************************************)
(* What a caller of packages/http can ask for: the methods of HttpClient   *)
(* (client.ts).  Each has one signature for every way of observing the     *)
(* exchange and every type of body, which declares what the subscriber     *)
(* will get; all of them call request(), whose values have the type any,   *)
(* so that no compiler checks what the signatures declare.                 *)
(***************************************************************************)

Observing == {"body", "events", "response"}
BodyTypes == {"arraybuffer", "blob", "text", "json"}

\* A body as it is given: none, one that is sent as it is, or one to be serialised.
Bodies == {"none", "ready", "object"}

Methods == {"DELETE", "GET", "HEAD", "OPTIONS", "JSONP", "PATCH", "POST", "PUT", "OTHER"}

\* The signatures for a type of body other than JSON name it; the others may leave it
\* out, and all may leave out that the body is observed.
Signatures(methods, types, bodies) ==
  [method : methods, observe : Observing \union {"unset"}, type : types,
   progress : BOOLEAN, body : bodies]

TypedSignatures(methods, bodies) == Signatures(methods, BodyTypes \ {"json"}, bodies)
JsonSignatures(methods, bodies) == Signatures(methods, {"json", "unset"}, bodies)

AddBody(options, body) == [options EXCEPT !.body = body]

Typed(method) == TypedSignatures({method}, {"none"})
TypedWithBody(method) == {AddBody(r, body) : r \in Typed(method), body \in Bodies}
Json(method) == JsonSignatures({method}, {"none"})
JsonWithBody(method) == {AddBody(r, body) : r \in Json(method), body \in Bodies}

DeleteTyped == Typed("DELETE")
DeleteJson == Json("DELETE")
GetTyped == Typed("GET")
GetJson == Json("GET")
HeadTyped == Typed("HEAD")
HeadJson == Json("HEAD")
OptionsTyped == Typed("OPTIONS")
OptionsJson == Json("OPTIONS")
PatchTyped == TypedWithBody("PATCH")
PatchJson == JsonWithBody("PATCH")
PostTyped == TypedWithBody("POST")
PostJson == JsonWithBody("POST")
PutTyped == TypedWithBody("PUT")
PutJson == JsonWithBody("PUT")

JsonpJson == {r \in Json("JSONP") : r.observe = "body" /\ r.type = "json" /\ ~r.progress}

\* request() with a method, and with an HttpRequest, which gives its events.
RequestTyped == TypedSignatures(Methods, Bodies)
RequestJson == JsonSignatures(Methods, Bodies)
RequestObject ==
  {r \in Signatures(Methods, BodyTypes, Bodies) : r.observe = "events"}

Calls ==
  UNION {DeleteTyped, DeleteJson, GetTyped, GetJson, HeadTyped, HeadJson, OptionsTyped,
         OptionsJson, PatchTyped, PatchJson, PostTyped, PostJson, PutTyped, PutJson,
         JsonpJson, RequestTyped, RequestJson, RequestObject}

\* Mutant: a type that is left out is that of the default of fetch(), text.
RequestOfText(call) ==
  [call EXCEPT !.type = IF @ = "unset" THEN "text" ELSE @,
               !.observe = IF @ = "unset" THEN "body" ELSE @]

\* The request that request() makes of a call, with what it takes for what is left out.
RequestOf(call) ==
  [call EXCEPT !.type = IF @ = "unset" THEN "json" ELSE @,
               !.observe = IF @ = "unset" THEN "body" ELSE @]

\* What the signature of a call declares: the kind of the values and the types of their
\* bodies.  Every type but JSON, which may be anything, is a class that can be told.
DeclaredKinds(call) ==
  CASE call.observe \in {"body", "unset"} -> {"Body"}
    [] call.observe = "response"          -> {"Response"}
    [] OTHER -> {"Sent", "UploadProgress", "ResponseHeader", "DownloadProgress", "Response"}

DeclaresJson(call) == call.type \in {"json", "unset"}

DeclaredBodies(call) == IF DeclaresJson(call) THEN {"json", "null"} ELSE {call.type, "null"}

=============================================================================
