------------------------------ MODULE Exchange ------------------------------
(***************************************************************************)
(* One request after the other on one connection: dispatch_request makes a *)
(* blank response, a route's handler or static_serve fills it in, and      *)
(* http_finalize_response puts it on the wire, where a client that keeps   *)
(* what it got (ETag and body) reads it.  A server either has routes only  *)
(* or a web root only (cttp_server.webroot).                               *)
(***************************************************************************)
EXTENDS StaticFile

CONSTANTS
  Bodies,      \* what handlers send
  Events,      \* the data of the events they stream
  Requests,    \* what clients of a web root ask for: path, Range, HEAD or GET
  MaxCalls     \* bound: builder calls of one handler

RangeForm == {"none", "both", "open", "suffix", "junk"}

ASSUME RequestsAssumption ==
  \A r \in Requests :
    /\ r.path # "none" /\ r.head \in BOOLEAN
    /\ r.range.form \in RangeForm /\ {r.range.a, r.range.b} \subseteq 0 .. Modulus - 1

ASSUME BodiesAssumption == Bodies \subseteq Seq(Nat) /\ Events \subseteq Seq(Nat)

VARIABLES
  webroot,   \* whether the server serves files instead of routes
  calls,     \* how many builder calls the handler has made
  alone,     \* what its last builder alone would have made of a blank one
  emptied,   \* whether it has called cttp_no_content
  pushed,    \* the data of the events it has sent
  wire,      \* the last answer sent
  cache      \* the client's copy of the page: path, ETag, body

handlerVars == <<calls, alone, emptied, pushed>>
vars == <<fsVars, pc, req, readVars, res, webroot, handlerVars, wire, cache>>

NoRange == [form |-> "none", a |-> 0, b |-> 0]
NoTag == <<>>
EmptyCache == [path |-> "none", tag |-> NoTag, body |-> <<>>]
NoRequest == [path |-> "none", inm |-> NoTag, range |-> NoRange, head |-> FALSE, keep |-> TRUE]

Quiet == Finalize(BlankResponse(FALSE), TRUE)

Init ==
  /\ webroot \in BOOLEAN
  /\ FsInit(webroot)
  /\ pc = "idle"
  /\ req = NoRequest
  /\ fd = None /\ opened = 0
  /\ st = [size |-> 0, mtime |-> 0]
  /\ from = 0 /\ want = 0
  /\ data = <<>> /\ seen = Unseen
  /\ res = BlankResponse(FALSE) /\ alone = BlankResponse(FALSE)
  /\ calls = 0 /\ emptied = FALSE /\ pushed = <<>>
  /\ wire = Quiet
  /\ cache = EmptyCache

-----------------------------------------------------------------------------

\* The client revalidates its copy of the path, if it has one.
Conditional(path) == {NoTag} \cup (IF cache.path = path THEN {cache.tag} ELSE {})

ResponseKept(isHead) == [res EXCEPT !.head_only = isHead]     \* broken: no memset

NewResponse(isHead) == BlankResponse(isHead)

Begin(request) ==
  /\ pc = "idle"
  /\ req' = request
  /\ res' = NewResponse(request.head)
  /\ pc' = IF webroot THEN "static" ELSE "handler"
  /\ calls' = 0 /\ emptied' = FALSE /\ pushed' = <<>>
  /\ alone' = BlankResponse(request.head)
  /\ wire' = Quiet
  /\ fd' = None /\ opened' = opened /\ st' = [size |-> 0, mtime |-> 0]
  /\ from' = 0 /\ want' = 0 /\ data' = <<>> /\ seen' = Unseen
  /\ UNCHANGED <<fsVars, webroot, cache>>

AskForFile ==
  /\ webroot
  /\ \E r \in Requests : \E inm \in Conditional(r.path) :
       Begin([path |-> r.path, inm |-> inm, range |-> r.range, head |-> r.head, keep |-> TRUE])

AskRoute ==
  /\ ~webroot
  /\ \E isHead, keep \in BOOLEAN :
       Begin([NoRequest EXCEPT !.path = "route", !.head = isHead, !.keep = keep])

-----------------------------------------------------------------------------
(* A handler: any sequence of builder calls.                               *)

\* One call, as a change of the response r.
Call(r, call) ==
  CASE call.op = "send"       -> Send(r, call.status, "text", call.body)
    [] call.op = "json"       -> JsonErr(r, 404)
    [] call.op = "redirect"   -> Redirect(r, 302, "elsewhere")
    [] call.op = "no_content" -> NoContent(r)
    [] call.op = "chunked"    -> StreamAsChunks(r)
    [] call.op = "header"     -> SetHeader(r, "X", "1")
    [] call.op = "no header"  -> SetHeader(r, "not a token", "1")
    [] call.op = "cookie"     -> AddLine(r, "Set-Cookie", "s=1")
    [] call.op = "start"      -> SseStart(r)
    [] call.op = "event"      -> SseSend(r, call.body)

Plain == {"json", "redirect", "no_content", "chunked", "header", "no header", "cookie", "start"}

Calls ==
  [op : {"send"}, status : {200, 204, 404}, body : Bodies]
    \cup [op : Plain, status : {0}, body : {<<>>}]
    \cup [op : {"event"}, status : {0}, body : Events]

\* The builders of API.md, which each make a whole answer.
Builds(call) == call.op \in {"send", "json", "redirect", "no_content"}

HandlerCalls ==
  /\ pc = "handler"
  /\ calls < MaxCalls
  /\ \E call \in Calls :
       /\ res' = Call(res, call)
       /\ alone' = IF Builds(call) THEN Call(BlankResponse(req.head), call) ELSE alone
       /\ emptied' = (emptied \/ call.op = "no_content")
       /\ pushed' = IF call.op = "event" THEN Append(pushed, call.body) ELSE pushed
  /\ calls' = calls + 1
  /\ UNCHANGED <<fsVars, pc, req, readVars, webroot, wire, cache>>

HandlerReturns ==
  /\ pc = "handler"
  /\ pc' = "answer"
  /\ UNCHANGED <<fsVars, req, readVars, res, webroot, handlerVars, wire, cache>>

-----------------------------------------------------------------------------

TagOf(w) == CHOOSE h \in w.headers : h[1] = "ETag"

Stored(w) == [path |-> req.path, tag |-> TagOf(w)[2], body |-> ContentOf(w, req.head)]

\* http_finalize_response; the client keeps a whole page.
Respond ==
  /\ pc = "answer"
  /\ wire' = Finalize(res, req.keep)
  /\ cache' = IF webroot /\ wire'.status = 200 /\ ~req.head THEN Stored(wire') ELSE cache
  /\ pc' = "idle"
  /\ UNCHANGED <<fsVars, req, readVars, res, webroot, handlerVars>>

Server ==
  \/ AskForFile
  \/ AskRoute
  \/ HandlerCalls
  \/ HandlerReturns
  \/ StaticServe /\ UNCHANGED <<fsVars, webroot, handlerVars, wire, cache>>
  \/ Respond

World ==
  /\ OtherProcess
  /\ UNCHANGED <<pc, req, readVars, res, webroot, handlerVars, wire, cache>>

Next == Server \/ World

Spec == Init /\ [][Next]_vars

=============================================================================
