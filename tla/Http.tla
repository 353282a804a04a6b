-------------------------------- MODULE Http --------------------------------
(***************************************************************************)
(* The HTTP/1.1 engine of internals/http.c (and the SSE writer of api.c)   *)
(* as operators on one connection record, the struct conn of cttp.h.  The  *)
(* event loop (module Server) applies them to the connection it serves.    *)
(*                                                                         *)
(* Bytes are abstracted to tokens that carry the request q they belong to, *)
(* its number r and their place p in it; r, q and p are no part of the C   *)
(* state.  A client sends, for one request,                                *)
(*                                                                         *)
(*     line end  data*            no body, or Content-Length               *)
(*     line end  chunk* last      Transfer-Encoding: chunked               *)
(*                                                                         *)
(* "end" and "last" are the tokens whose bytes end with CRLF CRLF, what    *)
(* parse_headers looks for.  The payload of a "data" token is one opaque   *)
(* word without blanks or line breaks.  The server queues the tokens       *)
(* "continue", "head", "body", "chunk" and "fin"; eom marks the last token *)
(* of a final response.                                                    *)
(***************************************************************************)
EXTENDS Integers, Sequences

CONSTANT
  MaxBody     \* CTTP_MAX_BODY_SZ, in body tokens

ReplyKind == {"plain", "empty", "chunked", "sse"}

(***************************************************************************)
(* What the engine distinguishes of a request.  fault says where it is     *)
(* malformed: in the request line before the version is stored, in the     *)
(* target (which does not percent-decode), in a header line, in the value  *)
(* of Content-Length, or where the last chunk should have been: a size     *)
(* line that is none, or a size near 2^64 ("huge").  reply is what the     *)
(* handler of its route does with the response.                            *)
(***************************************************************************)
Request ==
  [ver    : {0, 1},
   conn   : {"none", "close", "keep-alive"},
   method : {"GET", "HEAD", "POST", "UNKNOWN"},
   body   : {"none", "length", "chunked"},
   size   : Nat,
   expect : BOOLEAN,
   fault  : {"none", "line", "target", "header", "length", "chunk", "huge"},
   reply  : ReplyKind]

ASSUME MaxBodyAssumption == MaxBody \in Nat

ConnState == {"READ_HEADERS", "READ_BODY", "READ_CHUNK", "WRITE"}

\* memset in http_init_request.
BlankRequest ==
  [ver |-> 0, conn |-> "none", method |-> "GET", body |-> "none", size |-> 0,
   expect |-> FALSE, fault |-> "none", reply |-> "plain"]

InTok ==
  [t : {"line", "end", "data", "chunk", "last", "bad", "huge"}, r : Nat, q : Request,
   p : Nat \ {0}]

FinalStatus == {200, 400, 413, 501}

OutTok ==
  [t : {"continue", "head", "body", "chunk", "fin"}, r : Nat,
   code : FinalStatus \cup {100}, eom : BOOLEAN]

(***************************************************************************)
(* struct conn.  req is what the parser has stored of the request it looks *)
(* at, num that request's number (no part of the C state), body its        *)
(* req.body.len and id the value of req_counter in its req_id.             *)
(***************************************************************************)
Conn ==
  [state : ConnState, next_state : ConnState,
   in : Seq(InTok), out : Seq(OutTok), out_off : Nat, last_activity : Nat,
   req : Request, num : Nat, body : Nat, body_remaining : Nat,
   keep_alive : BOOLEAN, streamed : BOOLEAN, want_continue : BOOLEAN, id : Nat]

\* calloc in accept_new_clients; also stands for a connection that is not open.
BlankConn ==
  [state |-> "READ_HEADERS", next_state |-> "READ_HEADERS",
   in |-> <<>>, out |-> <<>>, out_off |-> 0, last_activity |-> 0,
   req |-> BlankRequest, num |-> 0, body |-> 0, body_remaining |-> 0,
   keep_alive |-> FALSE, streamed |-> FALSE, want_continue |-> FALSE, id |-> 0]

Smaller(m, n) == IF m < n THEN m ELSE n

\* buf_consume: what is left of a buffer once its first n tokens are used.
Consume(s, n) == SubSeq(s, n + 1, Len(s))

-----------------------------------------------------------------------------
(* Building a response.                                                    *)

KeepAliveIgnoringClose(c) == c.req.ver = 1   \* broken: Connection is not read

DecideKeepAlive(c) ==
  IF c.req.conn # "none" THEN c.req.conn = "keep-alive" ELSE c.req.ver = 1

\* A queued token of the response to the request being served; its last one.
Part(c, kind, code) == [t |-> kind, r |-> c.num, code |-> code, eom |-> FALSE]
End(c, kind, code)  == [t |-> kind, r |-> c.num, code |-> code, eom |-> TRUE]

\* The bytes http_finalize_response writes when nothing was streamed.
ResponseBytes(c, code, reply) ==
  CASE reply = "empty" -> <<End(c, "head", code)>>
    [] reply = "plain" -> <<Part(c, "head", code), End(c, "body", code)>>
    [] OTHER -> <<Part(c, "head", code), Part(c, "chunk", code), End(c, "fin", code)>>

\* Tokens are appended to c->out, for the loop to flush.
Queue(c, toks) == [c EXCEPT !.out = @ \o toks, !.state = "WRITE"]

FinalizeResponse(c, code, reply) ==
  IF c.streamed
    THEN Queue(c, <<End(c, "fin", code)>>)
    ELSE Queue([c EXCEPT !.keep_alive = DecideKeepAlive(c)],
               ResponseBytes(c, code, reply))

ErrorResponse(c, code) == FinalizeResponse(c, code, "plain")

\* cttp_sse_start, then one cttp_sse_send: the header block and one event.
SseStart(c) ==
  Queue([c EXCEPT !.streamed = TRUE, !.keep_alive = c.req.ver = 1],
        <<Part(c, "head", 200)>>)

StreamWrite(c) == Queue(c, <<Part(c, "chunk", 200)>>)

\* head_only, set for HEAD, silences a body that is not chunked.
Reply(q) == IF q.method = "HEAD" /\ q.reply = "plain" THEN "empty" ELSE q.reply

Dispatch(c) ==
  LET handled == IF c.req.reply = "sse" THEN StreamWrite(SseStart(c)) ELSE c
  IN  FinalizeResponse(handled, 200, Reply(c.req))

-----------------------------------------------------------------------------
(* Request line and headers.                                               *)

Terminators == {"end", "last"}

IsBlockEnd(in, e) ==
  /\ in[e].t \in Terminators
  /\ \A k \in 1 .. (e - 1) : in[k].t \notin Terminators

HasBlock(in) == \E e \in 1 .. Len(in) : IsBlockEnd(in, e)

BlockEnd(in) == CHOOSE e \in 1 .. Len(in) : IsBlockEnd(in, e)

(***************************************************************************)
(* The first e tokens hold a request line: "line end", possibly behind     *)
(* words left over from an earlier body, which then become part of the     *)
(* method's name.  Anything else has no two blanks in its first line.      *)
(***************************************************************************)
HasRequestLine(in, e) ==
  /\ e >= 2
  /\ in[e].t = "end"
  /\ in[e - 1].t = "line"
  /\ \A k \in 1 .. (e - 2) : in[k].t = "data"

\* The token that says which request the block is of.
BlockToken(in, e) == IF HasRequestLine(in, e) THEN in[e - 1] ELSE in[1]

\* What a parse of the block stores in c->req, malformed or not.
Stored(in, e) ==
  LET q == BlockToken(in, e).q
  IN  CASE ~HasRequestLine(in, e) \/ q.fault = "line" -> BlankRequest
        [] HasRequestLine(in, e) /\ q.fault = "target" ->
             [BlankRequest EXCEPT !.method = q.method, !.ver = q.ver]
        [] OTHER -> q

WellFormed(in, e) ==
  HasRequestLine(in, e) /\ BlockToken(in, e).q.fault \notin {"line", "target", "header"}

BlockKept(c, e) == c.in        \* broken: no buf_consume

\* parse_headers consumes the block only when all of it is well formed.
AfterBlock(c, e) == IF WellFormed(c.in, e) THEN Consume(c.in, e) ELSE c.in

ParseHeaders(c) ==
  LET e == BlockEnd(c.in)
  IN  [c EXCEPT !.num = BlockToken(c.in, e).r,
                !.req = Stored(c.in, e),
                !.in = AfterBlock(c, e)]

-----------------------------------------------------------------------------
(* Request bodies.                                                         *)

SendContinue100(c) ==
  Queue([c EXCEPT !.want_continue = TRUE, !.next_state = c.state],
        <<Part(c, "continue", 100)>>)

TakeOneTooMany(c) == Smaller(c.body_remaining + 1, Len(c.in))   \* broken: off by one

\* How much of c->in belongs to the body announced by Content-Length.
BodyTake(c) == Smaller(c.body_remaining, Len(c.in))

ReadBodyLength(c) ==
  LET take == BodyTake(c)
      read == [c EXCEPT !.body = @ + take,
                        !.in = Consume(@, take),
                        !.body_remaining = @ - take]
  IN  IF take >= c.body_remaining THEN Dispatch(read) ELSE read

(***************************************************************************)
(* The chunked decoder stops at the first token that is not a chunk it can *)
(* store: the terminating one, a malformed one, or one that would exceed   *)
(* the cap.  The offending bytes of the last two stay in c->in.  A huge    *)
(* size exceeds the cap when the body is empty; after any data the sum     *)
(* with body.len wraps around in size_t and passes (Wraps): the decoder    *)
(* then takes all there is for the data of that chunk.                     *)
(***************************************************************************)
IsStop(c, k) ==
  /\ c.in[k].t # "chunk" \/ c.body + k > MaxBody
  /\ \A j \in 1 .. (k - 1) : c.in[j].t = "chunk" /\ c.body + j <= MaxBody

HasStop(c) == \E k \in 1 .. Len(c.in) : IsStop(c, k)

StopAt(c) == CHOOSE k \in 1 .. Len(c.in) : IsStop(c, k)

Wraps(c) ==
  HasStop(c) /\ c.in[StopAt(c)].t = "huge" /\ c.body + (StopAt(c) - 1) > 0

Decoded(c, n) == [c EXCEPT !.body = @ + n, !.in = Consume(@, n)]

LastKept(c) == c       \* broken: the CRLF behind the last chunk is left

AfterLast(c) == [c EXCEPT !.in = Consume(@, 1)]

ReadBodyChunked(c) ==
  IF ~HasStop(c) \/ Wraps(c) THEN Decoded(c, Len(c.in))
  ELSE LET k    == StopAt(c)
           read == Decoded(c, k - 1)
       IN  CASE c.in[k].t = "last"              -> Dispatch(AfterLast(read))
             [] c.in[k].t \in {"chunk", "huge"} -> ErrorResponse(read, 413)
             [] OTHER                           -> ErrorResponse(read, 400)

ReadBody(c) ==
  CASE c.state = "READ_BODY"  -> ReadBodyLength(c)
    [] c.state = "READ_CHUNK" -> ReadBodyChunked(c)
    [] OTHER                  -> c

-----------------------------------------------------------------------------
(* http_read_step: everything that c->in allows to be done now.            *)

ReadAfterHeaders(c) == IF c.req.expect THEN SendContinue100(c) ELSE ReadBody(c)

BeginBody(c) ==
  LET q == c.req
  IN  CASE q.body = "chunked" ->
             ReadAfterHeaders([c EXCEPT !.state = "READ_CHUNK"])
        [] q.body = "length" /\ q.fault = "length" -> ErrorResponse(c, 400)
        [] q.body = "length" /\ q.fault # "length" /\ q.size > MaxBody ->
             ErrorResponse(c, 413)
        [] q.body = "length" /\ q.fault # "length" /\ q.size <= MaxBody ->
             ReadAfterHeaders([c EXCEPT !.state = "READ_BODY",
                                        !.body_remaining = q.size])
        [] OTHER -> Dispatch(c)

\* The method of a request line that follows left over words is not known.
UnknownMethod(in, e) == e > 2 \/ BlockToken(in, e).q.method = "UNKNOWN"

ReadHeaders(c) ==
  IF ~HasBlock(c.in) THEN c
  ELSE LET e      == BlockEnd(c.in)
           parsed == ParseHeaders(c)
       IN  IF ~WellFormed(c.in, e) THEN ErrorResponse(parsed, 400)
           ELSE IF UnknownMethod(c.in, e) THEN ErrorResponse(parsed, 501)
           ELSE BeginBody(parsed)

ReadStep(c) == IF c.state = "READ_HEADERS" THEN ReadHeaders(c) ELSE ReadBody(c)

(***************************************************************************)
(* The decoder's for (;;) goes round for ever when the input ends within   *)
(* the data of a chunk: take is then 0 and nothing changes.  Tokens are    *)
(* whole, so a chunk cut by TCP shows as one of two outcomes of a step     *)
(* that stored data and wants more: the last chunk has come in full and    *)
(* the call returns, or it has come in part and the call does not.  It     *)
(* never returns once a size has wrapped.                                  *)
(***************************************************************************)
MidBody(c) == ReadStep(c).state = "READ_CHUNK" /\ ReadStep(c).body > c.body

HasHuge(in) == \E k \in 1 .. Len(in) : in[k].t = "huge"

MayHang(c) == MidBody(c)
MustHang(c) == MidBody(c) /\ HasHuge(c.in)

OffsetKept(c, id) ==     \* broken: out_off survives the reset
  [BlankConn EXCEPT !.in = c.in, !.last_activity = c.last_activity,
                    !.next_state = c.next_state, !.id = id, !.out_off = c.out_off]

OutputKept(c, id) ==     \* broken: c->out survives the reset
  [BlankConn EXCEPT !.in = c.in, !.last_activity = c.last_activity,
                    !.next_state = c.next_state, !.id = id, !.out = c.out]

\* conn_reset_for_next: c->in is kept for the next request.
ConnReset(c, id) ==
  [BlankConn EXCEPT !.in = c.in, !.last_activity = c.last_activity,
                    !.next_state = c.next_state, !.id = id]

ContinueKept(c) ==       \* broken: the sent 100 stays in c->out
  [c EXCEPT !.want_continue = FALSE, !.state = c.next_state, !.out_off = 0]

\* on_flush_complete after a 100 Continue: go back to reading the body.
ResumeBody(c) ==
  [c EXCEPT !.want_continue = FALSE, !.state = c.next_state,
            !.out = <<>>, !.out_off = 0]

Pending(c) == Len(c.out) - c.out_off

=============================================================================
