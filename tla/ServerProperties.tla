-------------------------- MODULE ServerProperties --------------------------
(***************************************************************************)
(* What the event loop and the HTTP engine promise together.  Properties   *)
(* that only hold for some scripts say for which; the scripts a run uses   *)
(* are in MCServer.                                                        *)
(***************************************************************************)
EXTENDS Server

(***************************************************************************)
(* The two parallel arrays of server.c describe the same sockets: every    *)
(* slot behind the listener's is an open connection, no connection has two *)
(* slots, none is outside the table before cttp_free, and the table fits   *)
(* the memory table_reserve got.  conn_close moves slots while the serve   *)
(* and reap loops run over them.                                           *)
(***************************************************************************)
Parallel ==
  /\ Len(conns) = Len(pfds)
  /\ \A k \in 1 .. Len(conns) : pfds[k].fd = conns[k]

SlotsDistinct ==
  \A j, k \in 1 .. Len(conns) : j # k => conns[j] # conns[k]

SlotsOpen ==
  \A k \in 1 .. Len(conns) :
    IF k = 1 THEN conns[k] = Listener
             ELSE conns[k] \in Clients /\ fd[conns[k]] = "open"

NoneOutside ==
  pc # "freed" =>
    \A c \in Clients : fd[c] = "open" => \E k \in 2 .. Len(conns) : conns[k] = c

TableSound ==
  /\ Parallel
  /\ SlotsDistinct
  /\ SlotsOpen
  /\ NoneOutside
  /\ Len(conns) <= cap

(***************************************************************************)
(* A connection is in CONN_WRITE exactly when bytes wait in c->out.  The   *)
(* engine sets the state and the loop asks for POLLOUT by looking at the   *)
(* buffer, so a difference would leave the connection waiting for ever, or *)
(* run on_flush_complete on one that has not been answered.                *)
(***************************************************************************)
WriteHasOutput ==
  \A c \in Clients : conn[c].state = "WRITE" <=> Pending(conn[c]) > 0

(***************************************************************************)
(* X-Request-Id: open connections hold different ids, all of them issued.  *)
(***************************************************************************)
FreshIds ==
  \A c, d \in Clients :
    fd[c] = "open" =>
      /\ conn[c].id \in 1 .. counter
      /\ fd[d] = "open" /\ conn[c].id = conn[d].id => c = d

\* The only thread is in the chunked decoder, with the body of client c.
Hung(c) == pc = "spin" /\ conns[i] = c

(***************************************************************************)
(* The inductive invariant behind TypeOK, TableSound, WriteHasOutput and   *)
(* FreshIds.  It adds where the loop variable may be and what exists when  *)
(* the loop is not running, that a connection waiting to be accepted has   *)
(* no descriptor yet, and that a 100 Continue is only ever being sent by a *)
(* connection that will then read a body.                                  *)
(***************************************************************************)
LoopBounds ==
  /\ pc = "init" => conns = <<>> /\ pfds = <<>> /\ cap = 0
                    /\ \A c \in Clients : fd[c] = "none"
  /\ pc \in {"top", "poll", "accept", "serve", "spin", "reap"} => Len(conns) >= 1
  /\ pc = "serve" => i >= 2
  /\ pc = "spin" => i \in 2 .. Len(conns) /\ conn[conns[i]].state = "READ_CHUNK"
  /\ pc = "reap" => i <= Len(conns)

BacklogSound ==
  /\ \A k \in 1 .. Len(backlog) : fd[backlog[k]] = "none" /\ peer[backlog[k]] # "absent"
  /\ \A j, k \in 1 .. Len(backlog) : j # k => backlog[j] # backlog[k]
  /\ \A c \in Clients : peer[c] = "absent" => fd[c] = "none"

ContinueSound ==
  \A c \in Clients :
    conn[c].want_continue =>
      conn[c].state = "WRITE" /\ conn[c].next_state \in {"READ_BODY", "READ_CHUNK"}

IndInv ==
  /\ TypeOK
  /\ LoopBounds
  /\ TableSound
  /\ BacklogSound
  /\ WriteHasOutput
  /\ ContinueSound
  /\ FreshIds

-----------------------------------------------------------------------------
(* The byte stream a client sees.                                          *)

Unsent(c) ==
  IF peer[c] = "rst" THEN <<>> ELSE Consume(conn[c].out, conn[c].out_off)

\* Everything written for client c: read by it, in the kernel, in c->out.
Stream(c) == got[c] \o tx[c] \o Unsent(c)

\* b may come right after a in a stream of responses.
Follows(a, b) ==
  \/ a.eom /\ b.t \in {"continue", "head"} /\ a.r <= b.r
  \/ /\ ~a.eom /\ a.r = b.r
     /\ \/ a.t = "continue" /\ b.t = "head"
        \/ a.t = "head" /\ b.t \in {"body", "chunk"}
        \/ a.t = "chunk" /\ b.t \in {"chunk", "fin"}

Framed(s) ==
  /\ s # <<>> => s[1].t \in {"continue", "head"}
  /\ \A j \in 1 .. (Len(s) - 1) : Follows(s[j], s[j + 1])

(***************************************************************************)
(* The responses of a connection reach its client whole, in the order of   *)
(* its requests and never mixed, whatever partial sends, 100 Continues and *)
(* closed neighbours come in between.                                      *)
(***************************************************************************)
StreamWellFramed == \A c \in Clients : Framed(Stream(c))

QueuedFinal(c, r) == \E j \in 1 .. Len(Stream(c)) : Stream(c)[j].r = r /\ Stream(c)[j].eom

\* Every request of c is one the engine accepts.
Faultless(c) ==
  \A r \in 1 .. Len(script[c]) :
    /\ script[c][r].fault = "none"
    /\ script[c][r].method # "UNKNOWN"
    /\ script[c][r].size <= MaxBody

(***************************************************************************)
(* No request is answered twice, and none of a client is passed over: the  *)
(* input buffer is consumed by parse_headers and the body readers exactly  *)
(* up to the end of the request that is dispatched.                        *)
(***************************************************************************)
OneAnswerEach ==
  \A c \in Clients : Faultless(c) =>
    LET s == Stream(c)
        finals == {j \in 1 .. Len(s) : s[j].eom}
    IN  /\ \A j, k \in finals : s[j].r = s[k].r => j = k
        /\ \A j \in finals : \A r \in 1 .. s[j].r : \E k \in finals : s[k].r = r

\* What is left in c->in is of no request that has been answered.
LeftoverIsNext(c) ==
  \A k \in 1 .. Len(conn[c].in) : ~QueuedFinal(c, conn[c].in[k].r)

(***************************************************************************)
(* "bytes the client already sent for the next pipelined request survive   *)
(* for the next parse" (conn_reset_for_next): what is left in c->in once a *)
(* request has been answered is of later requests only, for clients that   *)
(* make no mistakes.                                                       *)
(***************************************************************************)
LeftoverIsNextRequest == \A c \in Clients : Faultless(c) => LeftoverIsNext(c)

(***************************************************************************)
(* A handler runs when the whole body has been read, neither less nor      *)
(* more.  No body grows beyond MaxBody, with one exception: the size_t sum *)
(* that read_body_chunked holds against the cap wraps around for a size    *)
(* near 2^64 (http.c:399).  Such a body may overrun the cap, but it is in  *)
(* a decoder that never returns, so no handler ever sees it.               *)
(***************************************************************************)
SendsHuge(c) == \E r \in 1 .. Len(script[c]) : script[c][r].fault = "huge"

Overrun(c) == Hung(c) /\ SendsHuge(c)

BodyExact ==
  \A c \in Clients :
    LET cn == conn[c]
    IN  /\ cn.body <= MaxBody \/ Overrun(c)
        /\ (cn.state = "WRITE" /\ cn.out[Len(cn.out)].code = 200) =>
             cn.body = IF cn.req.body = "none" THEN 0 ELSE cn.req.size

\* The request that ends its connection, by HTTP's rules.
WantsClose(q) == q.conn = "close" \/ (q.ver = 0 /\ q.conn = "none")

\* tok ends an answer after which the connection is to be closed.  SSE
\* answers are left out: cttp_sse_start decides by the version alone.
Ending(tok, requests) ==
  /\ tok.eom
  /\ tok.code = 200
  /\ WantsClose(requests[tok.r])
  /\ requests[tok.r].reply # "sse"

EndsOnce(s, requests) == \A j \in 1 .. (Len(s) - 1) : ~Ending(s[j], requests)

(***************************************************************************)
(* After the answer to a request that wanted the connection closed comes   *)
(* no other answer (decide_keep_alive, on_flush_complete).                 *)
(***************************************************************************)
NothingAfterClose == \A c \in Clients : EndsOnce(Stream(c), script[c])

(***************************************************************************)
(* The inductive invariant behind StreamWellFramed and NothingAfterClose.  *)
(* It says, of a connection that is open, how its stream may end and what  *)
(* numbers may come next: between answers the stream ends with a whole     *)
(* one, while a body is read at most with the 100 Continue for it; what    *)
(* waits in c->in and in the kernel is of the same or of later requests.   *)
(* A block that was refused stays in c->in and comes up again (Upcoming).  *)
(***************************************************************************)
Queued(cn) == cn.state = "WRITE" /\ ~cn.want_continue

ReadsBody(cn) == cn.state \in {"READ_BODY", "READ_CHUNK"} \/ cn.want_continue

\* The number of the request at hand, or else of the last one answered.
Floor(cn, s) ==
  IF ReadsBody(cn) THEN cn.num ELSE IF s = <<>> THEN 0 ELSE s[Len(s)].r

AllFrom(in, n) == \A k \in 1 .. Len(in) : n <= in[k].r

\* The next request found in the input has number n or a later one.
Upcoming(in, n) ==
  AllFrom(in, n) \/ (HasBlock(in) /\ n <= BlockToken(in, BlockEnd(in)).r)

\* What client c has sent and the engine has not used.
Input(c) == conn[c].in \o rx[c]

\* The requests client c has begun to send.
Asked(c) == IF at[c].pos > 1 THEN at[c].req ELSE at[c].req - 1

\* in is of the requests of a script, in their order, up to number n.
InOrder(in, requests, n) ==
  /\ \A j, k \in 1 .. Len(in) : j <= k => in[j].r <= in[k].r
  /\ \A k \in 1 .. Len(in) :
       in[k].r <= n /\ in[k].r \in 1 .. Len(requests) /\ in[k].q = requests[in[k].r]

\* The stream s of a connection may end here.
OutputEnds(cn, s) ==
  s # <<>> =>
    \/ s[Len(s)].eom /\ s[Len(s)].r <= Floor(cn, s)
    \/ /\ ~s[Len(s)].eom /\ s[Len(s)].t = "continue"
       /\ ReadsBody(cn) /\ s[Len(s)].r = cn.num

NumbersAhead(c) ==
  LET n == Floor(conn[c], Stream(c))
  IN  n <= Asked(c) /\ AllFrom(rx[c], n) /\ Upcoming(conn[c].in, n)

BodyKnown(cn, requests) ==
  ReadsBody(cn) =>
    /\ AllFrom(cn.in, cn.num)
    /\ cn.num \in 1 .. Len(requests)
    /\ cn.req = requests[cn.num]

CloseFollows(cn, s, requests) ==
  s # <<>> /\ Ending(s[Len(s)], requests) => Queued(cn) /\ ~cn.keep_alive

StreamSound(c) ==
  /\ conn[c].streamed \/ conn[c].keep_alive => Queued(conn[c])
  /\ fd[c] # "open" => conn[c] = BlankConn
  /\ fd[c] = "none" => Stream(c) = <<>>
  /\ InOrder(Input(c), script[c], Asked(c))
  /\ fd[c] = "open" /\ peer[c] # "rst" =>
       /\ OutputEnds(conn[c], Stream(c))
       /\ NumbersAhead(c)
       /\ BodyKnown(conn[c], script[c])
       /\ CloseFollows(conn[c], Stream(c), script[c])

FlowInv == StreamWellFramed /\ NothingAfterClose /\ \A c \in Clients : StreamSound(c)

(***************************************************************************)
(* The inductive invariant behind BodyExact, OneAnswerEach and             *)
(* LeftoverIsNextRequest.  It follows the input token by token: what waits *)
(* in c->in and in the kernel goes on where the body at hand has come to,  *)
(* or where the last request answered ended.  A client that skips a body   *)
(* it announced, or one that is reset, leaves a gap, and one that makes    *)
(* mistakes is answered before its request has ended; so only the first    *)
(* part is said of every client, and nothing of a body that overruns.      *)
(***************************************************************************)
Place(tok) == [req |-> tok.r, pos |-> tok.p]

\* The place of the k-th token of in, whose sender has come to place a.
Ahead(in, a, k) == IF k <= Len(in) THEN Place(in[k]) ELSE a

\* Places count up from token to token, unless a request begins in between.
Coherent(in) ==
  /\ \A k \in 1 .. Len(in) :
       in[k].t = TokenKind(in[k].q, in[k].p) /\ in[k].p <= LastPos(in[k].q)
  /\ \A j, k \in 1 .. Len(in) : j < k =>
       \/ in[k].r = in[j].r /\ in[k].p = in[j].p + (k - j)
       \/ \E m \in (j + 1) .. k : in[m].p = 1

\* The sender goes on behind the last token, or begins a request.
GoesOn(in, a) ==
  in # <<>> => a.pos = 1 \/ (a.req = in[Len(in)].r /\ a.pos = in[Len(in)].p + 1)

\* The state in which the body at hand is being read.
BodyState(cn) == IF cn.want_continue THEN cn.next_state ELSE cn.state

\* The place of the last token used, while a body is read.
Reached(cn) == [req |-> cn.num, pos |-> 2 + cn.body]

\* Nothing of the body at hand is missing at place a.
Resumes(cn, a) == a.pos = 1 \/ a = [Reached(cn) EXCEPT !.pos = @ + 1]

Announced(q) == IF q.body = "none" THEN 0 ELSE q.size

BodyCounted(cn, requests) ==
  /\ cn.body <= MaxBody
  /\ cn.state = "READ_HEADERS" => cn.body = 0
  /\ ReadsBody(cn) => cn.num \in 1 .. Len(requests) /\ cn.req = requests[cn.num]
  /\ ReadsBody(cn) /\ BodyState(cn) = "READ_BODY" =>
       /\ cn.req.body = "length" /\ cn.req.size <= MaxBody
       /\ cn.body + cn.body_remaining = cn.req.size
  /\ ReadsBody(cn) /\ BodyState(cn) = "READ_CHUNK" =>
       cn.req.body = "chunked" /\ cn.body <= cn.req.size
  /\ cn.want_continue => cn.out[Len(cn.out)].code = 100
  /\ Queued(cn) /\ cn.out[Len(cn.out)].code = 200 => cn.body = Announced(cn.req)

\* The input in of one client that has come to place a, as far as cn has
\* read it; more may come unless the client is reset.
Tracks(cn, in, a, requests, more) ==
  /\ Coherent(in)
  /\ more => GoesOn(in, a)
  /\ BodyCounted(cn, requests)
  /\ ReadsBody(cn) /\ BodyState(cn) = "READ_CHUNK" /\ (in # <<>> \/ more) =>
       Resumes(cn, Ahead(in, a, 1))

InputSound(c) ==
  /\ at[c].pos <= IF Done(c) THEN 1 ELSE LastPos(Sending(c))
  /\ Tracks(conn[c], Input(c), at[c], script[c], peer[c] # "rst")

\* Token for token, the requests follow each other without a gap.
Gapless(in, a) ==
  \A j \in 1 .. Len(in), k \in 2 .. (Len(in) + 1) : j < k =>
    LET n == in[j].p + (k - j)
    IN  /\ n <= LastPos(in[j].q) => Ahead(in, a, k) = [req |-> in[j].r, pos |-> n]
        /\ n = LastPos(in[j].q) + 1 => Ahead(in, a, k) = [req |-> in[j].r + 1, pos |-> 1]

\* The request that is to be answered next, and where its rest begins.
NextAnswer(cn, s) == IF ReadsBody(cn) THEN cn.num ELSE Floor(cn, s) + 1

NextPlace(cn, s) ==
  IF ReadsBody(cn) THEN Beyond(Reached(cn), cn.req) ELSE [req |-> NextAnswer(cn, s), pos |-> 1]

\* The answers of a stream are to the first requests, one each.
Tallied(s) ==
  \A k \in 1 .. Len(s) : s[k].eom =>
    /\ 1 <= s[k].r
    /\ \A j \in 1 .. (k - 1) : s[j].eom => s[j].r < s[k].r
    /\ \A r \in 1 .. s[k].r : \E j \in 1 .. k : s[j].eom /\ s[j].r = r

\* The last answer of a stream is to request n.
TalliedTo(s, n) ==
  /\ \A k \in 1 .. Len(s) : s[k].eom => s[k].r <= n
  /\ n >= 1 => \E k \in 1 .. Len(s) : s[k].eom /\ s[k].r = n

\* The stream s answers the first requests, and in is of later ones.
Settled(s, in) ==
  /\ Tallied(s)
  /\ \A j \in 1 .. Len(s), k \in 1 .. Len(in) : s[j].eom => s[j].r < in[k].r

\* in goes on, up to place a, where the last answer or the body at hand ends.
Awaits(cn, s, in, a) ==
  /\ Gapless(in, a)
  /\ Ahead(in, a, 1) = NextPlace(cn, s)
  /\ TalliedTo(s, NextAnswer(cn, s) - 1)

ExactSound(c) ==
  /\ Settled(Stream(c), Input(c))
  /\ fd[c] # "closed" /\ peer[c] # "rst" => Awaits(conn[c], Stream(c), Input(c), at[c])

WireInv ==
  \A c \in Clients :
    Overrun(c) \/ (InputSound(c) /\ (Faultless(c) => ExactSound(c)))

(***************************************************************************)
(* What stands in the poll table is still true when a slot is served: a    *)
(* hangup is for good, and POLLOUT is only asked for and reported while    *)
(* bytes wait in c->out.                                                   *)
(***************************************************************************)
ReportSound(p) ==
  /\ "HUP" \in p.revents => peer[p.fd] = "rst"
  /\ "OUT" \in p.revents => Pending(conn[p.fd]) > 0
  /\ pc = "poll" /\ "OUT" \in p.events => Pending(conn[p.fd]) > 0

ReportsSound == \A k \in 2 .. Len(pfds) : ReportSound(pfds[k])

\* What is known of the streams of all clients.
StreamInv == FlowInv /\ WireInv /\ ReportsSound

-----------------------------------------------------------------------------
(* What a step may never do.                                               *)

Closes(c) == fd[c] = "open" /\ fd'[c] = "closed"

Leaving(c) == peer[c] \in {"eof", "rst"}

LastIsEnd(s) == s # <<>> /\ s[Len(s)].eom

(***************************************************************************)
(* The server closes the connection of a client that stays only when it is *)
(* idle or has been handed the end of an answer (conn_close, from every    *)
(* place of server.c that calls it).                                       *)
(***************************************************************************)
CloseIsClean ==
  [][\A c \in Clients :
       Closes(c) => Leaving(c) \/ Idle(c) \/ LastIsEnd(got[c] \o tx'[c])]_vars

\* No answer ends the connection of c, by the rules of the engine.
Persistent(c) ==
  /\ Faultless(c)
  /\ \A r \in 1 .. Len(script[c]) :
       /\ ~WantsClose(script[c][r])
       /\ script[c][r].reply = "sse" => script[c][r].ver = 1

(***************************************************************************)
(* As long as no answer ends a connection, every event poll() reports is   *)
(* served in the same round, although clients that leave and connections   *)
(* that are reaped move slots under the loop variables.  Where a completed *)
(* flush closes its connection this is not so: the loop goes on behind the *)
(* slot that has just been moved in (server.c:333-336), and serves it in a *)
(* later round.                                                            *)
(***************************************************************************)
RoundServesAll ==
  (\A c \in Clients : Persistent(c)) /\ pc = "reap" =>
    \A k \in 1 .. Len(pfds) : pfds[k].revents = {}

-----------------------------------------------------------------------------
(* Liveness.  The loop is a thread that keeps running; clients go on       *)
(* sending and reading.  Nothing is assumed of connects, departures,       *)
(* signals and the clock.                                                  *)

ClientMoves(c) ==
  (Send(c) \/ SkipBody(c) \/ Receive(c)) /\ UNCHANGED serverVars

FairSpec ==
  /\ Spec
  /\ WF_vars(Loop)
  /\ \A c \in Clients : WF_vars(ClientMoves(c))

\* Request r of client c must be answered: no earlier one ends the connection.
Due(c, r) == \A q \in 1 .. (r - 1) : ~WantsClose(script[c][q])

(***************************************************************************)
(* Every request that is due is answered, to a client that has connected,  *)
(* unless a chunk that TCP has cut holds up the only thread for good       *)
(* (http.c:409-415): from then on nobody is served.                        *)
(***************************************************************************)
HeldUp ==
  \E c \in Clients :
    Hung(c) /\ \E r \in 1 .. Len(script[c]) : script[c][r].body = "chunked"

Served ==
  \A c \in Clients :
    peer[c] = "connected" ~>
      \/ HeldUp
      \/ \A r \in 1 .. Len(script[c]) : Due(c, r) => Answered(c, r)

\* After handle_signal cttp_listen returns and cttp_free runs, even if
\* nothing ever happens on a socket: poll() wakes up by itself.  (A decoder
\* that hangs would keep the loop from seeing the flag; no client of the run
\* sends chunks.)
SignalEndsLoop == (pc # "init" /\ ~running) ~> (pc = "freed" \/ HeldUp)

\* The reaper closes a connection that has been idle for too long, unless
\* it comes to life, the server stops first, or the decoder hangs.
IdleIsReaped ==
  \A c \in Clients :
    (fd[c] = "open" /\ Idle(c)) ~>
      (fd[c] = "closed" \/ ~Idle(c) \/ ~running \/ HeldUp)

=============================================================================
