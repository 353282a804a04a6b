-------------------------------- MODULE Net ---------------------------------
(***************************************************************************)
(* The world around the event loop, which is not code of the library: the  *)
(* kernel's side of each TCP connection, and the clients.  It is modelled  *)
(* from the calls server.c makes (accept, poll, recv, send, close) and     *)
(* their documented results.                                               *)
(*                                                                         *)
(* A client connects once, then sends the tokens of its script in order.   *)
(* A polite one waits for the answer to a request before it starts the     *)
(* next, and for "100 Continue" before a body it announced with Expect; an *)
(* Eager one waits for neither, which HTTP/1.1 allows (pipelining, and a   *)
(* body sent without waiting for the 100).                                 *)
(***************************************************************************)
EXTENDS Http

CONSTANTS
  Clients,     \* the peers; each opens one connection, which it also names
  Scripts,     \* the sequences of requests a client may send
  Eager,       \* the clients that do not wait
  SndBuf,      \* tokens the kernel holds between send() and the client
  Departures   \* how a client may leave: a subset of {"eof", "rst"}

ASSUME ScriptsAssumption == Scripts \subseteq Seq(Request)
ASSUME EagerAssumption == Eager \subseteq Clients
ASSUME SndBufAssumption == SndBuf \in Nat \ {0}
ASSUME DeparturesAssumption == Departures \subseteq {"eof", "rst"}

VARIABLES
  fd,       \* the server's descriptor of c: "none", "open" or "closed"
  backlog,  \* connections established and not yet accepted, oldest first
  rx,       \* rx[c]: received by the kernel, not yet by recv()
  tx,       \* tx[c]: accepted by send(), not yet read by the client
  got,      \* got[c]: everything the client has read
  peer,     \* the client: "absent", "connected", "eof" (sent FIN) or "rst"
  at,       \* at[c]: the next token of its script the client sends
  script    \* script[c]: the requests of client c, fixed from the start

netVars == <<fd, backlog, rx, tx, got, peer, at, script>>

Cursor == [req : Nat \ {0}, pos : Nat \ {0}]

NetTypeOK ==
  /\ fd \in [Clients -> {"none", "open", "closed"}]
  /\ backlog \in Seq(Clients)
  /\ rx \in [Clients -> Seq(InTok)]
  /\ tx \in [Clients -> Seq(OutTok)]
  /\ \A c \in Clients : Len(tx[c]) <= SndBuf
  /\ got \in [Clients -> Seq(OutTok)]
  /\ peer \in [Clients -> {"absent", "connected", "eof", "rst"}]
  /\ at \in [Clients -> Cursor]
  /\ script \in [Clients -> Seq(Request)]

NetInit ==
  /\ fd = [c \in Clients |-> "none"]
  /\ backlog = <<>>
  /\ rx = [c \in Clients |-> <<>>]
  /\ tx = [c \in Clients |-> <<>>]
  /\ got = [c \in Clients |-> <<>>]
  /\ peer = [c \in Clients |-> "absent"]
  /\ at = [c \in Clients |-> [req |-> 1, pos |-> 1]]
  /\ script \in [Clients -> Scripts]

-----------------------------------------------------------------------------
(* What a client sends.                                                    *)

Done(c) == at[c].req > Len(script[c])

Sending(c) == script[c][at[c].req]

TokenKind(q, pos) ==
  CASE pos = 1                          -> "line"
    [] pos = 2                          -> "end"
    [] pos > 2 /\ q.body # "chunked"    -> "data"
    [] pos > 2 /\ q.body = "chunked"    ->
         IF pos <= q.size + 2 THEN "chunk"
         ELSE CASE q.fault = "chunk" -> "bad"
                [] q.fault = "huge"  -> "huge"
                [] OTHER             -> "last"

LastPos(q) ==
  CASE q.body = "none"    -> 2
    [] q.body = "length"  -> 2 + q.size
    [] q.body = "chunked" -> 3 + q.size

\* The cursor behind the token at cursor a of request q.
Beyond(a, q) ==
  IF a.pos = LastPos(q) THEN [req |-> a.req + 1, pos |-> 1]
                        ELSE [a EXCEPT !.pos = @ + 1]

\* Client c has read the whole final response to its request r.
Answered(c, r) == \E j \in 1 .. Len(got[c]) : got[c][j].r = r /\ got[c][j].eom

Invited(c, r) == \E j \in 1 .. Len(got[c]) : got[c][j].r = r /\ got[c][j].t = "continue"

NextToken(c) ==
  [t |-> TokenKind(Sending(c), at[c].pos), r |-> at[c].req, q |-> Sending(c),
   p |-> at[c].pos]

MaySend(c) ==
  \/ c \in Eager
  \/ /\ at[c].pos = 1 => at[c].req = 1 \/ Answered(c, at[c].req - 1)
     /\ at[c].pos = 3 /\ Sending(c).expect => Invited(c, at[c].req)

-----------------------------------------------------------------------------
(* Actions of the clients and the network.                                 *)

Connect(c) ==
  /\ peer[c] = "absent"
  /\ peer' = [peer EXCEPT ![c] = "connected"]
  /\ backlog' = Append(backlog, c)
  /\ UNCHANGED <<fd, rx, tx, got, at, script>>

Send(c) ==
  /\ peer[c] = "connected"
  /\ fd[c] # "closed"
  /\ ~Done(c)
  /\ MaySend(c)
  /\ rx' = [rx EXCEPT ![c] = Append(@, NextToken(c))]
  /\ at' = [at EXCEPT ![c] = Beyond(@, Sending(c))]
  /\ UNCHANGED <<fd, backlog, tx, got, peer, script>>

\* The final answer came instead of the 100: the body is not sent.
SkipBody(c) ==
  /\ peer[c] = "connected"
  /\ ~Done(c)
  /\ at[c].pos = 3
  /\ Sending(c).expect
  /\ Answered(c, at[c].req)
  /\ at' = [at EXCEPT ![c] = [req |-> @.req + 1, pos |-> 1]]
  /\ UNCHANGED <<fd, backlog, rx, tx, got, peer, script>>

Receive(c) ==
  /\ peer[c] \in {"connected", "eof"}
  /\ tx[c] # <<>>
  /\ got' = [got EXCEPT ![c] = @ \o tx[c]]
  /\ tx' = [tx EXCEPT ![c] = <<>>]
  /\ UNCHANGED <<fd, backlog, rx, peer, at, script>>

\* FIN: no more requests, but answers are still read.
LeaveEof(c) ==
  /\ "eof" \in Departures
  /\ peer[c] = "connected"
  /\ peer' = [peer EXCEPT ![c] = "eof"]
  /\ UNCHANGED <<fd, backlog, rx, tx, got, at, script>>

\* RST: what is in flight to the client is lost, what it sent may be too.
LeaveRst(c) ==
  /\ "rst" \in Departures
  /\ peer[c] \in {"connected", "eof"}
  /\ peer' = [peer EXCEPT ![c] = "rst"]
  /\ tx' = [tx EXCEPT ![c] = <<>>]
  /\ \/ UNCHANGED rx
     \/ rx' = [rx EXCEPT ![c] = <<>>]
  /\ UNCHANGED <<fd, backlog, got, at, script>>

(***************************************************************************)
(* close() on a socket with unread input, or input arriving after it,      *)
(* makes the kernel send RST, and the end of the answer may never be read. *)
(***************************************************************************)
ResetAfterClose(c) ==
  /\ fd[c] = "closed"
  /\ rx[c] # <<>> \/ (peer[c] = "connected" /\ ~Done(c))
  /\ tx[c] # <<>>
  /\ tx' = [tx EXCEPT ![c] = <<>>]
  /\ UNCHANGED <<fd, backlog, rx, got, peer, at, script>>

NetStep(c) ==
  \/ Connect(c)
  \/ Send(c)
  \/ SkipBody(c)
  \/ Receive(c)
  \/ LeaveEof(c)
  \/ LeaveRst(c)
  \/ ResetAfterClose(c)

-----------------------------------------------------------------------------
(* What poll() reports of client c's socket when it is asked for events.   *)

Revents(c, events) ==
  (IF rx[c] # <<>> \/ peer[c] \in {"eof", "rst"} THEN {"IN"} ELSE {})
    \cup (IF Len(tx[c]) < SndBuf \/ peer[c] = "rst" THEN events \cap {"OUT"} ELSE {})
    \cup (IF peer[c] = "rst" THEN {"HUP"} ELSE {})

=============================================================================
