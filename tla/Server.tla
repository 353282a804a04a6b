------------------------------- MODULE Server -------------------------------
(***************************************************************************)
(* The event loop of internals/server.c: one thread, one poll() table of   *)
(* two parallel arrays, and a round of phases                              *)
(*                                                                         *)
(*   top -> poll -> accept -> serve (slot by slot) -> reap -> top          *)
(*                                                                         *)
(* between any two steps of which clients, the kernel, the clock and the   *)
(* signal handler may act.  The chunked decoder may keep the thread for    *)
(* ever ("spin").  conns and pfds are the C arrays of the same names, with *)
(* C index k at position k + 1, so the listener, slot 0 in C, is position  *)
(* 1.  A connection is named by its client.                                *)
(***************************************************************************)
EXTENDS Net

CONSTANTS
  Listener,     \* what slot 0 holds instead of a connection
  InitCap,      \* the capacity of a new table, 16 in the code
  IOChunk,      \* IO_CHUNK, the tokens one recv() returns at most
  Timeout,      \* timeout_secs
  MaxTime,      \* bound: the clock stops here
  Faults,       \* the calls that may fail: a subset of the three below
  AllowSignal   \* whether SIGINT or SIGTERM may arrive

ASSUME ListenerAssumption == Listener \notin Clients
ASSUME InitCapAssumption == InitCap \in Nat \ {0}
ASSUME IOChunkAssumption == IOChunk \in Nat \ {0}
ASSUME TimeAssumption == Timeout \in Nat /\ MaxTime \in Nat
ASSUME FaultsAssumption == Faults \subseteq {"listen", "accept", "poll"}
ASSUME AllowSignalAssumption == AllowSignal \in BOOLEAN

VARIABLES
  pc,       \* the phase the loop is in
  i,        \* the loop variable of the serve and reap loops
  running,  \* s->running
  conns,    \* s->conns[0 .. nconns-1]
  pfds,     \* s->pfds[0 .. nconns-1]
  cap,      \* s->cap
  counter,  \* s->req_counter
  conn,     \* conn[c]: the struct conn of client c, blank unless it is open
  now       \* time(NULL)

serverVars == <<pc, i, running, conns, pfds, cap, counter, conn, now>>
vars == <<netVars, serverVars>>

Phase == {"init", "top", "poll", "accept", "serve", "spin", "reap", "stopped",
          "freed"}

PollFd ==
  [fd : Clients \cup {Listener}, events : SUBSET {"IN", "OUT"},
   revents : SUBSET {"IN", "OUT", "HUP"}]

\* Every variable has its type, and no output cursor is out of bounds.
TypeOK ==
  /\ NetTypeOK
  /\ pc \in Phase
  /\ i \in Nat
  /\ running \in BOOLEAN
  /\ conns \in Seq(Clients \cup {Listener})
  /\ pfds \in Seq(PollFd)
  /\ cap \in Nat
  /\ counter \in Nat
  /\ conn \in [Clients -> Conn]
  /\ \A c \in Clients : conn[c].out_off <= Len(conn[c].out)
  /\ now \in 0 .. MaxTime

Init ==
  /\ NetInit
  /\ pc = "init"
  /\ i = 0
  /\ running = FALSE
  /\ conns = <<>>
  /\ pfds = <<>>
  /\ cap = 0
  /\ counter = 0
  /\ conn = [c \in Clients |-> BlankConn]
  /\ now = 0

-----------------------------------------------------------------------------
(* The connection table.                                                   *)

\* table_reserve.  Callers ask for one slot more, so one doubling is enough.
Reserve(n, need) ==
  IF need <= n THEN n ELSE IF n = 0 THEN InitCap ELSE 2 * n

\* The last slot moves into the hole.
SwapRemove(s, k) ==
  [j \in 1 .. (Len(s) - 1) |-> IF j = k THEN s[Len(s)] ELSE s[j]]

\* The table after slot k has been looked at in the serve loop.
Cleared(k) == [pfds EXCEPT ![k].revents = {}]

PollSlotKept(k, table) ==    \* broken: only conns[] gets its last slot moved
  /\ fd' = [fd EXCEPT ![conns[k]] = "closed"]
  /\ conn' = [conn EXCEPT ![conns[k]] = BlankConn]
  /\ conns' = SwapRemove(conns, k)
  /\ pfds' = SubSeq(table, 1, Len(table) - 1)
  /\ UNCHANGED <<backlog, rx, tx, got, peer, at, script>>

\* conn_close, when the poll table is already table.
ConnClose(k, table) ==
  /\ fd' = [fd EXCEPT ![conns[k]] = "closed"]
  /\ conn' = [conn EXCEPT ![conns[k]] = BlankConn]
  /\ conns' = SwapRemove(conns, k)
  /\ pfds' = SwapRemove(table, k)
  /\ UNCHANGED <<backlog, rx, tx, got, peer, at, script>>

-----------------------------------------------------------------------------
(* Start, end, and the head of the loop.                                   *)

Listen ==
  /\ pc = "init"
  /\ running' = TRUE
  /\ \/ /\ conns' = <<Listener>>
        /\ pfds' = <<[fd |-> Listener, events |-> {"IN"}, revents |-> {}]>>
        /\ cap' = Reserve(cap, 1)
        /\ pc' = "top"
     \/ /\ "listen" \in Faults
        /\ pc' = "stopped"
        /\ UNCHANGED <<conns, pfds, cap>>
  /\ UNCHANGED <<netVars, i, counter, conn, now>>

AlwaysOut(k) == {"IN", "OUT"}     \* broken: POLLOUT whether or not output waits
NeverOut(k) == {"IN"}             \* broken: the static interest of INTERNALS.md

Interest(k) ==
  IF Pending(conn[conns[k]]) > 0 THEN {"IN", "OUT"} ELSE {"IN"}

RenewInterest ==
  /\ pc = "top"
  /\ running
  /\ pfds' = [k \in 1 .. Len(pfds) |->
                IF k = 1 THEN pfds[k] ELSE [pfds[k] EXCEPT !.events = Interest(k)]]
  /\ pc' = "poll"
  /\ UNCHANGED <<netVars, i, running, conns, cap, counter, conn, now>>

Shutdown ==
  /\ pc = "top"
  /\ ~running
  /\ pc' = "stopped"
  /\ UNCHANGED <<netVars, i, running, conns, pfds, cap, counter, conn, now>>

\* cttp_free.
Free ==
  /\ pc = "stopped"
  /\ conns' = <<>>
  /\ pfds' = <<>>
  /\ cap' = 0
  /\ pc' = "freed"
  /\ UNCHANGED <<netVars, i, running, counter, conn, now>>

-----------------------------------------------------------------------------
(* poll().                                                                 *)

ReventsOf(k) ==
  IF k = 1 THEN IF backlog # <<>> THEN {"IN"} ELSE {}
           ELSE Revents(pfds[k].fd, pfds[k].events)

SomethingReady == \E k \in 1 .. Len(pfds) : ReventsOf(k) # {}

PollReady ==
  /\ pc = "poll"
  /\ SomethingReady
  /\ pfds' = [k \in 1 .. Len(pfds) |-> [pfds[k] EXCEPT !.revents = ReventsOf(k)]]
  /\ pc' = "accept"
  /\ UNCHANGED <<netVars, i, running, conns, cap, counter, conn, now>>

PollForever == FALSE     \* broken: poll() is given no timeout

\* POLL_INTERVAL_MS went by: every revents is zero.
PollTimeout ==
  /\ pc = "poll"
  /\ ~SomethingReady
  /\ pfds' = [k \in 1 .. Len(pfds) |-> [pfds[k] EXCEPT !.revents = {}]]
  /\ pc' = "accept"
  /\ UNCHANGED <<netVars, i, running, conns, cap, counter, conn, now>>

\* EINTR: a signal arrives while poll() sleeps; revents are not written.  One
\* that arrives just before the call (Signal) does not cut it short.
PollInterrupted ==
  /\ AllowSignal
  /\ pc = "poll"
  /\ ~SomethingReady
  /\ running' = FALSE
  /\ pc' = "top"
  /\ UNCHANGED <<netVars, i, conns, pfds, cap, counter, conn, now>>

PollFails ==
  /\ pc = "poll"
  /\ "poll" \in Faults
  /\ pc' = "stopped"
  /\ UNCHANGED <<netVars, i, running, conns, pfds, cap, counter, conn, now>>

-----------------------------------------------------------------------------
(* accept_new_clients.                                                     *)

IdReused == counter     \* broken: the id is formatted before the increment

NextId == counter + 1

Accept ==
  /\ pc = "accept"
  /\ "IN" \in pfds[1].revents
  /\ backlog # <<>>
  /\ LET c == Head(backlog)
     IN  /\ fd' = [fd EXCEPT ![c] = "open"]
         /\ conns' = Append(conns, c)
         /\ pfds' = Append(pfds, [fd |-> c, events |-> {"IN"}, revents |-> {}])
         /\ conn' = [conn EXCEPT ![c] =
                       ConnReset([BlankConn EXCEPT !.last_activity = now], NextId)]
  /\ backlog' = Tail(backlog)
  /\ cap' = Reserve(cap, Len(conns) + 1)
  /\ counter' = counter + 1
  /\ UNCHANGED <<rx, tx, got, peer, at, script, pc, i, running, now>>

\* EAGAIN, another error, or the listener was not ready at all.
AcceptDone ==
  /\ pc = "accept"
  /\ \/ "IN" \notin pfds[1].revents
     \/ backlog = <<>>
     \/ "accept" \in Faults
  /\ pfds' = Cleared(1)
  /\ pc' = "serve"
  /\ i' = 2
  /\ UNCHANGED <<netVars, running, conns, cap, counter, conn, now>>

-----------------------------------------------------------------------------
(* The serve loop: what is done with slot i depends on its revents.        *)

Serving == pc = "serve" /\ i <= Len(conns)

f == conns[i]
Rev == pfds[i].revents

\* The connection stays: its slot is done with, the next one is looked at.
Handled ==
  /\ pfds' = Cleared(i)
  /\ i' = i + 1
  /\ UNCHANGED <<pc, running, conns, cap, now>>

DroppedAndSkipped ==      \* broken: i moves on past the slot moved in
  /\ ConnClose(i, Cleared(i))
  /\ i' = i + 1
  /\ UNCHANGED <<pc, running, cap, counter, now>>

\* The connection goes, and the slot that moves into its place is next.
Dropped ==
  /\ ConnClose(i, Cleared(i))
  /\ UNCHANGED <<pc, i, running, cap, counter, now>>

ServeIdle ==
  /\ Serving
  /\ Rev = {}
  /\ Handled
  /\ UNCHANGED <<netVars, counter, conn>>

ServeHangup ==
  /\ Serving
  /\ "HUP" \in Rev
  /\ Dropped

ToRead == Serving /\ "HUP" \notin Rev /\ "IN" \in Rev

\* recv() ends with 0 or an error, not with a short read or EAGAIN.
RecvCloses == peer[f] \in {"eof", "rst"} /\ Len(rx[f]) % IOChunk = 0

ServeReadEnd ==
  /\ ToRead
  /\ RecvCloses
  /\ Dropped

Received ==
  [conn[f] EXCEPT !.in = @ \o rx[f],
                  !.last_activity = IF rx[f] = <<>> THEN @ ELSE now]

ReadOn ==
  /\ ToRead
  /\ ~RecvCloses
  /\ conn' = [conn EXCEPT ![f] = ReadStep(Received)]
  /\ rx' = [rx EXCEPT ![f] = <<>>]
  /\ UNCHANGED <<fd, backlog, tx, got, peer, at, script, counter>>

ServeRead ==
  /\ ReadOn
  /\ ~MustHang(Received)
  /\ Handled

\* read_body_chunked does not come back.
ServeReadHangs ==
  /\ ReadOn
  /\ MayHang(Received)
  /\ pc' = "spin"
  /\ UNCHANGED <<i, running, conns, pfds, cap, now>>

Spin == pc = "spin" /\ UNCHANGED vars

-----------------------------------------------------------------------------
(* flush_conn and on_flush_complete.                                       *)

ToFlush == Serving /\ Rev = {"OUT"}

\* What send() takes before it returns EAGAIN.
Flushed == Smaller(SndBuf - Len(tx[f]), Pending(conn[f]))

Flush ==
  /\ peer[f] # "rst"
  /\ tx' = [tx EXCEPT ![f] = @ \o SubSeq(conn[f].out, conn[f].out_off + 1,
                                         conn[f].out_off + Flushed)]
  /\ UNCHANGED <<backlog, rx, got, peer, at, script>>

ServeFlushFails ==
  /\ ToFlush
  /\ peer[f] = "rst"
  /\ Dropped

ServeFlushPart ==
  /\ ToFlush
  /\ Flushed < Pending(conn[f])
  /\ Flush
  /\ conn' = [conn EXCEPT ![f].out_off = @ + Flushed]
  /\ Handled
  /\ UNCHANGED <<fd, counter>>

ServeFlushContinue ==
  /\ ToFlush
  /\ Flushed = Pending(conn[f])
  /\ conn[f].want_continue
  /\ Flush
  /\ conn' = [conn EXCEPT ![f] = ResumeBody(@)]
  /\ Handled
  /\ UNCHANGED <<fd, counter>>

ServeFlushKeepAlive ==
  /\ ToFlush
  /\ Flushed = Pending(conn[f])
  /\ ~conn[f].want_continue
  /\ conn[f].keep_alive
  /\ Flush
  /\ conn' = [conn EXCEPT ![f] = ConnReset(@, NextId)]
  /\ counter' = counter + 1
  /\ Handled
  /\ UNCHANGED fd

(***************************************************************************)
(* The connection is closed inside on_flush_complete, and handled stays 1: *)
(* i moves on past the slot that has just been moved into its place.       *)
(***************************************************************************)
ServeFlushClose ==
  /\ ToFlush
  /\ Flushed = Pending(conn[f])
  /\ ~conn[f].want_continue
  /\ ~conn[f].keep_alive
  /\ peer[f] # "rst"
  /\ tx' = [tx EXCEPT ![f] = @ \o SubSeq(conn[f].out, conn[f].out_off + 1,
                                         conn[f].out_off + Flushed)]
  /\ fd' = [fd EXCEPT ![f] = "closed"]
  /\ conn' = [conn EXCEPT ![f] = BlankConn]
  /\ conns' = SwapRemove(conns, i)
  /\ pfds' = SwapRemove(Cleared(i), i)
  /\ i' = i + 1
  /\ UNCHANGED <<backlog, rx, got, peer, at, script, pc, running, cap, counter, now>>

LastSlotMissed == Len(conns) - 1    \* broken: off by one
LastSlotPassed == Len(conns) + 1    \* broken: off by one

LastSlot == Len(conns)

ServeDone ==
  /\ pc = "serve"
  /\ i > Len(conns)
  /\ i' = LastSlot
  /\ pc' = "reap"
  /\ UNCHANGED <<netVars, running, conns, pfds, cap, counter, conn, now>>

-----------------------------------------------------------------------------
(* Reaping idle connections, from the last slot down to the first.         *)

Idle(c) == now - conn[c].last_activity > Timeout

ReapSlot ==
  /\ pc = "reap"
  /\ i >= 2
  /\ i' = i - 1
  /\ \/ /\ Idle(f)
        /\ ConnClose(i, pfds)
     \/ /\ ~Idle(f)
        /\ UNCHANGED <<netVars, conns, pfds, conn>>
  /\ UNCHANGED <<pc, running, cap, counter, now>>

ReapDone ==
  /\ pc = "reap"
  /\ i < 2
  /\ pc' = "top"
  /\ UNCHANGED <<netVars, i, running, conns, pfds, cap, counter, conn, now>>

-----------------------------------------------------------------------------
(* The signal handler and the clock.  The reaper reads the clock once.     *)

Signal ==
  /\ AllowSignal
  /\ running
  /\ pc \notin {"init", "freed"}
  /\ running' = FALSE
  /\ UNCHANGED <<netVars, pc, i, conns, pfds, cap, counter, conn, now>>

Tick ==
  /\ now < MaxTime
  /\ pc # "reap"
  /\ now' = now + 1
  /\ UNCHANGED <<netVars, pc, i, running, conns, pfds, cap, counter, conn>>

-----------------------------------------------------------------------------

Serve ==
  \/ ServeIdle
  \/ ServeHangup
  \/ ServeReadEnd
  \/ ServeRead
  \/ ServeReadHangs
  \/ ServeFlushFails
  \/ ServeFlushPart
  \/ ServeFlushContinue
  \/ ServeFlushKeepAlive
  \/ ServeFlushClose
  \/ ServeDone

Loop ==
  \/ Listen
  \/ RenewInterest
  \/ Shutdown
  \/ Free
  \/ PollReady
  \/ PollTimeout
  \/ PollFails
  \/ Accept
  \/ AcceptDone
  \/ Serve
  \/ Spin
  \/ ReapSlot
  \/ ReapDone

World == \E c \in Clients : NetStep(c) /\ UNCHANGED serverVars

Next == Loop \/ World \/ Signal \/ PollInterrupted \/ Tick

Spec == Init /\ [][Next]_vars

=============================================================================
