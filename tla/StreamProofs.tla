---------------------------- MODULE StreamProofs ----------------------------
(***************************************************************************)
(* The byte stream a client sees, for any number of clients, any scripts,  *)
(* any buffer sizes and any MaxBody: that FlowInv is inductive, and so     *)
(* that responses come whole and in order and that nothing follows the     *)
(* last one.  First sequences of tokens, then what a read does to the      *)
(* stream of its connection, then the steps of the specification.          *)
(***************************************************************************)
EXTENDS ServerProofs

-----------------------------------------------------------------------------
(* Sequences of tokens.                                                    *)

\* What has been read of a well-framed stream is well framed.
LEMMA FramedPrefix ==
  ASSUME NEW s \in Seq(OutTok), NEW t \in Seq(OutTok), NEW requests,
         Framed(s \o t), EndsOnce(s \o t, requests)
  PROVE  Framed(s) /\ EndsOnce(s, requests)
<1> DEFINE u == s \o t
<1>1. /\ Len(u) = Len(s) + Len(t) /\ Len(s) \in Nat /\ Len(t) \in Nat
      /\ \A j \in 1 .. Len(s) : u[j] = s[j]
  BY ConcatProperties
<1>2. Framed(u) /\ EndsOnce(u, requests)
  OBVIOUS
<1>3. s # <<>> => Len(s) >= 1 /\ u # <<>> /\ u[1] = s[1]
  <2>1. s # <<>> => Len(s) >= 1
    OBVIOUS
  <2>2. Len(s) >= 1 => u # <<>> /\ u[1] = s[1]
    BY <1>1
  <2> QED BY <2>1, <2>2
<1> HIDE DEF u
<1>4. \A j \in 1 .. (Len(s) - 1) : /\ j \in 1 .. (Len(u) - 1)
                                   /\ u[j] = s[j] /\ u[j + 1] = s[j + 1]
  BY <1>1
<1> QED BY <1>2, <1>3, <1>4 DEF Framed, EndsOnce

\* More that may follow keeps a stream well framed.
LEMMA FramedExtended ==
  ASSUME NEW s \in Seq(OutTok), NEW t \in Seq(OutTok), NEW requests, t # <<>>,
         Framed(s), EndsOnce(s, requests), Framed(t), EndsOnce(t, requests),
         s # <<>> => Follows(s[Len(s)], t[1]) /\ ~Ending(s[Len(s)], requests)
  PROVE  /\ s \o t \in Seq(OutTok)
         /\ Framed(s \o t) /\ EndsOnce(s \o t, requests)
         /\ s \o t # <<>> /\ (s \o t)[Len(s \o t)] = t[Len(t)]
<1> DEFINE u == s \o t
<1>1. /\ u \in Seq(OutTok)
      /\ Len(u) = Len(s) + Len(t) /\ Len(s) \in Nat /\ Len(t) \in Nat
      /\ \A j \in 1 .. Len(s) + Len(t) : u[j] = IF j <= Len(s) THEN s[j] ELSE t[j - Len(s)]
  BY ConcatProperties
<1>2. Len(t) >= 1 /\ (s = <<>> <=> Len(s) = 0)
  OBVIOUS
<1>3. u # <<>>
  BY <1>1, <1>2
<1> HIDE DEF u
<1>4. u[Len(u)] = t[Len(t)]
  BY <1>1, <1>2
<1>5. u[1].t \in {"continue", "head"}
  <2>1. CASE s = <<>>
    BY <1>1, <1>2, <2>1 DEF Framed
  <2>2. CASE s # <<>>
    BY <1>1, <1>2, <2>2 DEF Framed
  <2> QED BY <2>1, <2>2
<1>6. ASSUME NEW j \in 1 .. (Len(u) - 1)
      PROVE  Follows(u[j], u[j + 1]) /\ ~Ending(u[j], requests)
  <2>1. CASE j < Len(s)
    <3>1. u[j] = s[j] /\ u[j + 1] = s[j + 1] /\ j \in 1 .. (Len(s) - 1)
      BY <1>1, <2>1
    <3> QED BY <3>1 DEF Framed, EndsOnce
  <2>2. CASE j = Len(s)
    <3>1. u[j] = s[Len(s)] /\ u[j + 1] = t[1] /\ s # <<>>
      BY <1>1, <1>2, <2>2
    <3> QED BY <3>1
  <2>3. CASE j > Len(s)
    <3>1. /\ u[j] = t[j - Len(s)] /\ u[j + 1] = t[(j - Len(s)) + 1]
          /\ j - Len(s) \in 1 .. (Len(t) - 1)
      BY <1>1, <2>3
    <3> QED BY <3>1 DEF Framed, EndsOnce
  <2> QED BY <1>1, <2>1, <2>2, <2>3
<1>7. Framed(u) /\ EndsOnce(u, requests)
  BY <1>5, <1>6 DEF Framed, EndsOnce
<1> QED BY <1>1, <1>3, <1>4, <1>7 DEF u

\* A response by itself is well framed, and only its last token ends it.
LEMMA WholeFramed ==
  ASSUME NEW t, NEW n, NEW code, NEW requests, Whole(t, n, code)
  PROVE  /\ t \in Seq(OutTok) /\ t # <<>> /\ Framed(t) /\ EndsOnce(t, requests)
         /\ t[1].t = "head" /\ t[1].r = n
         /\ t[Len(t)].r = n /\ t[Len(t)].eom /\ t[Len(t)].code = code
<1>1. t \in Seq(OutTok) /\ Len(t) \in Nat /\ Len(t) >= 1 /\ t # <<>>
  BY DEF Whole
<1>2. ASSUME NEW j \in 1 .. (Len(t) - 1)
      PROVE  Follows(t[j], t[j + 1]) /\ ~Ending(t[j], requests)
  <2>1. ~t[j].eom /\ Within(t[j], t[j + 1])
    BY DEF Whole
  <2>2. t[j].r = n /\ t[j + 1].r = n
    BY <1>1 DEF Whole
  <2> QED BY <2>1, <2>2 DEF Follows, Within, Ending
<1>3. Framed(t) /\ EndsOnce(t, requests)
  BY <1>2 DEF Framed, EndsOnce, Whole
<1> QED BY <1>1, <1>3 DEF Whole

\* A 100 Continue by itself is well framed, and ends nothing.
LEMMA InviteFramed ==
  ASSUME NEW tok \in OutTok, tok.t = "continue", NEW requests
  PROVE  /\ <<tok>> \in Seq(OutTok) /\ <<tok>> # <<>> /\ <<tok>>[1] = tok
         /\ <<tok>>[Len(<<tok>>)] = tok
         /\ Framed(<<tok>>) /\ EndsOnce(<<tok>>, requests)
BY DEF Framed, EndsOnce

\* Input in order stays so when some of it is used.
LEMMA InOrderConsumed ==
  ASSUME NEW in \in Seq(InTok), NEW k \in 0 .. Len(in), NEW requests, NEW n,
         InOrder(in, requests, n)
  PROVE  InOrder(Consume(in, k), requests, n)
<1> DEFINE t == Consume(in, k)
<1>1. /\ Consume(in, k) \in Seq(InTok) /\ Len(Consume(in, k)) = Len(in) - k
      /\ \A j \in 1 .. (Len(in) - k) : Consume(in, k)[j] = in[k + j]
  BY ConsumeElements
<1>2. Len(in) \in Nat /\ Len(t) = Len(in) - k
  BY <1>1
<1> HIDE DEF t
<1>3. ASSUME NEW j \in 1 .. Len(t)
      PROVE  k + j \in 1 .. Len(in) /\ t[j] = in[k + j]
  BY <1>1, <1>2 DEF t
<1>4. ASSUME NEW j \in 1 .. Len(t), NEW m \in 1 .. Len(t), j <= m
      PROVE  t[j].r <= t[m].r
  <2>1. k + j <= k + m
    BY <1>2, <1>4
  <2> QED BY <1>3, <2>1 DEF InOrder
<1>5. ASSUME NEW j \in 1 .. Len(t)
      PROVE  t[j].r <= n /\ t[j].r \in 1 .. Len(requests) /\ t[j].q = requests[t[j].r]
  BY <1>3 DEF InOrder
<1>6. InOrder(t, requests, n)
  BY <1>4, <1>5 DEF InOrder
<1> QED BY <1>6 DEF t

\* Either part of an input in order is in order.
LEMMA InOrderParts ==
  ASSUME NEW s \in Seq(InTok), NEW t \in Seq(InTok), NEW requests, NEW n,
         InOrder(s \o t, requests, n)
  PROVE  InOrder(s, requests, n) /\ InOrder(t, requests, n)
<1> DEFINE u == s \o t
<1>1. /\ Len(u) = Len(s) + Len(t) /\ Len(s) \in Nat /\ Len(t) \in Nat
      /\ \A j \in 1 .. Len(s) + Len(t) : u[j] = IF j <= Len(s) THEN s[j] ELSE t[j - Len(s)]
  BY ConcatProperties
<1>2. InOrder(u, requests, n)
  OBVIOUS
<1> HIDE DEF u
<1>3. \A j \in 1 .. Len(s) : j \in 1 .. Len(u) /\ u[j] = s[j]
  BY <1>1
<1>4. ASSUME NEW j \in 1 .. Len(t)
      PROVE  Len(s) + j \in 1 .. Len(u) /\ u[Len(s) + j] = t[j]
  <2>1. Len(s) + j \in 1 .. Len(u) /\ ~(Len(s) + j <= Len(s)) /\ (Len(s) + j) - Len(s) = j
    BY <1>1
  <2> QED BY <1>1, <2>1
<1>5. InOrder(s, requests, n)
  BY <1>2, <1>3 DEF InOrder
<1>6. InOrder(t, requests, n)
  <2>1. ASSUME NEW j \in 1 .. Len(t), NEW k \in 1 .. Len(t), j <= k
        PROVE  t[j].r <= t[k].r
    <3>1. Len(s) + j <= Len(s) + k
      BY <1>1, <2>1
    <3> QED BY <1>2, <1>4, <3>1 DEF InOrder
  <2>2. ASSUME NEW k \in 1 .. Len(t)
        PROVE  t[k].r <= n /\ t[k].r \in 1 .. Len(requests) /\ t[k].q = requests[t[k].r]
    BY <1>2, <1>4 DEF InOrder
  <2> QED BY <2>1, <2>2 DEF InOrder
<1> QED BY <1>5, <1>6

\* The next token a client sends is in order.
LEMMA InOrderSent ==
  ASSUME NEW in \in Seq(InTok), NEW requests, NEW n \in Nat, NEW m \in Nat,
         InOrder(in, requests, n), n <= m, NEW tok \in InTok,
         tok.r = m, m \in 1 .. Len(requests), tok.q = requests[m]
  PROVE  InOrder(Append(in, tok), requests, m)
<1> DEFINE u == Append(in, tok)
<1>1. /\ Len(u) = Len(in) + 1 /\ Len(in) \in Nat /\ u[Len(in) + 1] = tok
      /\ \A j \in 1 .. Len(in) : u[j] = in[j]
  BY AppendProperties
<1> HIDE DEF u
<1>2. ASSUME NEW j \in 1 .. Len(in)
      PROVE  in[j].r \in Nat
  <2>1. in[j] \in InTok
    OBVIOUS
  <2> QED BY <2>1 DEF InTok
<1>3. ASSUME NEW j \in 1 .. Len(u), NEW k \in 1 .. Len(u), j <= k
      PROVE  u[j].r <= u[k].r
  <2>1. CASE k <= Len(in)
    <3>1. j \in 1 .. Len(in) /\ k \in 1 .. Len(in)
      BY <1>1, <1>3, <2>1
    <3>2. in[j].r <= in[k].r
      BY <1>3, <3>1 DEF InOrder
    <3> QED BY <1>1, <3>1, <3>2
  <2>2. CASE k = Len(in) + 1 /\ j <= Len(in)
    BY <1>1, <2>2 DEF InOrder
  <2>3. CASE k = Len(in) + 1 /\ j = Len(in) + 1
    BY <1>1, <2>3
  <2> QED BY <1>1, <2>1, <2>2, <2>3
<1>4. ASSUME NEW k \in 1 .. Len(u)
      PROVE  u[k].r <= m /\ u[k].r \in 1 .. Len(requests) /\ u[k].q = requests[u[k].r]
  <2>1. CASE k <= Len(in)
    BY <1>1, <1>2, <2>1 DEF InOrder
  <2>2. CASE k = Len(in) + 1
    BY <1>1, <2>2
  <2> QED BY <1>1, <2>1, <2>2
<1>5. InOrder(u, requests, m)
  BY <1>3, <1>4 DEF InOrder
<1> QED BY <1>5 DEF u

\* What is of no earlier request stays so when more such input arrives.
LEMMA AllFromJoined ==
  ASSUME NEW in \in Seq(InTok), NEW t \in Seq(InTok), NEW n, AllFrom(in, n), AllFrom(t, n)
  PROVE  AllFrom(in \o t, n)
<1> DEFINE u == in \o t
<1>1. /\ Len(u) = Len(in) + Len(t) /\ Len(in) \in Nat /\ Len(t) \in Nat
      /\ \A j \in 1 .. Len(in) + Len(t) : u[j] = IF j <= Len(in) THEN in[j] ELSE t[j - Len(in)]
  BY ConcatProperties
<1> HIDE DEF u
<1>2. ASSUME NEW j \in 1 .. Len(u)
      PROVE  n <= u[j].r
  <2>1. CASE j <= Len(in)
    BY <1>1, <2>1 DEF AllFrom
  <2>2. CASE j > Len(in)
    <3>1. u[j] = t[j - Len(in)] /\ j - Len(in) \in 1 .. Len(t)
      BY <1>1, <2>2
    <3> QED BY <3>1 DEF AllFrom
  <2> QED BY <1>1, <2>1, <2>2
<1>3. AllFrom(u, n)
  BY <1>2 DEF AllFrom
<1> QED BY <1>3 DEF u

\* Later tokens behind the input do not bring an earlier request up.
LEMMA UpcomingReceived ==
  ASSUME NEW in \in Seq(InTok), NEW t \in Seq(InTok), NEW n \in Nat,
         Upcoming(in, n), AllFrom(t, n)
  PROVE  Upcoming(in \o t, n)
<1>1. CASE AllFrom(in, n)
  BY <1>1, AllFromJoined DEF Upcoming
<1>2. CASE HasBlock(in) /\ n <= BlockToken(in, BlockEnd(in)).r
  BY <1>2, BlockStable DEF Upcoming
<1> QED BY <1>1, <1>2 DEF Upcoming

\* The block that comes up is of a request no earlier than that.
LEMMA UpcomingBlock ==
  ASSUME NEW in \in Seq(InTok), NEW n \in Nat, Upcoming(in, n), HasBlock(in)
  PROVE  n <= BlockToken(in, BlockEnd(in)).r
<1>1. BlockEnd(in) \in 1 .. Len(in)
  BY BlockEndFirst
<1>2. PICK k \in 1 .. BlockEnd(in) : BlockToken(in, BlockEnd(in)) = in[k]
  BY <1>1, BlockTokenPlace
<1>3. k \in 1 .. Len(in)
  BY <1>1
<1> QED BY <1>2, <1>3 DEF Upcoming, AllFrom

-----------------------------------------------------------------------------
(* What a read does to the stream of its connection.                       *)

\* The stream s and the record cn of an open connection fit each other, when
\* its client has come to request n.
Fits(cn, s, requests, n) ==
  /\ s \in Seq(OutTok)
  /\ Framed(s) /\ EndsOnce(s, requests)
  /\ OutputEnds(cn, s)
  /\ Floor(cn, s) <= n /\ Upcoming(cn.in, Floor(cn, s))
  /\ BodyKnown(cn, requests)
  /\ CloseFollows(cn, s, requests)

\* A response that is decided by the request says when it is the last one.
LEMMA LastDecided ==
  ASSUME NEW p, NEW d, p.req.reply # "sse" => d.keep_alive = DecideKeepAlive(p),
         WantsClose(p.req), p.req.reply # "sse"
  PROVE  ~d.keep_alive
<1>1. ~DecideKeepAlive(p)
  BY DEF DecideKeepAlive, WantsClose
<1> QED BY <1>1

\* The stream s may go on with a response to request num.
ReadyFor(s, requests, num) ==
  s # <<>> => /\ ~Ending(s[Len(s)], requests)
              /\ \/ s[Len(s)].eom /\ s[Len(s)].r <= num
                 \/ ~s[Len(s)].eom /\ s[Len(s)].t = "continue" /\ s[Len(s)].r = num

\* d fits the stream s of a connection with what d has queued behind out.
Extends(out, d, s, requests, n) ==
  \E toks \in Seq(OutTok) : d.out = out \o toks /\ Fits(d, s \o toks, requests, n)

\* A response fits behind a stream that may end before it.
LEMMA RespondsFits ==
  ASSUME NEW s \in Seq(OutTok), NEW requests, NEW n, NEW p, NEW d, RespondsTo(p, d),
         Framed(s), EndsOnce(s, requests), p.num \in Nat, ReadyFor(s, requests, p.num),
         p.req = requests[p.num], p.num <= n, Upcoming(d.in, p.num)
  PROVE  Extends(p.out, d, s, requests, n)
<1>1. PICK toks \in Seq(OutTok), code \in FinalStatus :
        /\ Whole(toks, p.num, code)
        /\ d.out = p.out \o toks
        /\ code = 200 /\ p.req.reply # "sse" => d.keep_alive = DecideKeepAlive(p)
  BY DEF RespondsTo
<1>2. /\ toks # <<>> /\ Framed(toks) /\ EndsOnce(toks, requests)
      /\ toks[1].t = "head" /\ toks[1].r = p.num
      /\ toks[Len(toks)].r = p.num /\ toks[Len(toks)].eom /\ toks[Len(toks)].code = code
  BY <1>1, WholeFramed
<1>3. s # <<>> => Follows(s[Len(s)], toks[1]) /\ ~Ending(s[Len(s)], requests)
  BY <1>2 DEF Follows, ReadyFor
<1> DEFINE u == s \o toks
<1>4. /\ u \in Seq(OutTok) /\ Framed(u) /\ EndsOnce(u, requests) /\ u # <<>>
      /\ u[Len(u)] = toks[Len(toks)]
  BY <1>2, <1>3, FramedExtended
<1> HIDE DEF u
<1>5. Queued(d) /\ ~ReadsBody(d)
  BY DEF RespondsTo, Queued, ReadsBody
<1>6. Floor(d, u) = p.num
  BY <1>2, <1>4, <1>5 DEF Floor
<1>7. CloseFollows(d, u, requests)
  <2> SUFFICES ASSUME Ending(u[Len(u)], requests)
               PROVE  ~d.keep_alive
    BY <1>5 DEF CloseFollows
  <2>1. WantsClose(p.req) /\ p.req.reply # "sse" /\ code = 200
    BY <1>2, <1>4 DEF Ending
  <2> QED BY <1>1, <2>1, LastDecided
<1>8. OutputEnds(d, u) /\ BodyKnown(d, requests)
  BY <1>2, <1>4, <1>5, <1>6 DEF OutputEnds, BodyKnown
<1>9. Fits(d, u, requests, n)
  BY <1>4, <1>6, <1>7, <1>8 DEF Fits
<1> QED BY <1>1, <1>9 DEF u, Extends

\* What is left behind a block that is used up is of no earlier request.
LEMMA BehindBlock ==
  ASSUME NEW in \in Seq(InTok), NEW e \in 1 .. Len(in), NEW k \in e .. Len(in),
         NEW requests, NEW n, InOrder(in, requests, n), WellFormed(in, e)
  PROVE  AllFrom(Consume(in, k), BlockToken(in, e).r)
<1>1. e - 1 \in 1 .. Len(in) /\ BlockToken(in, e) = in[e - 1]
  BY BlockTokenPlace
<1>2. k \in 0 .. Len(in) /\ Len(in) \in Nat
  OBVIOUS
<1> DEFINE t == Consume(in, k)
<1>3. Len(t) = Len(in) - k /\ \A j \in 1 .. (Len(in) - k) : t[j] = in[k + j]
  BY <1>2, ConsumeElements
<1> HIDE DEF t
<1>4. ASSUME NEW j \in 1 .. Len(t)
      PROVE  in[e - 1].r <= t[j].r
  <2>1. k + j \in 1 .. Len(in) /\ e - 1 <= k + j /\ t[j] = in[k + j]
    BY <1>2, <1>3
  <2> QED BY <1>1, <2>1 DEF InOrder
<1>5. AllFrom(t, in[e - 1].r)
  BY <1>4 DEF AllFrom
<1> QED BY <1>1, <1>5 DEF t

\* Using input keeps a lower bound on the requests it is of.
LEMMA AllFromConsumed ==
  ASSUME NEW in \in Seq(InTok), NEW k \in 0 .. Len(in), NEW n, AllFrom(in, n)
  PROVE  AllFrom(Consume(in, k), n)
<1> DEFINE t == Consume(in, k)
<1>1. Len(t) = Len(in) - k /\ \A j \in 1 .. (Len(in) - k) : t[j] = in[k + j]
  BY ConsumeElements
<1> HIDE DEF t
<1>2. ASSUME NEW j \in 1 .. Len(t)
      PROVE  n <= t[j].r
  <2>1. k + j \in 1 .. Len(in) /\ t[j] = in[k + j]
    BY <1>1
  <2> QED BY <2>1 DEF AllFrom
<1>3. AllFrom(t, n)
  BY <1>2 DEF AllFrom
<1> QED BY <1>3 DEF t

\* A connection that is read from has nothing queued: nothing ends it.
LEMMA NothingEnding ==
  ASSUME NEW cn, NEW s, NEW requests, CloseFollows(cn, s, requests), cn.state # "WRITE"
  PROVE  s # <<>> => ~Ending(s[Len(s)], requests)
BY DEF CloseFollows, Queued

\* The effect of reading headers on the stream.
LEMMA HeadersFit ==
  ASSUME NEW cn \in Conn, NEW s, NEW requests, NEW n \in Nat, NEW d,
         Fits(cn, s, requests, n), InOrder(cn.in, requests, n),
         cn.state = "READ_HEADERS", Fresh(cn), HasBlock(cn.in), HeadersOutcome(cn, d)
  PROVE  Extends(cn.out, d, s, requests, n)
<1> DEFINE e == BlockEnd(cn.in)
           b == BlockToken(cn.in, e)
           p == [num |-> b.r, req |-> b.q, out |-> cn.out]
<1>1. cn.in \in Seq(InTok) /\ Len(cn.in) \in Nat /\ e \in 1 .. Len(cn.in) /\ cn.out \in Seq(OutTok)
  BY BlockEndFirst DEF Conn
<1>2. p.num \in Nat /\ p.num <= n /\ p.num \in 1 .. Len(requests) /\ p.req = requests[p.num]
  <2>1. PICK k \in 1 .. e : b = cn.in[k]
    BY <1>1, BlockTokenPlace
  <2>2. k \in 1 .. Len(cn.in)
    BY <1>1
  <2>3. b.r <= n /\ b.r \in 1 .. Len(requests) /\ b.q = requests[b.r]
    BY <2>1, <2>2 DEF InOrder
  <2>4. b \in InTok /\ b.r \in Nat
    BY <1>1, BlockTokenPlace DEF InTok
  <2> HIDE DEF b
  <2> QED BY <2>3, <2>4
<1>3. ~ReadsBody(cn)
  BY DEF ReadsBody, Fresh
<1>4. s # <<>> => ~Ending(s[Len(s)], requests)
  BY NothingEnding DEF Fits
<1>5. s # <<>> => s[Len(s)].eom /\ s[Len(s)].r = Floor(cn, s)
  BY <1>3 DEF Fits, OutputEnds, Floor
<1>6. Floor(cn, s) \in Nat
  <2>1. s # <<>> => s[Len(s)] \in OutTok
    BY DEF Fits
  <2> QED BY <1>3, <2>1 DEF Floor, OutTok
<1>7. Floor(cn, s) <= p.num
  BY <1>1, <1>6, UpcomingBlock DEF Fits
<1>8. s # <<>> => s[Len(s)].eom /\ s[Len(s)].r <= p.num
  BY <1>5, <1>7
<1>9. s \in Seq(OutTok) /\ Framed(s) /\ EndsOnce(s, requests)
  BY DEF Fits
<1>10. HasBlock(cn.in) /\ p.num <= BlockToken(cn.in, BlockEnd(cn.in)).r
  BY <1>2
<1>11. /\ d.num = p.num
       /\ \/ d.in = cn.in /\ RespondsTo(p, d)
          \/ /\ WellFormed(cn.in, e)
             /\ \E k \in e .. Len(cn.in) : d.in = Consume(cn.in, k)
             /\ Reading(p, d) \/ Inviting(p, d) \/ RespondsTo(p, d)
  BY DEF HeadersOutcome
<1>12. (\E k \in e .. Len(cn.in) : d.in = Consume(cn.in, k)) /\ WellFormed(cn.in, e)
         => AllFrom(d.in, p.num)
  BY <1>1, BehindBlock
<1>13. p.out = cn.out
  OBVIOUS
<1> HIDE DEF p, e
<1>14. CASE RespondsTo(p, d)
  <2>1. Upcoming(d.in, p.num)
    BY <1>10, <1>11, <1>12 DEF Upcoming, Reading, Inviting
  <2>2. ReadyFor(s, requests, p.num)
    BY <1>4, <1>8 DEF ReadyFor
  <2>3. Extends(p.out, d, s, requests, n)
    BY <1>2, <1>9, <1>14, <2>1, <2>2, RespondsFits
  <2> QED BY <1>13, <2>3
<1>15. CASE Reading(p, d)
  <2>1. AllFrom(d.in, p.num)
    BY <1>11, <1>12, <1>15 DEF Reading, RespondsTo
  <2>2. ReadsBody(d) /\ Floor(d, s) = p.num
    BY <1>11, <1>15 DEF Reading, ReadsBody, Floor
  <2>3. Fits(d, s, requests, n)
    BY <1>2, <1>4, <1>8, <1>9, <1>11, <1>15, <2>1, <2>2
       DEF Fits, OutputEnds, Upcoming, BodyKnown, CloseFollows, Reading
  <2>4. <<>> \in Seq(OutTok) /\ s \o <<>> = s /\ d.out = cn.out \o <<>>
    BY <1>1, <1>9, <1>13, <1>15, ConcatEmptySeq DEF Reading
  <2> QED BY <2>3, <2>4 DEF Extends
<1>16. CASE Inviting(p, d)
  <2>1. AllFrom(d.in, p.num)
    BY <1>11, <1>12, <1>16 DEF Inviting, RespondsTo
  <2>2. PICK tok \in OutTok :
          tok.t = "continue" /\ tok.r = p.num /\ ~tok.eom /\ d.out = p.out \o <<tok>>
    BY <1>16 DEF Inviting
  <2> DEFINE t == <<tok>>
             u == s \o t
  <2>3. /\ t \in Seq(OutTok) /\ t # <<>> /\ t[1] = tok /\ t[Len(t)] = tok
        /\ Framed(t) /\ EndsOnce(t, requests)
    BY <2>2, InviteFramed
  <2>4. s # <<>> => Follows(s[Len(s)], tok) /\ ~Ending(s[Len(s)], requests)
    BY <1>4, <1>8, <2>2 DEF Follows
  <2> HIDE DEF t
  <2>5. /\ u \in Seq(OutTok) /\ Framed(u) /\ EndsOnce(u, requests) /\ u # <<>>
        /\ u[Len(u)] = tok
    BY <1>9, <2>3, <2>4, FramedExtended
  <2> HIDE DEF u
  <2>6. ReadsBody(d) /\ Floor(d, u) = p.num
    BY <1>11, <1>16 DEF Inviting, ReadsBody, Floor
  <2>7. CloseFollows(d, u, requests)
    BY <2>2, <2>5 DEF CloseFollows, Ending
  <2>8. OutputEnds(d, u)
    BY <1>11, <2>2, <2>5, <2>6 DEF OutputEnds
  <2>9. BodyKnown(d, requests)
    BY <1>2, <1>11, <1>16, <2>1 DEF BodyKnown, Inviting
  <2>10. Fits(d, u, requests, n)
    BY <1>2, <2>1, <2>5, <2>6, <2>7, <2>8, <2>9 DEF Fits, Upcoming
  <2> QED BY <1>13, <2>2, <2>3, <2>10 DEF u, t, Extends
<1> QED BY <1>11, <1>14, <1>15, <1>16

\* The effect of reading a body on the stream.
LEMMA BodyFits ==
  ASSUME NEW cn \in Conn, NEW s, NEW requests, NEW n \in Nat, NEW d,
         Fits(cn, s, requests, n), cn.state \in {"READ_BODY", "READ_CHUNK"},
         BodyOutcome(cn, d)
  PROVE  Extends(cn.out, d, s, requests, n)
<1>1. cn.in \in Seq(InTok) /\ cn.out \in Seq(OutTok) /\ cn.num \in Nat
  BY DEF Conn
<1>2. ReadsBody(cn) /\ Floor(cn, s) = cn.num
  BY DEF ReadsBody, Floor
<1>3. /\ AllFrom(cn.in, cn.num) /\ cn.num \in 1 .. Len(requests) /\ cn.req = requests[cn.num]
      /\ cn.num <= n
      /\ s \in Seq(OutTok) /\ Framed(s) /\ EndsOnce(s, requests)
  BY <1>2 DEF Fits, BodyKnown
<1>4. s # <<>> => ~Ending(s[Len(s)], requests)
  BY NothingEnding DEF Fits
<1>5. s # <<>> => \/ s[Len(s)].eom /\ s[Len(s)].r <= cn.num
                  \/ ~s[Len(s)].eom /\ s[Len(s)].t = "continue" /\ s[Len(s)].r = cn.num
  BY <1>2 DEF Fits, OutputEnds
<1>6. AllFrom(d.in, cn.num)
  BY <1>1, <1>3, AllFromConsumed DEF BodyOutcome, Uses
<1>7. d.num = cn.num /\ (Reading(cn, d) \/ RespondsTo(cn, d))
  BY DEF BodyOutcome
<1>8. CASE RespondsTo(cn, d)
  <2>1. ReadyFor(s, requests, cn.num) /\ Upcoming(d.in, cn.num)
    BY <1>4, <1>5, <1>6 DEF ReadyFor, Upcoming
  <2> QED BY <1>1, <1>3, <1>8, <2>1, RespondsFits
<1>9. CASE Reading(cn, d)
  <2>1. ReadsBody(d) /\ Floor(d, s) = cn.num
    BY <1>7, <1>9 DEF Reading, ReadsBody, Floor
  <2>2. Fits(d, s, requests, n)
    BY <1>3, <1>4, <1>5, <1>6, <1>7, <1>9, <2>1
       DEF Fits, OutputEnds, Upcoming, BodyKnown, CloseFollows, Reading
  <2>3. <<>> \in Seq(OutTok) /\ s \o <<>> = s /\ d.out = cn.out \o <<>>
    BY <1>1, <1>3, <1>9, ConcatEmptySeq DEF Reading
  <2> QED BY <2>2, <2>3 DEF Extends
<1> QED BY <1>7, <1>8, <1>9

\* http_read_step adds to the stream only what may follow.
LEMMA ReadFits ==
  ASSUME NEW cn \in Conn, NEW s, NEW requests, NEW n \in Nat, cn.state # "WRITE", Fresh(cn),
         Fits(cn, s, requests, n), InOrder(cn.in, requests, n)
  PROVE  Extends(cn.out, ReadStep(cn), s, requests, n)
<1>1. CASE ReadStep(cn) = cn
  <2>1. <<>> \in Seq(OutTok) /\ s \o <<>> = s /\ cn.out = cn.out \o <<>>
    BY ConcatEmptySeq DEF Fits, Conn
  <2> QED BY <1>1, <2>1 DEF Extends
<1>2. CASE cn.state = "READ_HEADERS" /\ HasBlock(cn.in) /\ HeadersOutcome(cn, ReadStep(cn))
  BY <1>2, HeadersFit
<1>3. CASE cn.state # "READ_HEADERS" /\ BodyOutcome(cn, ReadStep(cn))
  <2>1. cn.state \in {"READ_BODY", "READ_CHUNK"}
    BY <1>3 DEF Conn, ConnState
  <2> QED BY <1>3, <2>1, BodyFits
<1> QED BY <1>1, <1>2, <1>3, ReadStepOutcome

\* Whatever is read, what is left stays in order, and keep_alive and
\* streamed are set only together with output.
LEMMA ReadKeeps ==
  ASSUME NEW cn \in Conn, NEW requests, NEW n \in Nat, cn.state # "WRITE", Fresh(cn),
         InOrder(cn.in, requests, n)
  PROVE  /\ InOrder(ReadStep(cn).in, requests, n)
         /\ ReadStep(cn).streamed \/ ReadStep(cn).keep_alive => Queued(ReadStep(cn))
<1> DEFINE d == ReadStep(cn)
<1>1. cn.in \in Seq(InTok) /\ Len(cn.in) \in Nat
  BY DEF Conn
<1>2. \/ d = cn
      \/ HasBlock(cn.in) /\ HeadersOutcome(cn, d)
      \/ BodyOutcome(cn, d)
  BY ReadStepOutcome
<1> HIDE DEF d
<1>3. d.in = cn.in \/ \E k \in 0 .. Len(cn.in) : d.in = Consume(cn.in, k)
  <2>1. CASE HasBlock(cn.in) /\ HeadersOutcome(cn, d)
    <3>1. BlockEnd(cn.in) \in 1 .. Len(cn.in)
      BY <1>1, <2>1, BlockEndFirst
    <3>2. d.in = cn.in \/ \E k \in BlockEnd(cn.in) .. Len(cn.in) : d.in = Consume(cn.in, k)
      BY <2>1 DEF HeadersOutcome
    <3> QED BY <1>1, <3>1, <3>2
  <2> QED BY <1>2, <2>1 DEF BodyOutcome, Uses
<1>4. InOrder(d.in, requests, n)
  BY <1>1, <1>3, InOrderConsumed
<1>5. d.streamed \/ d.keep_alive => Queued(d)
  <2>1. ASSUME NEW p, Reading(p, d) \/ Inviting(p, d) \/ RespondsTo(p, d)
        PROVE  d.streamed \/ d.keep_alive => Queued(d)
    BY <2>1 DEF Reading, Inviting, RespondsTo, Fresh, Queued
  <2> QED BY <1>2, <2>1 DEF HeadersOutcome, BodyOutcome, Fresh
<1> QED BY <1>4, <1>5 DEF d

-----------------------------------------------------------------------------
(* The steps of the specification, for one client at a time.               *)

ClientSound(c) ==
  Framed(Stream(c)) /\ EndsOnce(Stream(c), script[c]) /\ StreamSound(c)

\* Joining nothing, and joining in any order.
LEMMA Joined ==
  ASSUME NEW S, NEW s \in Seq(S), NEW t \in Seq(S), NEW u \in Seq(S)
  PROVE  /\ s \o <<>> = s /\ <<>> \o s = s /\ <<>> \in Seq(S)
         /\ s \o t \in Seq(S) /\ s \o t \o u \in Seq(S)
         /\ s \o t \o u = s \o (t \o u)
BY ConcatEmptySeq, ConcatAssociative, ConcatProperties

\* Appending to the second part of a sequence appends to the whole.
LEMMA AppendBehind ==
  ASSUME NEW s \in Seq(InTok), NEW t \in Seq(InTok), NEW tok \in InTok
  PROVE  s \o Append(t, tok) = Append(s \o t, tok)
OBVIOUS

\* Three parts of a sequence may be joined in either order.
LEMMA Regrouped ==
  ASSUME NEW s \in Seq(OutTok), NEW t \in Seq(OutTok), NEW u \in Seq(OutTok)
  PROVE  (s \o t) \o u = s \o (t \o u) /\ s \o t \in Seq(OutTok)
BY ConcatAssociative, ConcatProperties

\* Of three parts of a sequence the middle one may be empty.
LEMMA MiddleEmpty ==
  ASSUME NEW s \in Seq(OutTok), NEW t \in Seq(OutTok), NEW u \in Seq(OutTok)
  PROVE  /\ s \o t \o <<>> \o u = s \o t \o u
         /\ s \o <<>> \o <<>> = s
         /\ t \o u \in Seq(OutTok) /\ s \o t \o u = s \o (t \o u)
OBVIOUS

\* The parts of a client's stream are output, those of its input are input.
LEMMA StreamType ==
  ASSUME TypeOK, NEW c \in Clients
  PROVE  /\ got[c] \in Seq(OutTok) /\ tx[c] \in Seq(OutTok) /\ Unsent(c) \in Seq(OutTok)
         /\ Stream(c) \in Seq(OutTok)
         /\ conn[c] \in Conn /\ conn[c].in \in Seq(InTok) /\ rx[c] \in Seq(InTok)
         /\ Input(c) \in Seq(InTok)
         /\ at[c].req \in Nat /\ Asked(c) \in Nat /\ script[c] \in Seq(Request)
<1>1. /\ got[c] \in Seq(OutTok) /\ tx[c] \in Seq(OutTok)
      /\ conn[c] \in Conn /\ rx[c] \in Seq(InTok)
      /\ conn[c].out_off <= Len(conn[c].out)
      /\ at[c] \in Cursor /\ script[c] \in Seq(Request)
  BY DEF TypeOK, NetTypeOK
<1>2. conn[c].in \in Seq(InTok) /\ conn[c].out \in Seq(OutTok) /\ conn[c].out_off \in Nat
  BY <1>1 DEF Conn
<1>3. Consume(conn[c].out, conn[c].out_off) \in Seq(OutTok)
  <2>1. conn[c].out_off \in 0 .. Len(conn[c].out)
    BY <1>1, <1>2
  <2> QED BY <1>2, <2>1, ConsumeElements
<1>4. <<>> \in Seq(OutTok)
  OBVIOUS
<1>5. Unsent(c) \in Seq(OutTok)
  BY <1>3, <1>4 DEF Unsent
<1>6. Stream(c) \in Seq(OutTok)
  BY <1>1, <1>5, Joined DEF Stream
<1>7. Input(c) \in Seq(InTok)
  BY <1>1, <1>2, ConcatProperties DEF Input
<1>8. at[c].req \in Nat /\ Asked(c) \in Nat
  BY <1>1 DEF Cursor, Asked
<1> QED BY <1>1, <1>2, <1>5, <1>6, <1>7, <1>8

\* The requests begun stay as they are while nothing is sent.
LEMMA AskedKept ==
  ASSUME NEW c, at'[c] = at[c]
  PROVE  Asked(c)' = Asked(c)
BY DEF Asked

\* A stream is output after a step as well.
LEMMA StreamAfterType ==
  ASSUME TypeOK', NEW c \in Clients
  PROVE  Stream(c)' \in Seq(OutTok)
<1>1. /\ got'[c] \in Seq(OutTok) /\ tx'[c] \in Seq(OutTok) /\ conn'[c] \in Conn
      /\ conn'[c].out_off <= Len(conn'[c].out)
  BY DEF TypeOK, NetTypeOK
<1>2. conn'[c].out \in Seq(OutTok) /\ conn'[c].out_off \in 0 .. Len(conn'[c].out)
  BY <1>1 DEF Conn
<1>3. Consume(conn'[c].out, conn'[c].out_off) \in Seq(OutTok)
  BY <1>2, ConsumeElements
<1>4. <<>> \in Seq(OutTok)
  OBVIOUS
<1>5. Unsent(c)' \in Seq(OutTok)
  BY <1>3, <1>4 DEF Unsent
<1> QED BY <1>1, <1>5, Joined DEF Stream

\* A client that a step does not concern.
Unmoved(c) ==
  UNCHANGED <<fd[c], conn[c], rx[c], tx[c], got[c], peer[c], at[c], script[c]>>

\* Its stream and its input stay.
LEMMA Untouched ==
  ASSUME NEW c \in Clients, Unmoved(c)
  PROVE  /\ Stream(c)' = Stream(c) /\ Input(c)' = Input(c)
         /\ ClientSound(c) => ClientSound(c)'
<1>1. Stream(c)' = Stream(c) /\ Input(c)' = Input(c)
  BY DEF Stream, Unsent, Input, Unmoved
<1>2. Asked(c)' = Asked(c)
  BY DEF Asked, Unmoved
<1> QED BY <1>1, <1>2 DEF ClientSound, StreamSound, NumbersAhead, Unmoved

\* What has to be shown of an open connection after a step.
OpenAfter(c) ==
  /\ conn'[c].streamed \/ conn'[c].keep_alive => Queued(conn'[c])
  /\ InOrder(Input(c)', script[c], Asked(c)')
  /\ peer'[c] # "rst" =>
       /\ Fits(conn'[c], Stream(c)', script[c], Asked(c)')
       /\ AllFrom(rx'[c], Floor(conn'[c], Stream(c)'))

\* It is enough.
LEMMA OpenSound ==
  ASSUME NEW c \in Clients, fd'[c] = "open", script'[c] = script[c], OpenAfter(c),
         Framed(Stream(c)'), EndsOnce(Stream(c)', script[c])
  PROVE  ClientSound(c)'
BY DEF OpenAfter, ClientSound, StreamSound, NumbersAhead, Fits

\* An open connection fits its stream.
LEMMA OpenFits ==
  ASSUME TypeOK, NEW c \in Clients, ClientSound(c), fd[c] = "open", peer[c] # "rst"
  PROVE  /\ Fits(conn[c], Stream(c), script[c], Asked(c))
         /\ AllFrom(rx[c], Floor(conn[c], Stream(c)))
         /\ Floor(conn[c], Stream(c)) \in Nat
<1>1. Stream(c) \in Seq(OutTok) /\ conn[c] \in Conn
  BY StreamType
<1>2. Floor(conn[c], Stream(c)) \in Nat
  <2> DEFINE s == Stream(c)
  <2>1. s # <<>> => s[Len(s)] \in OutTok
    BY <1>1
  <2>2. conn[c].num \in Nat
    BY <1>1 DEF Conn
  <2> HIDE DEF s
  <2>3. Floor(conn[c], s) \in Nat
    BY <2>1, <2>2 DEF Floor, OutTok
  <2> QED BY <2>3 DEF s
<1> QED BY <1>1, <1>2 DEF ClientSound, StreamSound, NumbersAhead, Fits

\* A connection that is cut off, or whose end is lost, leaves a prefix.
LEMMA CutSound ==
  ASSUME TypeOK, TypeOK', NEW c \in Clients, ClientSound(c), script'[c] = script[c],
         NEW t \in Seq(OutTok), Stream(c) = Stream(c)' \o t,
         fd'[c] = "none" => fd[c] = "none",
         InOrder(Input(c)', script[c], Asked(c)'),
         \/ fd'[c] # "open" /\ conn'[c] = BlankConn
         \/ fd'[c] = "open" /\ peer'[c] = "rst" /\ conn'[c] = conn[c]
  PROVE  ClientSound(c)'
<1>1. Stream(c)' \in Seq(OutTok)
  BY StreamAfterType
<1> DEFINE s == Stream(c)'
<1>2. Framed(s \o t) /\ EndsOnce(s \o t, script[c])
  BY DEF ClientSound
<1>3. s \in Seq(OutTok) /\ (Stream(c) = <<>> => s = <<>>)
  BY <1>1, ConcatEqualIffEmpty
<1> HIDE DEF s
<1>4. Framed(s) /\ EndsOnce(s, script[c])
  BY <1>2, <1>3, FramedPrefix
<1>5. CASE fd'[c] # "open" /\ conn'[c] = BlankConn
  <2>1. ~conn'[c].streamed /\ ~conn'[c].keep_alive
    BY <1>5 DEF BlankConn
  <2>2. fd'[c] = "none" => s = <<>>
    BY <1>3 DEF ClientSound, StreamSound
  <2> QED BY <1>4, <1>5, <2>1, <2>2 DEF ClientSound, StreamSound, s
<1>6. CASE fd'[c] = "open" /\ peer'[c] = "rst" /\ conn'[c] = conn[c]
  BY <1>4, <1>6 DEF ClientSound, StreamSound, s
<1> QED BY <1>5, <1>6

\* What is waiting to be used is of no later request than the one being sent.
LEMMA InputSent ==
  ASSUME TypeOK, NEW c \in Clients, ClientSound(c)
  PROVE  InOrder(Input(c), script[c], at[c].req)
<1> DEFINE in == Input(c)
<1>1. /\ in \in Seq(InTok) /\ InOrder(in, script[c], Asked(c))
      /\ Asked(c) \in Nat /\ at[c].req \in Nat
  BY StreamType DEF ClientSound, StreamSound
<1>2. Asked(c) <= at[c].req
  BY <1>1 DEF Asked
<1> HIDE DEF in
<1>3. ASSUME NEW k \in 1 .. Len(in)
      PROVE  in[k].r <= at[c].req
  <2>1. in[k] \in InTok /\ in[k].r <= Asked(c)
    BY <1>1 DEF InOrder
  <2> QED BY <1>1, <1>2, <2>1 DEF InTok
<1>4. InOrder(in, script[c], at[c].req)
  BY <1>1, <1>3 DEF InOrder
<1> QED BY <1>4 DEF in

-----------------------------------------------------------------------------
(* Clients and the network.                                                *)

\* Steps of a client that neither lose output nor touch the connection.
LEMMA StreamKept ==
  ASSUME TypeOK, NEW c \in Clients, ClientSound(c),
         UNCHANGED <<fd[c], conn[c], script[c]>>, Stream(c)' = Stream(c),
         peer'[c] # "rst" => peer[c] # "rst",
         InOrder(Input(c)', script[c], Asked(c)'),
         Asked(c)' \in Nat, Asked(c) <= Asked(c)',
         \A n \in Nat : n <= Asked(c) /\ AllFrom(rx[c], n) => AllFrom(rx'[c], n)
  PROVE  ClientSound(c)'
<1>1. CASE fd[c] # "open"
  BY <1>1 DEF ClientSound, StreamSound
<1>2. CASE fd[c] = "open"
  <2>1. ASSUME peer'[c] # "rst"
        PROVE  /\ Fits(conn'[c], Stream(c)', script[c], Asked(c)')
               /\ AllFrom(rx'[c], Floor(conn'[c], Stream(c)'))
    <3>1. /\ Fits(conn[c], Stream(c), script[c], Asked(c))
          /\ AllFrom(rx[c], Floor(conn[c], Stream(c)))
          /\ Floor(conn[c], Stream(c)) \in Nat
      BY <1>2, <2>1, OpenFits
    <3> DEFINE s == Stream(c)
               n == Floor(conn[c], s)
    <3>2. Fits(conn[c], s, script[c], Asked(c)) /\ AllFrom(rx[c], n) /\ n \in Nat
      BY <3>1
    <3>3. Stream(c)' = s /\ conn'[c] = conn[c]
      OBVIOUS
    <3>4. Asked(c) \in Nat
      BY StreamType
    <3> HIDE DEF s
    <3>5. n <= Asked(c)
      BY <3>2 DEF Fits
    <3>6. n <= Asked(c)'
      BY <3>2, <3>4, <3>5
    <3>7. AllFrom(rx'[c], n)
      BY <3>2, <3>5
    <3>8. Fits(conn[c], s, script[c], Asked(c)')
      BY <3>2, <3>6 DEF Fits
    <3> QED BY <3>3, <3>7, <3>8
  <2>2. OpenAfter(c)
    BY <2>1 DEF OpenAfter, ClientSound, StreamSound
  <2> QED BY <1>2, <2>2, OpenSound DEF ClientSound
<1> QED BY <1>1, <1>2

\* A client sends the next token of its script.
LEMMA SendSound ==
  ASSUME TypeOK, NEW c \in Clients, ClientSound(c), Send(c), UNCHANGED conn
  PROVE  ClientSound(c)'
<1> DEFINE tok == NextToken(c)
<1>1. /\ tok \in InTok /\ tok.r = at[c].req /\ tok.q = Sending(c)
      /\ Beyond(at[c], Sending(c)) \in Cursor
  BY SendType DEF Send, NextToken
<1>2. /\ rx' = [rx EXCEPT ![c] = Append(@, tok)]
      /\ at' = [at EXCEPT ![c] = Beyond(@, Sending(c))]
      /\ UNCHANGED <<fd, backlog, tx, got, peer, script>>
  BY DEF Send
<1>3. rx \in [Clients -> Seq(InTok)] /\ at \in [Clients -> Cursor]
  BY DEF TypeOK, NetTypeOK
<1> HIDE DEF tok
<1>4. rx'[c] = Append(rx[c], tok) /\ at'[c] = Beyond(at[c], Sending(c))
  BY <1>2, <1>3
<1>5. /\ Asked(c) \in Nat /\ at[c].req \in 1 .. Len(script[c])
      /\ Asked(c)' = at[c].req /\ Asked(c) <= Asked(c)'
  <2>1. /\ at[c].req \in Nat \ {0} /\ at[c].pos \in Nat \ {0}
        /\ script[c] \in Seq(Request) /\ at[c] \in Cursor
    BY <1>3, StreamType DEF Cursor
  <2>2. at[c].req \in 1 .. Len(script[c])
    BY <2>1 DEF Send, Done
  <2>3. Asked(c)' = at[c].req
    BY <1>4, <2>1 DEF Beyond, Cursor, Asked
  <2> QED BY <2>1, <2>2, <2>3 DEF Asked
<1>6. Stream(c)' = Stream(c)
  BY <1>2 DEF Stream, Unsent
<1>7. InOrder(Input(c)', script[c], Asked(c)')
  <2>1. Input(c) \in Seq(InTok) /\ conn[c].in \in Seq(InTok) /\ rx[c] \in Seq(InTok)
    BY StreamType
  <2>2. conn[c].in \o Append(rx[c], tok) = Append(conn[c].in \o rx[c], tok)
    <3> DEFINE s == conn[c].in
               t == rx[c]
    <3>1. s \in Seq(InTok) /\ t \in Seq(InTok) /\ tok \in InTok
      BY <1>1, <2>1
    <3> HIDE DEF s, t
    <3>2. s \o Append(t, tok) = Append(s \o t, tok)
      BY <3>1, AppendBehind
    <3> QED BY <3>2 DEF s, t
  <2>4. Input(c)' = conn[c].in \o rx'[c]
    BY DEF Input
  <2>5. Input(c)' = Append(Input(c), tok)
    BY <1>4, <2>2, <2>4 DEF Input
  <2>6. InOrder(Input(c), script[c], Asked(c))
    BY DEF ClientSound, StreamSound
  <2>7. tok.q = script[c][at[c].req]
    BY <1>1 DEF Sending
  <2>8. InOrder(Append(Input(c), tok), script[c], Asked(c)')
    <3> DEFINE in == Input(c)
    <3> HIDE DEF in
    <3>1. in \in Seq(InTok) /\ InOrder(in, script[c], Asked(c))
      BY <2>1, <2>6 DEF in
    <3>2. InOrder(Append(in, tok), script[c], Asked(c)')
      BY <1>1, <1>5, <2>7, <3>1, InOrderSent
    <3> QED BY <3>2 DEF in
  <2> QED BY <2>5, <2>8
<1>8. ASSUME NEW n \in Nat, n <= Asked(c), AllFrom(rx[c], n)
      PROVE  AllFrom(rx'[c], n)
  <2> DEFINE u == Append(rx[c], tok)
  <2>1. /\ Len(u) = Len(rx[c]) + 1 /\ Len(rx[c]) \in Nat /\ u[Len(rx[c]) + 1] = tok
        /\ \A j \in 1 .. Len(rx[c]) : u[j] = rx[c][j]
    BY <1>1, <1>3, AppendProperties
  <2> HIDE DEF u
  <2>2. ASSUME NEW j \in 1 .. Len(u)
        PROVE  n <= u[j].r
    <3>1. CASE j \in 1 .. Len(rx[c])
      BY <1>8, <2>1, <3>1 DEF AllFrom
    <3>2. CASE j = Len(rx[c]) + 1
      BY <1>1, <1>5, <1>8, <2>1, <3>2
    <3> QED BY <2>1, <3>1, <3>2
  <2>3. AllFrom(u, n)
    BY <2>2 DEF AllFrom
  <2> QED BY <1>4, <2>3 DEF u
<1> QED BY <1>2, <1>5, <1>6, <1>7, <1>8, StreamKept

\* A client reads what the kernel holds for it.
LEMMA ReceiveShape ==
  ASSUME TypeOK, NEW c \in Clients, Receive(c), UNCHANGED conn
  PROVE  /\ Stream(c)' = Stream(c) /\ Input(c)' = Input(c)
         /\ UNCHANGED <<fd, backlog, rx, peer, at, script>>
<1>1. /\ got \in [Clients -> Seq(OutTok)] /\ tx \in [Clients -> Seq(OutTok)]
      /\ Unsent(c) \in Seq(OutTok)
  BY StreamType DEF TypeOK, NetTypeOK
<1>2. /\ got'[c] = got[c] \o tx[c] /\ tx'[c] = <<>>
      /\ UNCHANGED <<fd, backlog, rx, peer, at, script>>
  BY <1>1 DEF Receive
<1> DEFINE s == got[c]
           t == tx[c]
           u == Unsent(c)
<1>3. Unsent(c)' = u
  BY <1>2 DEF Unsent
<1>4. Stream(c)' = (s \o t) \o <<>> \o u /\ Stream(c) = s \o t \o u
  BY <1>2, <1>3 DEF Stream
<1>5. s \in Seq(OutTok) /\ t \in Seq(OutTok) /\ u \in Seq(OutTok)
  BY <1>1
<1> HIDE DEF s, t, u
<1>6. s \o t \o <<>> \o u = s \o t \o u
  BY <1>5, MiddleEmpty
<1>7. Input(c)' = Input(c)
  BY <1>2 DEF Input
<1> QED BY <1>2, <1>4, <1>6, <1>7

\* That changes neither its stream nor its input.
LEMMA ReceiveSound ==
  ASSUME TypeOK, NEW c \in Clients, ClientSound(c), Receive(c), UNCHANGED conn
  PROVE  ClientSound(c)'
<1>1. /\ Stream(c)' = Stream(c) /\ Input(c)' = Input(c)
      /\ UNCHANGED <<fd, backlog, rx, peer, at, script>>
  BY ReceiveShape
<1>2. InOrder(Input(c)', script[c], Asked(c)')
  BY <1>1, AskedKept DEF ClientSound, StreamSound
<1>3. Asked(c) \in Nat /\ Asked(c)' = Asked(c) /\ Asked(c) <= Asked(c)
  BY <1>1, StreamType, AskedKept
<1> QED BY <1>1, <1>2, <1>3, StreamKept

\* RST, or a reset after close, cuts the stream at what has been read.
LEMMA LostShape ==
  ASSUME TypeOK, NEW c \in Clients, fd[c] # "open" => conn[c] = BlankConn,
         LeaveRst(c) \/ ResetAfterClose(c), UNCHANGED conn
  PROVE  /\ UNCHANGED <<fd, at, script>>
         /\ rx'[c] = rx[c] \/ (rx'[c] = <<>> /\ peer'[c] = "rst")
         /\ peer'[c] = "rst" \/ (peer' = peer /\ fd[c] = "closed")
         /\ \E t \in Seq(OutTok) : Stream(c) = Stream(c)' \o t
<1>1. /\ got[c] \in Seq(OutTok) /\ tx[c] \in Seq(OutTok) /\ Unsent(c) \in Seq(OutTok)
      /\ tx \in [Clients -> Seq(OutTok)] /\ rx \in [Clients -> Seq(InTok)]
      /\ peer \in [Clients -> {"absent", "connected", "eof", "rst"}]
      /\ conn[c].in \in Seq(InTok) /\ rx[c] \in Seq(InTok)
  BY StreamType DEF TypeOK, NetTypeOK
<1>2. /\ tx'[c] = <<>> /\ got'[c] = got[c] /\ UNCHANGED <<fd, at, script, conn>>
      /\ rx'[c] = rx[c] \/ (rx'[c] = <<>> /\ peer'[c] = "rst")
      /\ peer'[c] = "rst" \/ (peer' = peer /\ fd[c] = "closed")
  BY <1>1 DEF LeaveRst, ResetAfterClose
<1>3. Unsent(c)' = <<>>
  <2>1. CASE peer'[c] = "rst"
    BY <2>1 DEF Unsent
  <2>2. CASE fd[c] = "closed"
    <3>1. conn'[c] = BlankConn
      BY <1>2, <2>2
    <3>2. Consume(<<>>, 0) = <<>>
      BY SubSeqEmpty DEF Consume
    <3> QED BY <3>1, <3>2 DEF Unsent, BlankConn
  <2> QED BY <1>2, <2>1, <2>2
<1> DEFINE t == tx[c] \o Unsent(c)
<1>4. t \in Seq(OutTok) /\ Stream(c) = Stream(c)' \o t
  <2> DEFINE s == got[c]
             q == tx[c]
             u == Unsent(c)
  <2>1. s \in Seq(OutTok) /\ q \in Seq(OutTok) /\ u \in Seq(OutTok)
    BY <1>1
  <2>2. Stream(c)' = s \o <<>> \o <<>> /\ Stream(c) = s \o q \o u /\ t = q \o u
    BY <1>2, <1>3 DEF Stream
  <2> HIDE DEF s, q, u, t
  <2>3. /\ s \o <<>> \o <<>> = s
        /\ q \o u \in Seq(OutTok) /\ s \o q \o u = s \o (q \o u)
    BY <2>1, MiddleEmpty
  <2> QED BY <2>2, <2>3
<1> QED BY <1>2, <1>4

\* What is left of it is sound.
LEMMA LostSound ==
  ASSUME TypeOK, TypeOK', NEW c \in Clients, ClientSound(c),
         LeaveRst(c) \/ ResetAfterClose(c), UNCHANGED conn
  PROVE  ClientSound(c)'
<1>1. conn[c].in \in Seq(InTok) /\ rx[c] \in Seq(InTok)
  BY StreamType
<1>2. /\ UNCHANGED <<fd, at, script, conn>>
      /\ rx'[c] = rx[c] \/ rx'[c] = <<>>
      /\ peer'[c] = "rst" \/ (peer' = peer /\ fd[c] = "closed")
      /\ \E t \in Seq(OutTok) : Stream(c) = Stream(c)' \o t
  BY LostShape DEF ClientSound, StreamSound
<1>3. PICK t \in Seq(OutTok) : Stream(c) = Stream(c)' \o t
  BY <1>2
<1>5. InOrder(Input(c)', script[c], Asked(c)')
  <2>1. InOrder(conn[c].in \o rx[c], script[c], Asked(c))
    BY DEF ClientSound, StreamSound, Input
  <2>2. InOrder(conn[c].in, script[c], Asked(c))
    BY <1>1, <2>1, InOrderParts
  <2>3. conn[c].in \o <<>> = conn[c].in
    BY <1>1, ConcatEmptySeq
  <2>4. Input(c)' = conn[c].in \o rx'[c]
    BY DEF Input
  <2> QED BY <1>2, AskedKept, <2>1, <2>2, <2>3, <2>4
<1>6. \/ fd'[c] # "open" /\ conn'[c] = BlankConn
      \/ fd'[c] = "open" /\ peer'[c] = "rst" /\ conn'[c] = conn[c]
  BY <1>2 DEF ClientSound, StreamSound
<1> QED BY <1>2, <1>3, <1>5, <1>6, CutSound

\* A client connects, gives up a body, or half-closes: nothing flows.
LEMMA NothingFlows ==
  ASSUME TypeOK, NEW c \in Clients, ClientSound(c), UNCHANGED conn,
         Connect(c) \/ SkipBody(c) \/ LeaveEof(c)
  PROVE  ClientSound(c)'
<1>1. /\ UNCHANGED <<fd, rx, tx, got, script, conn>>
      /\ peer'[c] # "rst" /\ peer[c] # "rst"
      /\ Asked(c)' = Asked(c)
  <2>1. at[c] \in Cursor /\ at \in [Clients -> Cursor]
        /\ peer \in [Clients -> {"absent", "connected", "eof", "rst"}]
    BY DEF TypeOK, NetTypeOK
  <2>2. CASE Connect(c)
    BY <2>1, <2>2 DEF Connect, Asked
  <2>3. CASE SkipBody(c)
    BY <2>1, <2>3 DEF SkipBody, Cursor, Asked
  <2>4. CASE LeaveEof(c)
    BY <2>1, <2>4 DEF LeaveEof, Asked
  <2> QED BY <2>2, <2>3, <2>4
<1>2. Asked(c) \in Nat
  BY StreamType
<1>3. Asked(c)' \in Nat /\ Asked(c) <= Asked(c)'
  BY <1>1, <1>2
<1>4. Stream(c)' = Stream(c) /\ Input(c)' = Input(c)
  BY <1>1 DEF Stream, Unsent, Input
<1>5. InOrder(Input(c), script[c], Asked(c)')
  <2> DEFINE in == Input(c)
  <2>1. InOrder(in, script[c], Asked(c)) /\ in \in Seq(InTok)
    BY StreamType DEF ClientSound, StreamSound
  <2> HIDE DEF in
  <2>2. ASSUME NEW k \in 1 .. Len(in)
        PROVE  in[k].r <= Asked(c)'
    <3>1. in[k] \in InTok
      BY <2>1
    <3>2. in[k].r \in Nat
      BY <3>1 DEF InTok
    <3> QED BY <1>2, <1>3, <2>1, <3>2 DEF InOrder
  <2>3. InOrder(in, script[c], Asked(c)')
    BY <2>1, <2>2 DEF InOrder
  <2> QED BY <2>3 DEF in
<1>6. /\ InOrder(Input(c)', script[c], Asked(c)') /\ Stream(c)' = Stream(c)
      /\ rx'[c] = rx[c]
  BY <1>1, <1>4, <1>5
<1> QED BY <1>1, <1>3, <1>6, StreamKept

\* Whatever a client or the network does.
LEMMA WorldSound ==
  ASSUME TypeOK, TypeOK', NEW c \in Clients, ClientSound(c), NetStep(c), UNCHANGED serverVars
  PROVE  ClientSound(c)'
<1>1. UNCHANGED conn
  BY DEF serverVars
<1>2. CASE Connect(c) \/ SkipBody(c) \/ LeaveEof(c)
  BY <1>1, <1>2, NothingFlows
<1>3. CASE Send(c)
  BY <1>1, <1>3, SendSound
<1>4. CASE Receive(c)
  BY <1>1, <1>4, ReceiveSound
<1>5. CASE LeaveRst(c) \/ ResetAfterClose(c)
  BY <1>1, <1>5, LostSound
<1> QED BY <1>2, <1>3, <1>4, <1>5 DEF NetStep

-----------------------------------------------------------------------------
(* Opening, closing and flushing a connection.                             *)

\* A new connection starts with nothing read and nothing written.
LEMMA AcceptSound ==
  ASSUME TypeOK, NEW c \in Clients, ClientSound(c), Accept, c = Head(backlog), fd[c] = "none"
  PROVE  ClientSound(c)'
<1> DEFINE d == ConnReset([BlankConn EXCEPT !.last_activity = now], NextId)
<1>1. /\ conn \in [Clients -> Conn] /\ fd \in [Clients -> {"none", "open", "closed"}]
  BY DEF TypeOK, NetTypeOK
<1>2. /\ conn'[c] = d /\ fd'[c] = "open"
      /\ UNCHANGED <<rx, tx, got, peer, at, script>>
  BY <1>1 DEF Accept
<1>3. /\ d.in = <<>> /\ d.out = <<>> /\ d.out_off = 0 /\ d.state = "READ_HEADERS"
      /\ ~d.keep_alive /\ ~d.streamed /\ ~d.want_continue
  BY DEF ConnReset, BlankConn
<1>4. conn[c].in = <<>> /\ conn[c].out = <<>> /\ conn[c].out_off = 0 /\ Stream(c) = <<>>
  BY DEF ClientSound, StreamSound, BlankConn
<1> HIDE DEF d
<1>5. Stream(c)' = <<>>
  <2>1. Unsent(c)' = Unsent(c)
    BY <1>2, <1>3, <1>4 DEF Unsent
  <2> QED BY <1>2, <1>4, <2>1 DEF Stream
<1>6. Input(c)' = Input(c)
  BY <1>2, <1>3, <1>4 DEF Input
<1>7. InOrder(Input(c)', script[c], Asked(c)')
  BY <1>2, <1>6, AskedKept DEF ClientSound, StreamSound
<1>8. Floor(d, <<>>) = 0
  BY <1>3 DEF Floor, ReadsBody
<1>9. Asked(c) \in Nat /\ rx[c] \in Seq(InTok)
  BY StreamType
<1>10. AllFrom(rx[c], 0)
  <2> SUFFICES ASSUME NEW k \in 1 .. Len(rx[c])
               PROVE  0 <= rx[c][k].r
    BY DEF AllFrom
  <2>1. rx[c][k] \in InTok
    BY <1>9
  <2>2. rx[c][k].r \in Nat
    BY <2>1 DEF InTok
  <2> QED BY <2>2
<1>11. Framed(<<>>) /\ EndsOnce(<<>>, script[c]) /\ <<>> \in Seq(OutTok)
  BY DEF Framed, EndsOnce
<1>12. Upcoming(d.in, 0) /\ OutputEnds(d, <<>>) /\ CloseFollows(d, <<>>, script[c])
       /\ BodyKnown(d, script[c])
  BY <1>3 DEF Upcoming, AllFrom, OutputEnds, CloseFollows, BodyKnown, ReadsBody
<1>13. Fits(d, <<>>, script[c], Asked(c))
  BY <1>8, <1>9, <1>11, <1>12 DEF Fits
<1>14. OpenAfter(c)
  BY <1>2, <1>3, <1>5, <1>7, <1>8, <1>10, <1>13, AskedKept DEF OpenAfter
<1> QED BY <1>2, <1>5, <1>11, <1>14, OpenSound

\* What a closed connection had written and not sent is lost, if any was.
LEMMA ClosedSound ==
  ASSUME TypeOK, TypeOK', NEW c \in Clients, ClientSound(c),
         fd'[c] = "closed", conn'[c] = BlankConn, UNCHANGED <<rx, at, script>>,
         NEW t \in Seq(OutTok), Stream(c) = Stream(c)' \o t
  PROVE  ClientSound(c)'
<1>1. conn[c].in \in Seq(InTok) /\ rx[c] \in Seq(InTok)
  BY StreamType
<1>2. InOrder(conn[c].in \o rx[c], script[c], Asked(c))
  BY DEF ClientSound, StreamSound, Input
<1>3. InOrder(rx[c], script[c], Asked(c))
  BY <1>1, <1>2, InOrderParts
<1>4. Input(c)' = <<>> \o rx[c] /\ <<>> \o rx[c] = rx[c]
  <2>1. conn'[c].in = <<>>
    BY DEF BlankConn
  <2> QED BY <1>1, <2>1, ConcatEmptySeq DEF Input
<1>5. InOrder(Input(c)', script[c], Asked(c)')
  BY <1>3, <1>4, AskedKept
<1> QED BY <1>5, CutSound

\* conn_close, from wherever it is called.
Gone(c) ==
  /\ fd'[c] = "closed" /\ conn'[c] = BlankConn
  /\ UNCHANGED <<rx, tx, got, peer, at, script>>

\* What had not been sent is lost.
LEMMA DropShape ==
  ASSUME TypeOK, NEW c \in Clients, Gone(c)
  PROVE  \E t \in Seq(OutTok) : Stream(c) = Stream(c)' \o t
<1> DEFINE s == got[c]
           q == tx[c]
           u == Unsent(c)
<1>1. s \in Seq(OutTok) /\ q \in Seq(OutTok) /\ u \in Seq(OutTok)
  BY StreamType
<1>2. Unsent(c)' = <<>>
  <2>1. Consume(<<>>, 0) = <<>>
    BY SubSeqEmpty DEF Consume
  <2> QED BY <2>1 DEF Unsent, BlankConn, Gone
<1>3. Stream(c)' = s \o q \o <<>> /\ Stream(c) = s \o q \o u
  BY <1>2 DEF Stream, Gone
<1> HIDE DEF s, q, u
<1>4. s \o q \o u = (s \o q \o <<>>) \o u
  <2> DEFINE p == s \o q
  <2>1. p \in Seq(OutTok)
    BY <1>1, Regrouped
  <2> HIDE DEF p
  <2>2. p \o <<>> = p
    BY <2>1, ConcatEmptySeq
  <2>3. p \o u = (p \o <<>>) \o u
    BY <2>2
  <2> QED BY <2>3 DEF p
<1>5. Stream(c) = Stream(c)' \o u
  BY <1>3, <1>4
<1> QED BY <1>1, <1>5

\* What is left is sound.
LEMMA DropSound ==
  ASSUME TypeOK, TypeOK', NEW c \in Clients, ClientSound(c), Gone(c)
  PROVE  ClientSound(c)'
<1>1. PICK t \in Seq(OutTok) : Stream(c) = Stream(c)' \o t
  BY DropShape
<1> QED BY <1>1, ClosedSound DEF Gone

\* What is sent of a buffer and what is left of it make up the buffer.
LEMMA SentAndLeft ==
  ASSUME NEW out \in Seq(OutTok), NEW k \in 0 .. Len(out), NEW n \in 0 .. (Len(out) - k)
  PROVE  /\ SubSeq(out, k + 1, k + n) \in Seq(OutTok)
         /\ Consume(out, k + n) \in Seq(OutTok)
         /\ Consume(out, k) = SubSeq(out, k + 1, k + n) \o Consume(out, k + n)
<1> DEFINE s == SubSeq(out, k + 1, k + n)
           t == Consume(out, k + n)
           u == Consume(out, k)
           w == s \o t
<1>1. Len(out) \in Nat /\ k + n \in 0 .. Len(out)
  OBVIOUS
<1>2. /\ s \in Seq(OutTok) /\ Len(s) = n
      /\ \A j \in 1 .. n : s[j] = out[k + j]
  <2>1. k + 1 \in 1 .. Len(out) + 1 /\ k + n \in (k + 1) - 1 .. Len(out)
    BY <1>1
  <2>2. /\ s \in Seq(OutTok) /\ Len(s) = (k + n) - (k + 1) + 1
        /\ \A j \in 1 .. (k + n) - (k + 1) + 1 : s[j] = out[(k + 1) + j - 1]
    BY <2>1, SubSeqProperties
  <2> HIDE DEF s
  <2>3. k \in Nat /\ n \in Nat /\ (k + n) - (k + 1) + 1 = n
    BY <1>1
  <2>4. \A j \in 1 .. n : (k + 1) + j - 1 = k + j
    BY <2>3
  <2> QED BY <2>2, <2>3, <2>4
<1>3. /\ t \in Seq(OutTok) /\ Len(t) = Len(out) - (k + n)
      /\ \A j \in 1 .. (Len(out) - (k + n)) : t[j] = out[(k + n) + j]
  BY <1>1, ConsumeElements
<1>4. /\ u \in Seq(OutTok) /\ Len(u) = Len(out) - k
      /\ \A j \in 1 .. (Len(out) - k) : u[j] = out[k + j]
  BY ConsumeElements
<1> HIDE DEF s, t, u
<1>5. /\ w \in Seq(OutTok) /\ Len(w) = Len(s) + Len(t)
      /\ \A j \in 1 .. Len(s) + Len(t) : w[j] = IF j <= Len(s) THEN s[j] ELSE t[j - Len(s)]
  BY <1>2, <1>3, ConcatProperties
<1> HIDE DEF w
<1>6. Len(w) = Len(u)
  BY <1>1, <1>2, <1>3, <1>4, <1>5
<1>7. ASSUME NEW j \in 1 .. Len(w)
      PROVE  w[j] = u[j]
  <2>1. j \in 1 .. (Len(out) - k) /\ u[j] = out[k + j]
    BY <1>1, <1>4, <1>6
  <2>2. CASE j <= n
    BY <1>1, <1>2, <1>3, <1>5, <2>1, <2>2
  <2>3. CASE j > n
    <3>1. w[j] = t[j - n] /\ j - n \in 1 .. (Len(out) - (k + n))
      <4>1. j - n \in 1 .. (Len(out) - (k + n)) /\ j \in 1 .. Len(s) + Len(t)
        BY <1>1, <1>2, <1>3, <2>1, <2>3
      <4>2. ~(j <= Len(s)) /\ j - Len(s) = j - n
        BY <1>1, <1>2, <2>1, <2>3
      <4> QED BY <1>5, <4>1, <4>2
    <3>2. t[j - n] = out[(k + n) + (j - n)] /\ (k + n) + (j - n) = k + j
      BY <1>1, <1>3, <2>1, <3>1
    <3> QED BY <2>1, <3>1, <3>2
  <2> QED BY <1>1, <2>1, <2>2, <2>3
<1>8. w = u
  BY <1>4, <1>5, <1>6, <1>7, SeqEqual
<1> QED BY <1>2, <1>3, <1>8 DEF s, t, u, w

\* Sending moves the stream along, and changes none of it.
LEMMA FlushKeepsStream ==
  ASSUME TypeOK, NEW c \in Clients, c = f, Flush, NEW left,
         Unsent(c)' = left, left = Consume(conn[c].out, conn[c].out_off + Flushed)
  PROVE  Stream(c)' = Stream(c)
<1>1. /\ conn[c] \in Conn /\ conn[c].out_off <= Len(conn[c].out)
      /\ tx \in [Clients -> Seq(OutTok)] /\ got[c] \in Seq(OutTok)
      /\ Flushed \in Nat /\ Flushed <= Len(conn[c].out) - conn[c].out_off
  BY FlushedType DEF TypeOK, NetTypeOK, Pending
<1> DEFINE out == conn[c].out
           k == conn[c].out_off
           n == Flushed
           s == got[c]
           q == tx[c]
           sent == SubSeq(out, k + 1, k + n)
           rest == Consume(out, k + n)
<1>2. /\ out \in Seq(OutTok) /\ k \in 0 .. Len(out) /\ n \in 0 .. (Len(out) - k)
      /\ s \in Seq(OutTok) /\ q \in Seq(OutTok)
  <2>1. out \in Seq(OutTok) /\ k \in Nat /\ Len(out) \in Nat
    BY <1>1 DEF Conn
  <2> QED BY <1>1, <2>1
<1>3. /\ tx'[c] = q \o sent /\ got'[c] = s /\ peer[c] # "rst"
  BY <1>1 DEF Flush
<1>4. Stream(c)' = (s \o (q \o sent)) \o rest
  BY <1>3 DEF Stream
<1>5. Stream(c) = (s \o q) \o Consume(out, k)
  BY <1>3 DEF Stream, Unsent
<1>6. sent \in Seq(OutTok) /\ rest \in Seq(OutTok) /\ Consume(out, k) = sent \o rest
  <2> HIDE DEF out, k, n
  <2> QED BY <1>2, SentAndLeft
<1> DEFINE p == s \o q
<1> HIDE DEF s, q, sent, rest, out, k, n
<1>7. (s \o q) \o sent = s \o (q \o sent) /\ p \in Seq(OutTok)
  <2>1. s \in Seq(OutTok) /\ q \in Seq(OutTok) /\ sent \in Seq(OutTok)
    BY <1>2, <1>6
  <2> QED BY <2>1, Regrouped
<1> HIDE DEF p
<1>8. (p \o sent) \o rest = p \o (sent \o rest)
  <2>1. p \in Seq(OutTok) /\ sent \in Seq(OutTok) /\ rest \in Seq(OutTok)
    BY <1>6, <1>7
  <2> QED BY <2>1, Regrouped
<1>9. Stream(c)' = (p \o sent) \o rest /\ Stream(c) = p \o (sent \o rest)
  BY <1>4, <1>5, <1>6, <1>7 DEF p
<1> QED BY <1>8, <1>9

\* A record that agrees on what is being read and answered fits as well.
LEMMA FitsAlike ==
  ASSUME NEW cn, NEW d, NEW s, NEW requests, NEW n, Fits(cn, s, requests, n),
         d.in = cn.in, d.num = cn.num, d.req = cn.req, d.state = cn.state,
         d.want_continue = cn.want_continue, d.keep_alive = cn.keep_alive
  PROVE  Fits(d, s, requests, n) /\ Floor(d, s) = Floor(cn, s)
<1>1. (ReadsBody(d) <=> ReadsBody(cn)) /\ (Queued(d) <=> Queued(cn))
  BY DEF ReadsBody, Queued
<1>2. Floor(d, s) = Floor(cn, s)
  BY <1>1 DEF Floor
<1> QED BY <1>1, <1>2 DEF Fits, OutputEnds, BodyKnown, CloseFollows

\* Once the 100 Continue is sent, the body is read.
LEMMA FitsResumed ==
  ASSUME NEW cn \in Conn, NEW s, NEW requests, NEW n, Fits(cn, s, requests, n),
         cn.want_continue, cn.next_state \in {"READ_BODY", "READ_CHUNK"}
  PROVE  LET d == ResumeBody(cn)
         IN  Fits(d, s, requests, n) /\ Floor(d, s) = Floor(cn, s)
<1> DEFINE d == ResumeBody(cn)
<1>1. /\ d.in = cn.in /\ d.num = cn.num /\ d.req = cn.req /\ d.state = cn.next_state
      /\ ~d.want_continue
  BY DEF ResumeBody, Conn
<1> HIDE DEF d
<1>2. ReadsBody(d) /\ ReadsBody(cn) /\ ~Queued(cn)
  BY <1>1 DEF ReadsBody, Queued
<1>3. Floor(d, s) = Floor(cn, s)
  BY <1>1, <1>2 DEF Floor
<1>4. CloseFollows(d, s, requests)
  BY <1>2 DEF Fits, CloseFollows
<1>5. OutputEnds(d, s) /\ BodyKnown(d, requests)
  BY <1>1, <1>2, <1>3 DEF Fits, OutputEnds, BodyKnown
<1>6. Fits(d, s, requests, n)
  BY <1>1, <1>3, <1>4, <1>5 DEF Fits
<1> QED BY <1>3, <1>6 DEF d

\* Once an answer is sent on a connection that is kept, the next may come.
LEMMA FitsReset ==
  ASSUME NEW cn \in Conn, NEW s, NEW requests, NEW n, Fits(cn, s, requests, n),
         cn.keep_alive, Queued(cn), NEW id
  PROVE  LET d == ConnReset(cn, id)
         IN  Fits(d, s, requests, n) /\ Floor(d, s) = Floor(cn, s)
<1> DEFINE d == ConnReset(cn, id)
<1>1. d.in = cn.in /\ d.state = "READ_HEADERS" /\ ~d.want_continue
  BY DEF ConnReset, BlankConn
<1> HIDE DEF d
<1>2. ~ReadsBody(d) /\ ~ReadsBody(cn)
  BY <1>1 DEF ReadsBody, Queued
<1>3. Floor(d, s) = Floor(cn, s)
  BY <1>2 DEF Floor
<1>4. CloseFollows(d, s, requests)
  BY DEF Fits, CloseFollows
<1>5. OutputEnds(d, s) /\ BodyKnown(d, requests)
  BY <1>2, <1>3 DEF Fits, OutputEnds, BodyKnown
<1>6. Fits(d, s, requests, n)
  BY <1>1, <1>3, <1>4, <1>5 DEF Fits
<1> QED BY <1>3, <1>6 DEF d

\* A connection whose output moves along is sound if its new record fits.
LEMMA MovedSound ==
  ASSUME TypeOK, NEW c \in Clients, ClientSound(c), fd[c] = "open", peer[c] # "rst",
         UNCHANGED <<fd, rx, peer, at, script>>, Stream(c)' = Stream(c),
         conn'[c].in = conn[c].in,
         conn'[c].streamed \/ conn'[c].keep_alive => Queued(conn'[c]),
         Fits(conn'[c], Stream(c), script[c], Asked(c)),
         Floor(conn'[c], Stream(c)) = Floor(conn[c], Stream(c))
  PROVE  ClientSound(c)'
<1>1. Input(c)' = Input(c)
  BY DEF Input
<1>2. InOrder(Input(c)', script[c], Asked(c)')
  BY <1>1, AskedKept DEF ClientSound, StreamSound
<1>3. AllFrom(rx'[c], Floor(conn'[c], Stream(c)'))
  BY OpenFits
<1>4. OpenAfter(c)
  BY <1>2, <1>3, AskedKept DEF OpenAfter
<1> QED BY <1>4, OpenSound DEF ClientSound

\* A buffer that is sent to its end is empty.
LEMMA AllSent ==
  ASSUME NEW cn \in Conn, NEW n, n = Pending(cn)
  PROVE  Consume(cn.out, cn.out_off + n) = <<>>
<1> DEFINE out == cn.out
           k == cn.out_off
<1>1. out \in Seq(OutTok) /\ k \in Nat /\ Len(out) \in Nat
  BY DEF Conn
<1>2. k + n = Len(out)
  BY <1>1 DEF Pending
<1>3. SubSeq(out, Len(out) + 1, Len(out)) = <<>>
  BY <1>1, SubSeqEmpty
<1> HIDE DEF out, k
<1>4. Consume(out, k + n) = <<>>
  BY <1>2, <1>3 DEF Consume
<1> QED BY <1>4 DEF out, k

\* What flush_conn and on_flush_complete leave behind, where the connection
\* stays open: more output, a body to read, or nothing.
FlushStays == ServeFlushPart \/ ServeFlushContinue \/ ServeFlushKeepAlive

FlushLeaves(cn, d) ==
  \/ d = [cn EXCEPT !.out_off = @ + Flushed]
  \/ cn.want_continue /\ d = ResumeBody(cn)
  \/ ~cn.want_continue /\ cn.keep_alive /\ d = ConnReset(cn, NextId)

\* Sending moves output along and leaves the rest alone.
LEMMA FlushShape ==
  ASSUME TypeOK, NEW c \in Clients, c = f, FlushStays
  PROVE  /\ Stream(c)' = Stream(c) /\ Input(c)' = Input(c)
         /\ UNCHANGED <<fd, rx, peer, at, script>> /\ peer[c] # "rst"
         /\ conn'[c].in = conn[c].in /\ FlushLeaves(conn[c], conn'[c])
<1> DEFINE cn == conn[c]
           s == Stream(c)
<1>1. /\ cn \in Conn /\ conn \in [Clients -> Conn]
      /\ cn.out_off \in Nat /\ Flushed \in Nat
  <2>1. conn \in [Clients -> Conn] /\ cn \in Conn
    BY DEF TypeOK
  <2> QED BY <2>1, FlushedType DEF Conn
<1>2. /\ Flush /\ UNCHANGED <<fd, rx, peer, at, script>> /\ peer[c] # "rst"
  <2>1. Flush /\ UNCHANGED fd
    BY DEF FlushStays, ServeFlushPart, ServeFlushContinue, ServeFlushKeepAlive
  <2>2. UNCHANGED <<rx, peer, at, script>> /\ peer[c] # "rst"
    BY <2>1 DEF Flush
  <2> QED BY <2>1, <2>2
<1>3. Consume(<<>>, 0) = <<>>
  BY SubSeqEmpty DEF Consume
<1>4. ASSUME conn'[c].in = cn.in, Unsent(c)' = Consume(cn.out, cn.out_off + Flushed)
      PROVE  Stream(c)' = s /\ Input(c)' = Input(c)
  <2>1. Input(c)' = Input(c)
    BY <1>2, <1>4 DEF Input
  <2> QED BY <1>2, <1>4, <2>1, FlushKeepsStream
<1>5. CASE ServeFlushPart
  <2> DEFINE d == [cn EXCEPT !.out_off = @ + Flushed]
  <2>1. conn'[c] = d
    BY <1>1, <1>5 DEF ServeFlushPart
  <2>2. d.in = cn.in /\ d.out = cn.out /\ d.out_off = cn.out_off + Flushed
    BY <1>1 DEF Conn
  <2>3. FlushLeaves(cn, d)
    BY DEF FlushLeaves
  <2> HIDE DEF d
  <2>4. Unsent(c)' = Consume(cn.out, cn.out_off + Flushed)
    BY <1>2, <2>1, <2>2 DEF Unsent
  <2> QED BY <1>2, <1>4, <2>1, <2>2, <2>3, <2>4
<1>6. CASE ServeFlushContinue
  <2> DEFINE d == ResumeBody(cn)
  <2>1. conn'[c] = d /\ cn.want_continue /\ Flushed = Pending(cn)
    BY <1>1, <1>6 DEF ServeFlushContinue
  <2>2. d.in = cn.in /\ d.out = <<>> /\ d.out_off = 0
    BY <1>1 DEF ResumeBody, Conn
  <2>3. FlushLeaves(cn, d)
    BY <2>1 DEF FlushLeaves
  <2> HIDE DEF d
  <2>4. Consume(cn.out, cn.out_off + Flushed) = <<>>
    BY <1>1, <2>1, AllSent
  <2>5. Unsent(c)' = Consume(cn.out, cn.out_off + Flushed)
    BY <1>2, <1>3, <2>1, <2>2, <2>4 DEF Unsent
  <2> QED BY <1>2, <1>4, <2>1, <2>2, <2>3, <2>5
<1>7. CASE ServeFlushKeepAlive
  <2> DEFINE d == ConnReset(cn, NextId)
  <2>1. conn'[c] = d /\ ~cn.want_continue /\ cn.keep_alive /\ Flushed = Pending(cn)
    BY <1>1, <1>7 DEF ServeFlushKeepAlive
  <2>2. d.in = cn.in /\ d.out = <<>> /\ d.out_off = 0
    BY DEF ConnReset, BlankConn
  <2>3. FlushLeaves(cn, d)
    BY <2>1 DEF FlushLeaves
  <2> HIDE DEF d
  <2>4. Consume(cn.out, cn.out_off + Flushed) = <<>>
    BY <1>1, <2>1, AllSent
  <2>5. Unsent(c)' = Consume(cn.out, cn.out_off + Flushed)
    BY <1>2, <1>3, <2>1, <2>2, <2>4 DEF Unsent
  <2> QED BY <1>2, <1>4, <2>1, <2>2, <2>3, <2>5
<1> QED BY <1>5, <1>6, <1>7 DEF FlushStays

\* flush_conn and on_flush_complete, where the connection stays open.
LEMMA FlushSound ==
  ASSUME TypeOK, ContinueSound, NEW c \in Clients, c = f, ClientSound(c), fd[c] = "open",
         FlushStays
  PROVE  ClientSound(c)'
<1> DEFINE cn == conn[c]
           d == conn'[c]
           s == Stream(c)
           n == Asked(c)
<1>1. /\ Stream(c)' = s /\ UNCHANGED <<fd, rx, peer, at, script>> /\ peer[c] # "rst"
      /\ d.in = cn.in /\ FlushLeaves(cn, d)
  BY FlushShape
<1>2. /\ cn \in Conn /\ (cn.streamed \/ cn.keep_alive => Queued(cn))
      /\ Fits(cn, s, script[c], n)
  BY <1>1, OpenFits DEF ClientSound, StreamSound, TypeOK
<1>3. cn.want_continue => cn.next_state \in {"READ_BODY", "READ_CHUNK"}
  BY DEF ContinueSound
<1> HIDE DEF s, n, cn, d
<1>4. /\ Fits(d, s, script[c], n) /\ Floor(d, s) = Floor(cn, s)
      /\ d.streamed \/ d.keep_alive => Queued(d)
  <2>1. CASE d = [cn EXCEPT !.out_off = @ + Flushed]
    <3>1. /\ d.in = cn.in /\ d.num = cn.num /\ d.req = cn.req /\ d.state = cn.state
          /\ d.want_continue = cn.want_continue /\ d.keep_alive = cn.keep_alive
          /\ d.streamed = cn.streamed
      BY <1>2, <2>1 DEF Conn
    <3>2. Fits(d, s, script[c], n) /\ Floor(d, s) = Floor(cn, s)
      BY <1>2, <3>1, FitsAlike
    <3> QED BY <1>2, <3>1, <3>2 DEF Queued
  <2>2. CASE cn.want_continue /\ d = ResumeBody(cn)
    <3>1. Fits(d, s, script[c], n) /\ Floor(d, s) = Floor(cn, s)
      BY <1>2, <1>3, <2>2, FitsResumed
    <3>2. d.streamed = cn.streamed /\ d.keep_alive = cn.keep_alive
      BY <1>2, <2>2 DEF ResumeBody, Conn
    <3> QED BY <1>2, <2>2, <3>1, <3>2 DEF Queued
  <2>3. CASE ~cn.want_continue /\ cn.keep_alive /\ d = ConnReset(cn, NextId)
    <3>1. Fits(d, s, script[c], n) /\ Floor(d, s) = Floor(cn, s)
      BY <1>2, <2>3, FitsReset
    <3>2. ~d.streamed /\ ~d.keep_alive
      BY <2>3 DEF ConnReset, BlankConn
    <3> QED BY <3>1, <3>2
  <2> QED BY <1>1, <2>1, <2>2, <2>3 DEF FlushLeaves
<1> QED BY <1>1, <1>4, MovedSound DEF s, n, cn, d

\* on_flush_complete, where the connection is closed: all has been sent.
LEMMA FlushCloseShape ==
  ASSUME TypeOK, NEW c \in Clients, c = f, ServeFlushClose
  PROVE  /\ Stream(c)' = Stream(c) /\ UNCHANGED <<rx, peer, at, script>>
         /\ fd'[c] = "closed" /\ conn'[c] = BlankConn
<1> DEFINE cn == conn[c]
<1>1. /\ cn \in Conn
      /\ conn \in [Clients -> Conn] /\ fd \in [Clients -> {"none", "open", "closed"}]
  BY DEF TypeOK, NetTypeOK
<1>2. /\ Flush /\ UNCHANGED <<rx, at, script>> /\ peer[c] # "rst" /\ peer' = peer
      /\ fd'[c] = "closed" /\ conn'[c] = BlankConn /\ Flushed = Pending(cn)
  BY <1>1 DEF ServeFlushClose, Flush
<1>3. Consume(cn.out, cn.out_off + Flushed) = <<>>
  BY <1>1, <1>2, AllSent
<1>4. Unsent(c)' = Consume(cn.out, cn.out_off + Flushed)
  <2>1. Consume(<<>>, 0) = <<>>
    BY SubSeqEmpty DEF Consume
  <2> QED BY <1>2, <1>3, <2>1 DEF Unsent, BlankConn
<1>5. Stream(c)' = Stream(c)
  BY <1>2, <1>4, FlushKeepsStream
<1> QED BY <1>2, <1>5

\* Nothing of the stream is lost by it.
LEMMA FlushCloseSound ==
  ASSUME TypeOK, TypeOK', NEW c \in Clients, c = f, ClientSound(c), ServeFlushClose
  PROVE  ClientSound(c)'
<1>1. /\ Stream(c)' = Stream(c) /\ UNCHANGED <<rx, at, script>>
      /\ fd'[c] = "closed" /\ conn'[c] = BlankConn
  BY FlushCloseShape
<1>2. <<>> \in Seq(OutTok) /\ Stream(c) \o <<>> = Stream(c)
  BY StreamType, ConcatEmptySeq
<1>3. Stream(c) = Stream(c)' \o <<>>
  BY <1>1, <1>2
<1> QED BY <1>1, <1>2, <1>3, ClosedSound

-----------------------------------------------------------------------------
(* Reading.                                                                *)

\* What recv() returns is of no earlier request than the one at hand.
LEMMA ReceivedFits ==
  ASSUME NEW cn \in Conn, NEW s, NEW requests, NEW n, NEW t \in Seq(InTok), NEW d,
         Fits(cn, s, requests, n), AllFrom(t, Floor(cn, s)), Floor(cn, s) \in Nat,
         d.in = cn.in \o t, d.num = cn.num, d.req = cn.req, d.state = cn.state,
         d.want_continue = cn.want_continue, d.keep_alive = cn.keep_alive
  PROVE  Fits(d, s, requests, n)
<1>1. (ReadsBody(d) <=> ReadsBody(cn)) /\ (Queued(d) <=> Queued(cn))
  BY DEF ReadsBody, Queued
<1>2. Floor(d, s) = Floor(cn, s) /\ (ReadsBody(cn) => Floor(cn, s) = cn.num)
  BY <1>1 DEF Floor
<1>3. cn.in \in Seq(InTok)
  BY DEF Conn
<1>4. Upcoming(d.in, Floor(cn, s))
  BY <1>3, UpcomingReceived DEF Fits
<1>5. BodyKnown(d, requests)
  <2> SUFFICES ASSUME ReadsBody(cn)
               PROVE  /\ AllFrom(d.in, cn.num) /\ cn.num \in 1 .. Len(requests)
                      /\ cn.req = requests[cn.num]
    BY <1>1 DEF BodyKnown
  <2>1. AllFrom(cn.in, cn.num) /\ cn.num \in 1 .. Len(requests) /\ cn.req = requests[cn.num]
    BY DEF Fits, BodyKnown
  <2>2. AllFrom(t, cn.num)
    BY <1>2
  <2> QED BY <1>3, <2>1, <2>2, AllFromJoined
<1> QED BY <1>1, <1>2, <1>4, <1>5 DEF Fits, OutputEnds, CloseFollows

\* Tokens queued behind a buffer come behind what is left of it.
LEMMA ConsumeExtended ==
  ASSUME NEW out \in Seq(OutTok), NEW k \in 0 .. Len(out), NEW toks \in Seq(OutTok)
  PROVE  Consume(out \o toks, k) = Consume(out, k) \o toks
<1> DEFINE t == out \o toks
           u == Consume(out, k)
           v == Consume(t, k)
           w == u \o toks
<1>1. /\ t \in Seq(OutTok) /\ Len(t) = Len(out) + Len(toks)
      /\ Len(out) \in Nat /\ Len(toks) \in Nat
      /\ \A j \in 1 .. Len(out) + Len(toks) :
           t[j] = IF j <= Len(out) THEN out[j] ELSE toks[j - Len(out)]
  BY ConcatProperties
<1> HIDE DEF t
<1>2. /\ u \in Seq(OutTok) /\ Len(u) = Len(out) - k
      /\ \A j \in 1 .. (Len(out) - k) : u[j] = out[k + j]
  BY ConsumeElements
<1>3. /\ v \in Seq(OutTok) /\ Len(v) = Len(t) - k
      /\ \A j \in 1 .. (Len(t) - k) : v[j] = t[k + j]
  <2>1. k \in 0 .. Len(t)
    BY <1>1
  <2> QED BY <1>1, <2>1, ConsumeElements
<1> HIDE DEF u, v
<1>4. /\ w \in Seq(OutTok) /\ Len(w) = Len(u) + Len(toks)
      /\ \A j \in 1 .. Len(u) + Len(toks) : w[j] = IF j <= Len(u) THEN u[j] ELSE toks[j - Len(u)]
  BY <1>2, ConcatProperties
<1> HIDE DEF w
<1>5. Len(v) = Len(w) /\ Len(v) = (Len(out) - k) + Len(toks)
  BY <1>1, <1>2, <1>3, <1>4
<1>6. ASSUME NEW j \in 1 .. Len(v)
      PROVE  v[j] = w[j]
  <2>1. v[j] = t[k + j] /\ k + j \in 1 .. Len(out) + Len(toks)
    <3>1. j \in 1 .. (Len(t) - k) /\ k + j \in 1 .. Len(t)
      BY <1>1, <1>3
    <3> QED BY <1>1, <1>3, <3>1
  <2>2. CASE j <= Len(u)
    <3>1. w[j] = u[j] /\ j \in 1 .. (Len(out) - k)
      BY <1>1, <1>2, <1>4, <1>5, <2>2
    <3>2. k + j <= Len(out)
      BY <1>1, <3>1
    <3> QED BY <1>1, <1>2, <2>1, <3>1, <3>2
  <2>3. CASE j > Len(u)
    <3>1. w[j] = toks[j - Len(u)]
      BY <1>1, <1>2, <1>4, <1>5, <2>3
    <3>2. ~(k + j <= Len(out)) /\ (k + j) - Len(out) = j - Len(u)
      BY <1>1, <1>2, <2>3
    <3> QED BY <1>1, <2>1, <3>1, <3>2
  <2> QED BY <1>1, <1>2, <1>5, <2>2, <2>3
<1>7. v = w
  BY <1>3, <1>4, <1>5, <1>6, SeqEqual
<1> QED BY <1>7 DEF t, u, v, w

\* The output of http_read_step comes behind what is not sent yet.
LEMMA ReadStream ==
  ASSUME TypeOK, NEW c \in Clients, c = f, ReadOn, peer[c] # "rst",
         NEW toks \in Seq(OutTok), ReadStep(Received).out = conn[c].out \o toks,
         ReadStep(Received).out_off = conn[c].out_off
  PROVE  Stream(c)' = Stream(c) \o toks
<1> DEFINE cn == conn[c]
           s == Stream(c)
           p == got[c] \o tx[c]
           e == Consume(cn.out, cn.out_off)
<1>1. /\ conn \in [Clients -> Conn] /\ cn \in Conn /\ cn.out_off <= Len(cn.out)
  BY DEF TypeOK, NetTypeOK
<1>2. cn.out \in Seq(OutTok) /\ cn.out_off \in 0 .. Len(cn.out)
  BY <1>1 DEF Conn
<1>3. /\ conn'[c] = ReadStep(Received) /\ UNCHANGED <<tx, got, peer>>
  BY <1>1 DEF ReadOn
<1>4. Unsent(c)' = Consume(cn.out \o toks, cn.out_off) /\ Unsent(c) = e
  BY <1>3 DEF Unsent
<1>5. Consume(cn.out \o toks, cn.out_off) = e \o toks
  BY <1>2, ConsumeExtended
<1>6. p \in Seq(OutTok) /\ e \in Seq(OutTok)
  <2>1. got[c] \in Seq(OutTok) /\ tx[c] \in Seq(OutTok) /\ Unsent(c) \in Seq(OutTok)
    BY StreamType
  <2> QED BY <1>4, <2>1, Regrouped
<1>7. Stream(c)' = p \o (e \o toks) /\ s = p \o e
  BY <1>3, <1>4, <1>5 DEF Stream
<1> HIDE DEF p, e, s
<1>8. (p \o e) \o toks = p \o (e \o toks)
  BY <1>6, Regrouped
<1> QED BY <1>7, <1>8 DEF s

\* conn_read and http_read_step on a connection that is not reset.
LEMMA ReadSound ==
  ASSUME TypeOK, ContinueSound, NEW c \in Clients, c = f, ClientSound(c), fd[c] = "open",
         ReadOn
  PROVE  ClientSound(c)'
<1> DEFINE cn == conn[c]
           s == Stream(c)
           r == Received
           d == ReadStep(r)
           n == Asked(c)
<1>1. /\ cn \in Conn /\ conn \in [Clients -> Conn] /\ rx \in [Clients -> Seq(InTok)]
      /\ rx[c] \in Seq(InTok) /\ cn.out_off <= Len(cn.out)
  BY DEF TypeOK, NetTypeOK
<1>2. /\ cn.in \in Seq(InTok) /\ cn.out \in Seq(OutTok) /\ cn.out_off \in 0 .. Len(cn.out)
  BY <1>1 DEF Conn
<1>3. /\ conn'[c] = d /\ rx'[c] = <<>> /\ UNCHANGED <<fd, tx, got, peer, at, script>>
  BY <1>1 DEF ReadOn
<1>4. /\ r \in Conn /\ r.state = cn.state /\ r.out = cn.out /\ r.out_off = cn.out_off
      /\ r.want_continue = cn.want_continue
  BY ReceivedType
<1>5. /\ r.in = cn.in \o rx[c] /\ r.num = cn.num /\ r.req = cn.req
      /\ r.keep_alive = cn.keep_alive /\ r.streamed = cn.streamed
  BY <1>1 DEF Received, Conn
<1> HIDE DEF r
<1>6. IF r.state = "WRITE" THEN d = r ELSE Step(r, d)
  BY <1>4, ReadStepEffect
<1>7. d.out_off = cn.out_off /\ d \in Conn
  BY <1>4, <1>6 DEF Step, Answers, Continues, Waits
<1>8. cn.streamed \/ cn.keep_alive => Queued(cn)
  BY DEF ClientSound, StreamSound
<1>9. r.state # "WRITE" => Fresh(r)
  BY <1>4, <1>5, <1>8 DEF Fresh, Queued, ContinueSound
<1>10. InOrder(r.in, script[c], n) /\ n \in Nat
  BY <1>5, StreamType DEF ClientSound, StreamSound, Input
<1>11. /\ InOrder(d.in, script[c], n)
       /\ d.streamed \/ d.keep_alive => Queued(d)
  <2>1. CASE r.state = "WRITE"
    BY <1>4, <1>5, <1>6, <1>8, <1>10, <2>1 DEF Queued
  <2>2. CASE r.state # "WRITE"
    BY <1>4, <1>9, <1>10, <2>2, ReadKeeps
  <2> QED BY <2>1, <2>2
<1> HIDE DEF d
<1>12. InOrder(Input(c)', script[c], Asked(c)')
  <2>1. d.in \o <<>> = d.in
    BY <1>7, ConcatEmptySeq DEF Conn
  <2> QED BY <1>3, <1>11, <2>1, AskedKept DEF Input
<1>13. CASE peer[c] = "rst"
  <2>1. Stream(c)' = s
    BY <1>3, <1>13 DEF Stream, Unsent
  <2>2. OpenAfter(c)
    BY <1>3, <1>11, <1>12, <1>13 DEF OpenAfter
  <2> QED BY <1>3, <2>1, <2>2, OpenSound DEF ClientSound
<1>14. CASE peer[c] # "rst"
  <2>1. Fits(cn, s, script[c], n) /\ AllFrom(rx[c], Floor(cn, s)) /\ Floor(cn, s) \in Nat
    BY <1>14, OpenFits
  <2> HIDE DEF cn
  <2>2. Fits(r, s, script[c], n)
    BY <1>1, <1>4, <1>5, <2>1, ReceivedFits
  <2>3. PICK toks \in Seq(OutTok) : d.out = r.out \o toks /\ Fits(d, s \o toks, script[c], n)
    <3>1. CASE r.state = "WRITE"
      <4>1. <<>> \in Seq(OutTok) /\ s \o <<>> = s /\ r.out \o <<>> = r.out
        BY <1>2, <1>4, <2>1, ConcatEmptySeq DEF Fits
      <4>2. d = r
        BY <1>6, <3>1
      <4> QED BY <2>2, <4>1, <4>2
    <3>2. CASE r.state # "WRITE"
      BY <1>4, <1>9, <1>10, <2>2, <3>2, ReadFits DEF d, Extends
    <3> QED BY <3>1, <3>2
  <2>4. Stream(c)' = s \o toks
    BY <1>4, <1>7, <1>14, <2>3, ReadStream DEF d, r, cn
  <2> HIDE DEF s
  <2>5. AllFrom(rx'[c], Floor(d, s \o toks))
    BY <1>3 DEF AllFrom
  <2>6. OpenAfter(c)
    BY <1>3, <1>11, <1>12, <2>3, <2>4, <2>5, AskedKept DEF OpenAfter
  <2> QED BY <1>3, <2>3, <2>4, <2>6, OpenSound DEF Fits
<1> QED BY <1>13, <1>14

-----------------------------------------------------------------------------
(* The invariant.                                                          *)

\* FlowInv is what ClientSound says of every client.
LEMMA FlowInvParts == FlowInv <=> \A c \in Clients : ClientSound(c)
BY DEF FlowInv, StreamWellFramed, NothingAfterClose, ClientSound

\* Closing the connection of slot k concerns the client in it only.
LEMMA ConnCloseShape ==
  ASSUME TypeOK, NEW k, NEW table, NEW e \in Clients, ConnClose(k, table)
  PROVE  IF e = conns[k] THEN Gone(e) ELSE Unmoved(e)
<1>1. /\ fd \in [Clients -> {"none", "open", "closed"}] /\ conn \in [Clients -> Conn]
  BY DEF TypeOK, NetTypeOK
<1>2. UNCHANGED <<rx, tx, got, peer, at, script>>
  BY DEF ConnClose
<1>3. CASE e = conns[k]
  <2>1. fd'[e] = "closed" /\ conn'[e] = BlankConn
    BY <1>1, <1>3 DEF ConnClose
  <2> QED BY <1>2, <1>3, <2>1 DEF Gone
<1>4. CASE e # conns[k]
  <2>1. fd'[e] = fd[e] /\ conn'[e] = conn[e]
    BY <1>1, <1>4 DEF ConnClose
  <2> QED BY <1>2, <1>4, <2>1 DEF Unmoved
<1> QED BY <1>3, <1>4

\* The serve loop leaves alone whom it is not serving.
LEMMA ServeOthers ==
  ASSUME TypeOK, Serve, ~ServeDone, NEW e \in Clients, e # f
  PROVE  Unmoved(e)
<1>1. /\ rx \in [Clients -> Seq(InTok)] /\ tx \in [Clients -> Seq(OutTok)]
      /\ conn \in [Clients -> Conn] /\ fd \in [Clients -> {"none", "open", "closed"}]
  BY DEF TypeOK, NetTypeOK
<1>2. CASE ServeIdle
  BY <1>2 DEF ServeIdle, netVars, Unmoved
<1>3. CASE ServeHangup \/ ServeReadEnd \/ ServeFlushFails
  <2>1. ConnClose(i, Cleared(i)) /\ e # conns[i]
    BY <1>3 DEF ServeHangup, ServeReadEnd, ServeFlushFails, Dropped, f
  <2> QED BY <2>1, ConnCloseShape
<1>4. CASE ReadOn
  <2>1. /\ UNCHANGED <<fd, tx, got, peer, at, script>>
        /\ rx'[e] = rx[e] /\ conn'[e] = conn[e]
    BY <1>1, <1>4 DEF ReadOn
  <2> QED BY <2>1 DEF Unmoved
<1>5. CASE FlushStays
  <2>1. Flush /\ UNCHANGED fd /\ conn'[e] = conn[e]
    BY <1>1, <1>5 DEF FlushStays, ServeFlushPart, ServeFlushContinue, ServeFlushKeepAlive
  <2>2. UNCHANGED <<rx, got, peer, at, script>> /\ tx'[e] = tx[e]
    BY <1>1, <2>1 DEF Flush
  <2> QED BY <2>1, <2>2 DEF Unmoved
<1>6. CASE ServeFlushClose
  <2>1. UNCHANGED <<rx, got, peer, at, script>> /\ tx'[e] = tx[e]
    BY <1>1, <1>6 DEF ServeFlushClose
  <2>2. fd'[e] = fd[e] /\ conn'[e] = conn[e]
    BY <1>1, <1>6 DEF ServeFlushClose
  <2> QED BY <2>1, <2>2 DEF Unmoved
<1> QED BY <1>2, <1>3, <1>4, <1>5, <1>6 DEF Serve, FlushStays, ServeRead, ServeReadHangs

\* What the clients and the network do concerns one of them.
LEMMA WorldOthers ==
  ASSUME TypeOK, NEW c \in Clients, NetStep(c), UNCHANGED serverVars, NEW e \in Clients, e # c
  PROVE  Unmoved(e)
<1>1. /\ rx \in [Clients -> Seq(InTok)] /\ tx \in [Clients -> Seq(OutTok)]
      /\ got \in [Clients -> Seq(OutTok)] /\ at \in [Clients -> Cursor]
      /\ peer \in [Clients -> {"absent", "connected", "eof", "rst"}]
  BY DEF TypeOK, NetTypeOK
<1>2. UNCHANGED <<fd, script, conn>>
  BY DEF NetStep, Connect, Send, SkipBody, Receive, LeaveEof, LeaveRst, ResetAfterClose,
         serverVars
<1>3. rx'[e] = rx[e] /\ at'[e] = at[e]
  BY <1>1 DEF NetStep, Connect, Send, SkipBody, Receive, LeaveEof, LeaveRst, ResetAfterClose
<1>4. tx'[e] = tx[e] /\ got'[e] = got[e] /\ peer'[e] = peer[e]
  BY <1>1 DEF NetStep, Connect, Send, SkipBody, Receive, LeaveEof, LeaveRst, ResetAfterClose
<1> QED BY <1>2, <1>3, <1>4 DEF Unmoved

\* conn_read, whether or not the decoder comes back.
Reads == ServeRead \/ ServeReadHangs

\* Whatever the program or the world does, this is what it means to one client.
LEMMA ClientCases ==
  ASSUME IndInv, [Next]_vars, NEW e \in Clients
  PROVE  \/ Unmoved(e)
         \/ Gone(e)
         \/ Accept /\ e = Head(backlog) /\ fd[e] = "none"
         \/ Reads /\ e = f /\ fd[e] = "open"
         \/ FlushStays /\ e = f /\ fd[e] = "open"
         \/ ServeFlushClose /\ e = f
         \/ NetStep(e) /\ UNCHANGED serverVars
<1>1. TypeOK /\ LoopBounds /\ TableSound
  BY DEF IndInv
<1>2. CASE Listen \/ Free \/ Quiet \/ UNCHANGED vars
  <2>1. UNCHANGED netVars /\ UNCHANGED conn
    BY <1>1, <1>2, QuietTable DEF Listen, Free, vars, serverVars
  <2> QED BY <2>1 DEF netVars, Unmoved
<1>3. CASE Accept
  <2> DEFINE c == Head(backlog)
  <2>1. c \in Clients /\ fd[c] = "none"
    <3>1. backlog \in Seq(Clients) /\ backlog # <<>>
      BY <1>1, <1>3 DEF Accept, TypeOK, NetTypeOK
    <3>2. 1 \in 1 .. Len(backlog) /\ c = backlog[1] /\ c \in Clients
      BY <3>1
    <3> QED BY <3>2 DEF IndInv, BacklogSound
  <2>2. CASE e # c
    <3>1. /\ UNCHANGED <<rx, tx, got, peer, at, script>>
          /\ fd'[e] = fd[e] /\ conn'[e] = conn[e]
      BY <1>1, <1>3, <2>2 DEF Accept, TypeOK, NetTypeOK
    <3> QED BY <3>1 DEF Unmoved
  <2> QED BY <1>3, <2>1, <2>2
<1>4. CASE Serve /\ ~ServeDone
  <2>1. fd[f] = "open"
    BY <1>1, <1>4, ServedSlotTable
  <2>2. CASE e # f
    BY <1>1, <1>4, <2>2, ServeOthers
  <2>3. CASE e = f
    <3>1. CASE ServeIdle
      BY <3>1 DEF ServeIdle, netVars, Unmoved
    <3>2. CASE ServeHangup \/ ServeReadEnd \/ ServeFlushFails
      <4>1. ConnClose(i, Cleared(i)) /\ e = conns[i]
        BY <2>3, <3>2 DEF ServeHangup, ServeReadEnd, ServeFlushFails, Dropped, f
      <4> QED BY <1>1, <4>1, ConnCloseShape
    <3> QED BY <1>4, <2>1, <2>3, <3>1, <3>2 DEF Serve, FlushStays, Reads
  <2> QED BY <2>2, <2>3
<1>5. CASE ReapSlot
  <2>1. UNCHANGED <<netVars, conn>> \/ ConnClose(i, pfds)
    BY <1>5 DEF ReapSlot
  <2>2. CASE UNCHANGED <<netVars, conn>>
    BY <2>2 DEF netVars, Unmoved
  <2>3. CASE ConnClose(i, pfds)
    BY <1>1, <2>3, ConnCloseShape
  <2> QED BY <2>1, <2>2, <2>3
<1>6. CASE \E c \in Clients : NetStep(c) /\ UNCHANGED serverVars
  BY <1>1, <1>6, WorldOthers
<1> QED BY <1>2, <1>3, <1>4, <1>5, <1>6, NextCases

\* Initially nothing has been sent or received.
LEMMA InitStream == Init => FlowInv
<1> SUFFICES ASSUME Init, NEW c \in Clients
             PROVE  ClientSound(c)
  BY FlowInvParts
<1>1. /\ fd[c] = "none" /\ rx[c] = <<>> /\ tx[c] = <<>> /\ got[c] = <<>>
      /\ conn[c] = BlankConn
  BY DEF Init, NetInit
<1>2. Stream(c) = <<>> /\ Input(c) = <<>>
  <2>1. Consume(<<>>, 0) = <<>>
    BY SubSeqEmpty DEF Consume
  <2> QED BY <1>1, <2>1 DEF Stream, Unsent, Input, BlankConn
<1>3. Framed(<<>>) /\ EndsOnce(<<>>, script[c]) /\ InOrder(<<>>, script[c], Asked(c))
  BY DEF Framed, EndsOnce, InOrder
<1>4. ~BlankConn.streamed /\ ~BlankConn.keep_alive
  BY DEF BlankConn
<1> QED BY <1>1, <1>2, <1>3, <1>4 DEF ClientSound, StreamSound

\* Every step keeps FlowInv.
LEMMA NextStream == IndInv /\ IndInv' /\ FlowInv /\ [Next]_vars => FlowInv'
<1> SUFFICES ASSUME IndInv, IndInv', FlowInv, [Next]_vars, NEW e \in Clients
             PROVE  ClientSound(e)'
  BY FlowInvParts DEF FlowInv, StreamWellFramed, NothingAfterClose, ClientSound
<1>1. TypeOK /\ TypeOK' /\ ContinueSound /\ ClientSound(e)
  BY FlowInvParts DEF IndInv
<1>2. CASE Unmoved(e)
  BY <1>1, <1>2, Untouched
<1>3. CASE Gone(e)
  BY <1>1, <1>3, DropSound
<1>4. CASE Accept /\ e = Head(backlog) /\ fd[e] = "none"
  BY <1>1, <1>4, AcceptSound
<1>5. CASE Reads /\ e = f /\ fd[e] = "open"
  BY <1>1, <1>5, ReadSound DEF Reads, ServeRead, ServeReadHangs
<1>6. CASE FlushStays /\ e = f /\ fd[e] = "open"
  BY <1>1, <1>6, FlushSound
<1>7. CASE ServeFlushClose /\ e = f
  BY <1>1, <1>7, FlushCloseSound
<1>8. CASE NetStep(e) /\ UNCHANGED serverVars
  BY <1>1, <1>8, WorldSound
<1> QED BY <1>2, <1>3, <1>4, <1>5, <1>6, <1>7, <1>8, ClientCases

\* Streams and buffers always fit each other: what a client has sent and the
\* engine has not used, what the engine has queued and the client not read
\* (http_read_step, flush_conn, on_flush_complete, conn_close).
THEOREM FlowInvariance == Spec => []FlowInv
<1>1. Init => IndInv /\ FlowInv
  BY InitIndInv, InitStream
<1>2. IndInv /\ FlowInv /\ [Next]_vars => IndInv' /\ FlowInv'
  BY NextIndInv, NextStream
<1> QED BY <1>1, <1>2, PTL DEF Spec

\* Responses reach their client whole, in order and never mixed, whatever
\* partial sends, interim responses, resets and closed neighbours come in
\* between (flush_conn, on_flush_complete, conn_reset_for_next).
THEOREM StreamsAreWellFramed == Spec => []StreamWellFramed
<1>1. FlowInv => StreamWellFramed
  BY DEF FlowInv
<1> QED BY <1>1, FlowInvariance, PTL

\* Nothing comes after the answer to a request that asked for the connection
\* to be closed, whatever was pipelined behind it (decide_keep_alive).
THEOREM LastAnswerIsLast == Spec => []NothingAfterClose
<1>1. FlowInv => NothingAfterClose
  BY DEF FlowInv
<1> QED BY <1>1, FlowInvariance, PTL

=============================================================================
