---------------------------- MODULE ServiceProofs ----------------------------
(***************************************************************************)
(* Which request an answer is for, and how much of a body was read: that   *)
(* WireInv is inductive, for any number of clients, any scripts, any       *)
(* buffer sizes and any MaxBody, and so that clients without mistakes are  *)
(* answered once per request and that handlers see exactly the body.       *)
(* First the input of a connection as a sequence of places, then what a    *)
(* read makes of it, then the steps of the specification.  Last, from all  *)
(* of this: the server implements the ordered service.                     *)
(***************************************************************************)
EXTENDS StreamProofs, Refinement, FiniteSetTheorems

-----------------------------------------------------------------------------
(* Places.                                                                 *)

\* The place of the last token of a request, by its framing.
LEMMA LastPlace ==
  ASSUME NEW q \in Request
  PROVE  /\ LastPos(q) \in Nat /\ LastPos(q) >= 2
         /\ q.body = "none" => LastPos(q) = 2
         /\ q.body = "length" => LastPos(q) = 2 + q.size
         /\ q.body = "chunked" => LastPos(q) = 3 + q.size
         /\ q.size \in Nat
<1>1. q.body \in {"none", "length", "chunked"} /\ q.size \in Nat
  BY DEF Request
<1>2. CASE q.body = "none"
  BY <1>1, <1>2 DEF LastPos
<1>3. CASE q.body = "length"
  BY <1>1, <1>3 DEF LastPos
<1>4. CASE q.body = "chunked"
  BY <1>1, <1>4 DEF LastPos
<1> QED BY <1>1, <1>2, <1>3, <1>4

\* What kind of token comes at a place.
LEMMA KindAt ==
  ASSUME NEW q \in Request, NEW p \in Nat \ {0}
  PROVE  /\ TokenKind(q, p) = "line" <=> p = 1
         /\ TokenKind(q, p) = "end" <=> p = 2
         /\ TokenKind(q, p) = "chunk" => p > 2 /\ q.body = "chunked" /\ p <= q.size + 2
         /\ TokenKind(q, p) = "last" => p > 2 /\ q.body = "chunked" /\ p > q.size + 2
         /\ q.body = "chunked" /\ p > 2 /\ p <= q.size + 2 => TokenKind(q, p) = "chunk"
         /\ q.body = "chunked" /\ q.fault = "none" /\ p > q.size + 2 => TokenKind(q, p) = "last"
         /\ TokenKind(q, p) = "huge" => q.fault = "huge"
<1>1. q.body \in {"none", "length", "chunked"} /\ q.size \in Nat
  BY DEF Request
<1>2. CASE p = 1
  <2>1. TokenKind(q, p) = "line"
    BY <1>2 DEF TokenKind
  <2> QED BY <1>1, <1>2, <2>1
<1>3. CASE p = 2
  <2>1. TokenKind(q, p) = "end"
    BY <1>3 DEF TokenKind
  <2> QED BY <1>1, <1>3, <2>1
<1>4. CASE p > 2 /\ q.body # "chunked"
  <2>1. TokenKind(q, p) = "data"
    BY <1>4 DEF TokenKind
  <2> QED BY <1>1, <1>4, <2>1
<1>5. CASE p > 2 /\ q.body = "chunked"
  <2>1. TokenKind(q, p) = IF p <= q.size + 2 THEN "chunk"
                          ELSE CASE q.fault = "chunk" -> "bad"
                                 [] q.fault = "huge"  -> "huge"
                                 [] OTHER             -> "last"
    BY <1>5 DEF TokenKind
  <2> QED BY <1>1, <1>5, <2>1
<1> QED BY <1>1, <1>2, <1>3, <1>4, <1>5

\* A token of a coherent input is of the kind its place says.
LEMMA KindOf ==
  ASSUME NEW in \in Seq(InTok), Coherent(in), NEW k \in 1 .. Len(in)
  PROVE  LET tok == in[k]
         IN  /\ tok.q \in Request /\ tok.p \in Nat \ {0} /\ tok.r \in Nat
             /\ tok.p <= LastPos(tok.q)
             /\ tok.t = TokenKind(tok.q, tok.p)
             /\ tok.t = "line" <=> tok.p = 1
             /\ tok.t = "end" <=> tok.p = 2
             /\ tok.t = "chunk" => tok.p > 2 /\ tok.p <= tok.q.size + 2 /\ tok.q.body = "chunked"
             /\ tok.t = "last" => tok.p = tok.q.size + 3 /\ tok.q.body = "chunked"
<1> DEFINE tok == in[k]
<1>1. tok \in InTok
  OBVIOUS
<1>2. tok.q \in Request /\ tok.p \in Nat \ {0} /\ tok.r \in Nat
  BY <1>1 DEF InTok
<1>3. tok.t = TokenKind(tok.q, tok.p) /\ tok.p <= LastPos(tok.q)
  BY DEF Coherent
<1> HIDE DEF tok
<1>4. tok.q.size \in Nat /\ (tok.q.body = "chunked" => LastPos(tok.q) = 3 + tok.q.size)
  BY <1>2, LastPlace
<1> DEFINE q == tok.q
           p == tok.p
<1>5. q \in Request /\ p \in Nat \ {0} /\ tok.t = TokenKind(q, p) /\ p <= LastPos(q)
  BY <1>2, <1>3
<1>6. q.size \in Nat /\ (q.body = "chunked" => LastPos(q) = 3 + q.size)
  BY <1>5, <1>4
<1> HIDE DEF q, p
<1>7. /\ TokenKind(q, p) = "line" <=> p = 1
      /\ TokenKind(q, p) = "end" <=> p = 2
      /\ TokenKind(q, p) = "chunk" => p > 2 /\ q.body = "chunked" /\ p <= q.size + 2
      /\ TokenKind(q, p) = "last" => p > 2 /\ q.body = "chunked" /\ p > q.size + 2
  BY <1>5, KindAt
<1>8. tok.t = "line" <=> p = 1
  BY <1>5, <1>7
<1>9. tok.t = "end" <=> p = 2
  BY <1>5, <1>7
<1>10. tok.t = "chunk" => p > 2 /\ p <= q.size + 2 /\ q.body = "chunked"
  BY <1>5, <1>7
<1>11. tok.t = "last" => p = q.size + 3 /\ q.body = "chunked"
  BY <1>5, <1>6, <1>7
<1> QED BY <1>2, <1>3, <1>8, <1>9, <1>10, <1>11 DEF tok, q, p

\* Behind some of its tokens, an input is coherent if it was.
LEMMA CoherentConsumed ==
  ASSUME NEW in \in Seq(InTok), NEW k \in 0 .. Len(in), Coherent(in)
  PROVE  Coherent(Consume(in, k))
<1> DEFINE t == Consume(in, k)
<1>1. /\ Consume(in, k) \in Seq(InTok) /\ Len(Consume(in, k)) = Len(in) - k
      /\ \A j \in 1 .. (Len(in) - k) : Consume(in, k)[j] = in[k + j]
  BY ConsumeElements
<1>2. Len(in) \in Nat /\ Len(t) = Len(in) - k
  BY <1>1
<1> HIDE DEF t
<1>3. ASSUME NEW j \in 1 .. Len(t)
      PROVE  k + j \in 1 .. Len(in) /\ t[j] = in[k + j]
  BY <1>1, <1>2 DEF t
<1>4. ASSUME NEW j \in 1 .. Len(t)
      PROVE  t[j].t = TokenKind(t[j].q, t[j].p) /\ t[j].p <= LastPos(t[j].q)
  BY <1>3 DEF Coherent
<1>5. ASSUME NEW j \in 1 .. Len(t), NEW m \in 1 .. Len(t), j < m
      PROVE  \/ t[m].r = t[j].r /\ t[m].p = t[j].p + (m - j)
             \/ \E n \in (j + 1) .. m : t[n].p = 1
  <2>1. /\ k + j \in 1 .. Len(in) /\ k + m \in 1 .. Len(in) /\ k + j < k + m
        /\ (k + m) - (k + j) = m - j
        /\ t[j] = in[k + j] /\ t[m] = in[k + m]
    BY <1>2, <1>3, <1>5
  <2>2. \/ in[k + m].r = in[k + j].r /\ in[k + m].p = in[k + j].p + ((k + m) - (k + j))
        \/ \E n \in ((k + j) + 1) .. (k + m) : in[n].p = 1
    BY <2>1 DEF Coherent
  <2>3. ASSUME NEW n \in ((k + j) + 1) .. (k + m), in[n].p = 1
        PROVE  \E l \in (j + 1) .. m : t[l].p = 1
    <3>1. n - k \in (j + 1) .. m /\ n - k \in 1 .. Len(t) /\ k + (n - k) = n
      BY <1>2
    <3>2. t[n - k] = in[n]
      BY <1>3, <3>1
    <3> QED BY <2>3, <3>1, <3>2
  <2> QED BY <2>1, <2>2, <2>3
<1>6. Coherent(t)
  BY <1>4, <1>5 DEF Coherent
<1> QED BY <1>6 DEF t

\* So is what came before them.
LEMMA CoherentPrefix ==
  ASSUME NEW s \in Seq(InTok), NEW t \in Seq(InTok), Coherent(s \o t)
  PROVE  Coherent(s)
<1> DEFINE u == s \o t
<1>1. /\ Len(u) = Len(s) + Len(t) /\ Len(s) \in Nat /\ Len(t) \in Nat
      /\ \A j \in 1 .. Len(s) : u[j] = s[j]
  BY ConcatProperties
<1>2. Coherent(u)
  OBVIOUS
<1> HIDE DEF u
<1>3. \A j \in 1 .. Len(s) : j \in 1 .. Len(u) /\ u[j] = s[j]
  BY <1>1
<1>4. \A j \in 1 .. Len(s) : s[j].t = TokenKind(s[j].q, s[j].p) /\ s[j].p <= LastPos(s[j].q)
  BY <1>2, <1>3 DEF Coherent
<1>5. ASSUME NEW j \in 1 .. Len(s), NEW k \in 1 .. Len(s), j < k
      PROVE  \/ s[k].r = s[j].r /\ s[k].p = s[j].p + (k - j)
             \/ \E m \in (j + 1) .. k : s[m].p = 1
  <2>1. \/ u[k].r = u[j].r /\ u[k].p = u[j].p + (k - j)
        \/ \E m \in (j + 1) .. k : u[m].p = 1
    BY <1>2, <1>3, <1>5 DEF Coherent
  <2>2. \A m \in (j + 1) .. k : m \in 1 .. Len(s)
    BY <1>1
  <2> QED BY <1>3, <2>1, <2>2
<1> QED BY <1>4, <1>5 DEF Coherent

\* Places between which no request begins are as far apart as their tokens.
LEMMA Consecutive ==
  ASSUME NEW in \in Seq(InTok), Coherent(in), NEW j \in 1 .. Len(in), NEW k \in j .. Len(in),
         \A m \in (j + 1) .. k : in[m].t # "line"
  PROVE  in[k].r = in[j].r /\ in[k].p = in[j].p + (k - j)
<1>1. k \in 1 .. Len(in) /\ Len(in) \in Nat
  OBVIOUS
<1>2. CASE j = k
  <2>1. in[j].p \in Nat
    BY KindOf
  <2> QED BY <1>2, <2>1
<1>3. CASE j < k
  <2>1. ASSUME NEW m \in (j + 1) .. k
        PROVE  in[m].p # 1
    <3>1. m \in 1 .. Len(in)
      BY <1>1
    <3> QED BY <3>1, KindOf
  <2> QED BY <1>1, <1>3, <2>1 DEF Coherent
<1> QED BY <1>2, <1>3

\* The next token a client sends keeps its input coherent.
LEMMA CoherentSent ==
  ASSUME NEW in \in Seq(InTok), NEW a \in Cursor, Coherent(in), GoesOn(in, a),
         NEW tok \in InTok, tok.r = a.req, tok.p = a.pos,
         tok.t = TokenKind(tok.q, tok.p), tok.p <= LastPos(tok.q)
  PROVE  Coherent(Append(in, tok)) /\ GoesOn(Append(in, tok), Beyond(a, tok.q))
<1> DEFINE u == Append(in, tok)
           l == Len(in)
<1>1. /\ Len(u) = l + 1 /\ l \in Nat /\ u[l + 1] = tok
      /\ \A j \in 1 .. l : u[j] = in[j] /\ u[j] \in InTok
  BY AppendProperties
<1>2. ASSUME NEW k \in 1 .. Len(u)
      PROVE  u[k].t = TokenKind(u[k].q, u[k].p) /\ u[k].p <= LastPos(u[k].q)
  <2>1. CASE k = l + 1
    BY <1>1, <2>1
  <2>2. CASE k # l + 1
    <3>1. k \in 1 .. l
      BY <1>1, <2>2
    <3> QED BY <1>1, <3>1 DEF Coherent
  <2> QED BY <2>1, <2>2
<1> HIDE DEF u
<1>3. ASSUME NEW j \in 1 .. Len(u), NEW k \in 1 .. Len(u), j < k
      PROVE  \/ u[k].r = u[j].r /\ u[k].p = u[j].p + (k - j)
             \/ \E m \in (j + 1) .. k : u[m].p = 1
  <2>1. CASE k # l + 1
    <3>1. j \in 1 .. l /\ k \in 1 .. l
      BY <1>1, <1>3, <2>1
    <3>2. \/ in[k].r = in[j].r /\ in[k].p = in[j].p + (k - j)
          \/ \E m \in (j + 1) .. k : in[m].p = 1
      BY <1>3, <3>1 DEF Coherent
    <3>3. \A m \in (j + 1) .. k : u[m] = in[m]
      BY <1>1, <3>1
    <3> QED BY <1>1, <3>1, <3>2, <3>3
  <2>2. CASE k = l + 1
    <3>1. j \in 1 .. l /\ l \in 1 .. l /\ l >= 1
      BY <1>1, <1>3, <2>2
    <3>2. in # <<>>
      BY <3>1
    <3>3. a.pos = 1 \/ (a.req = in[l].r /\ a.pos = in[l].p + 1)
      BY <3>2 DEF GoesOn
    <3>4. CASE a.pos = 1
      <4>1. u[k].p = 1 /\ k \in (j + 1) .. k
        BY <1>1, <2>2, <3>1, <3>4
      <4> QED BY <4>1
    <3>5. CASE a.req = in[l].r /\ a.pos = in[l].p + 1
      <4>1. /\ in[j].p \in Nat /\ in[l].p \in Nat
        BY <3>1, KindOf
      <4>2. CASE j = l
        BY <1>1, <2>2, <3>1, <3>5, <4>1, <4>2
      <4>3. CASE j < l
        <5>1. \/ in[l].r = in[j].r /\ in[l].p = in[j].p + (l - j)
              \/ \E m \in (j + 1) .. l : in[m].p = 1
          BY <3>1, <4>3 DEF Coherent
        <5>2. CASE in[l].r = in[j].r /\ in[l].p = in[j].p + (l - j)
          BY <1>1, <2>2, <3>1, <3>5, <4>1, <5>2
        <5>3. CASE \E m \in (j + 1) .. l : in[m].p = 1
          <6>1. PICK m \in (j + 1) .. l : in[m].p = 1
            BY <5>3
          <6>2. m \in (j + 1) .. k /\ m \in 1 .. l
            BY <1>1, <2>2, <3>1
          <6> QED BY <1>1, <6>1, <6>2
        <5> QED BY <5>1, <5>2, <5>3
      <4> QED BY <3>1, <4>2, <4>3
    <3> QED BY <3>3, <3>4, <3>5
  <2> QED BY <2>1, <2>2
<1>4. Coherent(u)
  BY <1>2, <1>3 DEF Coherent
<1>5. GoesOn(u, Beyond(a, tok.q))
  <2>1. a.req \in Nat /\ a.pos \in Nat /\ a = [req |-> a.req, pos |-> a.pos]
    BY DEF Cursor
  <2>2. Beyond(a, tok.q).pos = 1 \/ (Beyond(a, tok.q).req = a.req /\ Beyond(a, tok.q).pos = a.pos + 1)
    BY <2>1 DEF Beyond, Cursor
  <2> QED BY <1>1, <2>2 DEF GoesOn
<1> QED BY <1>4, <1>5 DEF u

\* Reading does not change how the client goes on.
LEMMA GoesOnConsumed ==
  ASSUME NEW in \in Seq(InTok), NEW k \in 0 .. Len(in), NEW a, GoesOn(in, a)
  PROVE  GoesOn(Consume(in, k), a)
<1> DEFINE t == Consume(in, k)
<1>1. /\ Consume(in, k) \in Seq(InTok) /\ Len(Consume(in, k)) = Len(in) - k
      /\ \A j \in 1 .. (Len(in) - k) : Consume(in, k)[j] = in[k + j]
  BY ConsumeElements
<1>2. CASE t = <<>>
  BY <1>2 DEF GoesOn
<1>3. CASE t # <<>>
  <2>1. Len(t) \in 1 .. (Len(in) - k) /\ k + Len(t) = Len(in) /\ in # <<>>
    BY <1>1, <1>3
  <2>2. t[Len(t)] = in[Len(in)]
    BY <1>1, <2>1
  <2> QED BY <2>1, <2>2 DEF GoesOn
<1> QED BY <1>2, <1>3

\* The k-th token from here, before and after some are used.
LEMMA AheadConsumed ==
  ASSUME NEW in \in Seq(InTok), NEW k \in 0 .. Len(in), NEW a, NEW j \in Nat \ {0}
  PROVE  Ahead(Consume(in, k), a, j) = Ahead(in, a, k + j)
<1> DEFINE t == Consume(in, k)
<1>1. /\ Consume(in, k) \in Seq(InTok) /\ Len(Consume(in, k)) = Len(in) - k
      /\ \A m \in 1 .. (Len(in) - k) : Consume(in, k)[m] = in[k + m]
  BY ConsumeElements
<1>2. Len(in) \in Nat /\ Len(t) = Len(in) - k
  BY <1>1
<1>3. CASE j <= Len(in) - k
  BY <1>1, <1>2, <1>3 DEF Ahead
<1>4. CASE j > Len(in) - k
  BY <1>1, <1>2, <1>4 DEF Ahead
<1> QED BY <1>2, <1>3, <1>4

\* So is the gapless input of a client without mistakes.
LEMMA GaplessConsumed ==
  ASSUME NEW in \in Seq(InTok), NEW k \in 0 .. Len(in), NEW a, Gapless(in, a)
  PROVE  Gapless(Consume(in, k), a)
<1> DEFINE t == Consume(in, k)
<1>1. /\ Consume(in, k) \in Seq(InTok) /\ Len(Consume(in, k)) = Len(in) - k
      /\ \A m \in 1 .. (Len(in) - k) : Consume(in, k)[m] = in[k + m]
  BY ConsumeElements
<1>2. Len(in) \in Nat /\ Len(t) = Len(in) - k
  BY <1>1
<1>3. \A m \in Nat \ {0} : Ahead(t, a, m) = Ahead(in, a, k + m)
  BY AheadConsumed
<1> HIDE DEF t
<1>4. ASSUME NEW j \in 1 .. Len(t), NEW m \in 2 .. (Len(t) + 1), j < m
      PROVE  LET n == t[j].p + (m - j)
             IN  /\ n <= LastPos(t[j].q) => Ahead(t, a, m) = [req |-> t[j].r, pos |-> n]
                 /\ n = LastPos(t[j].q) + 1 => Ahead(t, a, m) = [req |-> t[j].r + 1, pos |-> 1]
  <2>1. /\ k + j \in 1 .. Len(in) /\ k + m \in 2 .. (Len(in) + 1) /\ k + j < k + m
        /\ (k + m) - (k + j) = m - j /\ m \in Nat \ {0}
    BY <1>2, <1>4
  <2>2. t[j] = in[k + j] /\ Ahead(t, a, m) = Ahead(in, a, k + m)
    BY <1>1, <1>2, <1>3, <2>1 DEF t
  <2>3. LET n == in[k + j].p + ((k + m) - (k + j))
        IN  /\ n <= LastPos(in[k + j].q) =>
                 Ahead(in, a, k + m) = [req |-> in[k + j].r, pos |-> n]
            /\ n = LastPos(in[k + j].q) + 1 =>
                 Ahead(in, a, k + m) = [req |-> in[k + j].r + 1, pos |-> 1]
    BY <2>1 DEF Gapless
  <2> QED BY <2>1, <2>2, <2>3
<1>5. Gapless(t, a)
  BY <1>4 DEF Gapless
<1> QED BY <1>5 DEF t

\* The place behind a place.
LEMMA BeyondAt ==
  ASSUME NEW n, NEW p, NEW q
  PROVE  Beyond([req |-> n, pos |-> p], q)
           = IF p = LastPos(q) THEN [req |-> n + 1, pos |-> 1] ELSE [req |-> n, pos |-> p + 1]
BY DEF Beyond

\* A client without mistakes sends its next token where the last one ended.
LEMMA GaplessSent ==
  ASSUME NEW in \in Seq(InTok), NEW a \in Cursor, Gapless(in, a),
         NEW tok \in InTok, tok.r = a.req, tok.p = a.pos, tok.p <= LastPos(tok.q),
         \A j \in 1 .. Len(in) : in[j].r = tok.r => in[j].q = tok.q
  PROVE  Gapless(Append(in, tok), Beyond(a, tok.q))
<1> DEFINE u == Append(in, tok)
           l == Len(in)
           b == Beyond(a, tok.q)
<1>1. /\ Len(u) = l + 1 /\ l \in Nat /\ u[l + 1] = tok
      /\ \A j \in 1 .. l : u[j] = in[j] /\ u[j] \in InTok
  BY AppendProperties
<1>2. a.req \in Nat /\ a.pos \in Nat /\ a = [req |-> a.req, pos |-> a.pos] /\ a = Place(tok)
  BY DEF Cursor, Place
<1>3. b = IF a.pos = LastPos(tok.q) THEN [req |-> a.req + 1, pos |-> 1]
          ELSE [req |-> a.req, pos |-> a.pos + 1]
  BY <1>2, BeyondAt
<1>4. \A j \in 1 .. l : in[j].p \in Nat /\ in[j].r \in Nat /\ LastPos(in[j].q) \in Nat
  <2>1. \A j \in 1 .. l : in[j] \in InTok
    OBVIOUS
  <2>2. \A j \in 1 .. l : in[j].p \in Nat /\ in[j].r \in Nat /\ in[j].q \in Request
    BY <2>1 DEF InTok
  <2> QED BY <2>2, LastPlace
<1>5. LastPos(tok.q) \in Nat
  BY LastPlace DEF InTok
<1> HIDE DEF u, b
<1>6. ASSUME NEW k \in 1 .. (l + 1)
      PROVE  Ahead(u, b, k) = Ahead(in, a, k)
  <2>1. CASE k = l + 1
    BY <1>1, <1>2, <2>1 DEF Ahead
  <2>2. CASE k # l + 1
    <3>1. k \in 1 .. l
      BY <1>1, <2>2
    <3> QED BY <1>1, <3>1 DEF Ahead
  <2> QED BY <2>1, <2>2
<1>7. Ahead(u, b, l + 2) = b
  BY <1>1 DEF Ahead
<1>8. Ahead(in, a, l + 1) = a
  BY <1>1 DEF Ahead
<1>9. ASSUME NEW j \in 1 .. Len(u), NEW k \in 2 .. (Len(u) + 1), j < k
      PROVE  LET n == u[j].p + (k - j)
             IN  /\ n <= LastPos(u[j].q) => Ahead(u, b, k) = [req |-> u[j].r, pos |-> n]
                 /\ n = LastPos(u[j].q) + 1 => Ahead(u, b, k) = [req |-> u[j].r + 1, pos |-> 1]
  <2>1. CASE k <= l + 1
    <3>1. j \in 1 .. l /\ k \in 2 .. (l + 1) /\ k \in 1 .. (l + 1) /\ u[j] = in[j]
      BY <1>1, <1>9, <2>1
    <3>2. LET n == in[j].p + (k - j)
          IN  /\ n <= LastPos(in[j].q) => Ahead(in, a, k) = [req |-> in[j].r, pos |-> n]
              /\ n = LastPos(in[j].q) + 1 => Ahead(in, a, k) = [req |-> in[j].r + 1, pos |-> 1]
      BY <1>9, <3>1 DEF Gapless
    <3> QED BY <1>6, <3>1, <3>2
  <2>2. CASE k = l + 2 /\ j = l + 1
    <3>1. u[j] = tok /\ k - j = 1 /\ Ahead(u, b, k) = b
      BY <1>1, <1>7, <2>2
    <3>2. tok.p = a.pos /\ tok.r = a.req
      OBVIOUS
    <3>3. \A x \in Nat, z \in Nat : (x + 1 <= z => x # z) /\ (x + 1 = z + 1 => x = z)
      OBVIOUS
    <3>4. tok.p + 1 <= LastPos(tok.q) => b = [req |-> tok.r, pos |-> tok.p + 1]
      BY <1>2, <1>3, <1>5, <3>2, <3>3
    <3>5. tok.p + 1 = LastPos(tok.q) + 1 => b = [req |-> tok.r + 1, pos |-> 1]
      BY <1>2, <1>3, <1>5, <3>2, <3>3
    <3> QED BY <3>1, <3>4, <3>5
  <2>3. CASE k = l + 2 /\ j < l + 1
    <3>1. j \in 1 .. l /\ l + 1 \in 2 .. (l + 1) /\ j < l + 1 /\ u[j] = in[j]
      BY <1>1, <1>9, <2>3
    <3>2. LET n == in[j].p + ((l + 1) - j)
          IN  n <= LastPos(in[j].q) => a = [req |-> in[j].r, pos |-> n]
      BY <1>8, <3>1 DEF Gapless
    <3> DEFINE n == in[j].p + ((l + 1) - j)
    <3>3. n \in Nat /\ in[j].p + (k - j) = n + 1 /\ LastPos(in[j].q) \in Nat
      BY <1>1, <1>4, <2>3, <3>1
    <3>4. CASE n <= LastPos(in[j].q)
      <4>1. a.req = in[j].r /\ a.pos = n
        BY <3>2, <3>4
      <4>2. in[j].q = tok.q
        BY <3>1, <4>1
      <4>3. n = LastPos(in[j].q) => b = [req |-> in[j].r + 1, pos |-> 1]
        BY <1>3, <4>1, <4>2
      <4>4. n # LastPos(in[j].q) => b = [req |-> in[j].r, pos |-> n + 1]
        BY <1>3, <4>1, <4>2
      <4> HIDE DEF n
      <4> QED BY <1>7, <2>3, <3>1, <3>3, <3>4, <4>3, <4>4
    <3>5. CASE n > LastPos(in[j].q)
      <4> HIDE DEF n
      <4> QED BY <3>1, <3>3, <3>5
    <3> QED BY <3>3, <3>4, <3>5
  <2> QED BY <1>1, <1>9, <2>1, <2>2, <2>3
<1>10. Gapless(u, b)
  BY <1>9 DEF Gapless
<1> QED BY <1>10 DEF u, b

\* Having used k more tokens of a request of which p were used, one is k
\* places further in it, if it goes that far.
LEMMA Advance ==
  ASSUME NEW in \in Seq(InTok), NEW a, Gapless(in, a), NEW n \in Nat, NEW p \in Nat,
         NEW q \in Request, Ahead(in, a, 1) = Beyond([req |-> n, pos |-> p], q),
         in # <<>> /\ in[1].r = n => in[1].q = q,
         NEW k \in 0 .. Len(in), p + k <= LastPos(q)
  PROVE  Ahead(in, a, k + 1) = Beyond([req |-> n, pos |-> p + k], q)
<1>1. LastPos(q) \in Nat /\ Len(in) \in Nat /\ k \in Nat
  BY LastPlace
<1>2. CASE k = 0
  BY <1>2
<1>3. CASE k > 0
  <2>1. 1 \in 1 .. Len(in) /\ k + 1 \in 2 .. (Len(in) + 1) /\ 1 < k + 1 /\ (k + 1) - 1 = k
        /\ in # <<>>
    BY <1>1, <1>3
  <2>2. p # LastPos(q)
    BY <1>1, <1>3
  <2>3. Ahead(in, a, 1) = [req |-> n, pos |-> p + 1] /\ Ahead(in, a, 1) = Place(in[1])
    <3>1. Ahead(in, a, 1) = [req |-> n, pos |-> p + 1]
      BY <2>2, BeyondAt
    <3>2. 1 <= Len(in)
      BY <2>1
    <3> QED BY <3>1, <3>2 DEF Ahead
  <2>4. in[1].r = n /\ in[1].p = p + 1 /\ in[1].q = q
    BY <2>1, <2>3 DEF Place
  <2>5. /\ (p + 1) + k <= LastPos(q) => Ahead(in, a, k + 1) = [req |-> n, pos |-> (p + 1) + k]
        /\ (p + 1) + k = LastPos(q) + 1 => Ahead(in, a, k + 1) = [req |-> n + 1, pos |-> 1]
    BY <2>1, <2>4 DEF Gapless
  <2>6. Beyond([req |-> n, pos |-> p + k], q)
          = IF p + k = LastPos(q) THEN [req |-> n + 1, pos |-> 1]
            ELSE [req |-> n, pos |-> (p + k) + 1]
    BY BeyondAt
  <2>7. (p + k) + 1 = (p + 1) + k
    BY <1>1
  <2>8. CASE p + k = LastPos(q)
    BY <1>1, <2>5, <2>6, <2>8
  <2>9. CASE p + k # LastPos(q)
    <3>1. \A l \in Nat : p + k <= l /\ p + k # l => (p + 1) + k <= l
      BY <1>1
    <3>2. (p + 1) + k <= LastPos(q)
      BY <1>1, <2>9, <3>1
    <3> QED BY <3>2, <2>5, <2>6, <2>7, <2>9
  <2> QED BY <2>8, <2>9
<1> QED BY <1>1, <1>2, <1>3

\* The tokens of a chunked body, up to the k-th, in an input that resumes it.
LEMMA ChunkPlaces ==
  ASSUME NEW in \in Seq(InTok), Coherent(in), NEW k \in 1 .. Len(in), AllChunks(in, k - 1),
         in[k].t # "line", NEW cn, cn.num \in Nat, cn.body \in Nat, Resumes(cn, Place(in[1]))
  PROVE  in[k].r = cn.num /\ in[k].p = 2 + cn.body + k
<1>1. Len(in) \in Nat /\ 1 \in 1 .. Len(in) /\ k \in 1 .. Len(in) /\ k \in Nat
  OBVIOUS
<1>2. ASSUME NEW m \in 1 .. k
      PROVE  in[m].t # "line"
  <2>1. CASE m = k
    BY <2>1
  <2>2. CASE m # k
    <3>1. m \in 1 .. (k - 1)
      BY <1>1, <2>2
    <3> QED BY <3>1 DEF AllChunks
  <2> QED BY <2>1, <2>2
<1>3. in[1].p # 1
  BY <1>1, <1>2, KindOf
<1>4. Place(in[1]) = [Reached(cn) EXCEPT !.pos = @ + 1]
  BY <1>3 DEF Resumes, Place
<1>5. in[1].r = cn.num /\ in[1].p = 2 + cn.body + 1
  BY <1>4 DEF Place, Reached
<1>6. \A m \in 2 .. k : in[m].t # "line"
  BY <1>2
<1>7. in[k].r = in[1].r /\ in[k].p = in[1].p + (k - 1)
  BY <1>1, <1>6, Consecutive
<1> QED BY <1>1, <1>5, <1>7

-----------------------------------------------------------------------------
(* What a read makes of the input, whoever sends it.                       *)

\* The fields of a connection that count what was read.
LEMMA ConnFields ==
  ASSUME NEW cn \in Conn
  PROVE  /\ cn.in \in Seq(InTok) /\ cn.out \in Seq(OutTok) /\ cn.req \in Request
         /\ cn.num \in Nat /\ cn.body \in Nat /\ cn.body_remaining \in Nat
         /\ Len(cn.in) \in Nat /\ cn.req.size \in Nat /\ MaxBody \in Nat
BY MaxBodyAssumption DEF Conn, Request

\* What is left behind the first k tokens is tracked if the counters are.
LEMMA TracksAfter ==
  ASSUME NEW in \in Seq(InTok), NEW k \in 0 .. Len(in), NEW a, NEW requests, NEW more,
         Coherent(in), more => GoesOn(in, a), NEW d, d.in = Consume(in, k),
         BodyCounted(d, requests),
         ReadsBody(d) /\ BodyState(d) = "READ_CHUNK" /\ (d.in # <<>> \/ more) =>
           Resumes(d, Ahead(d.in, a, 1))
  PROVE  Tracks(d, d.in, a, requests, more)
<1>1. Coherent(d.in)
  BY CoherentConsumed
<1>2. more => GoesOn(d.in, a)
  BY GoesOnConsumed
<1> QED BY <1>1, <1>2 DEF Tracks

\* The counters of a connection that has been answered.
LEMMA QueuedCounted ==
  ASSUME NEW d, d.state = "WRITE", ~d.want_continue, d.body <= MaxBody, NEW requests,
         d.out[Len(d.out)].code = 200 => d.body = Announced(d.req)
  PROVE  BodyCounted(d, requests) /\ ~ReadsBody(d)
BY DEF BodyCounted, ReadsBody

\* A place is its request and its position.
LEMMA CursorParts ==
  ASSUME NEW a \in Cursor
  PROVE  a = [req |-> a.req, pos |-> a.pos] /\ a.req \in Nat /\ a.pos \in Nat
BY DEF Cursor

\* Reading a body of announced length keeps count of it.
LEMMA LengthTracks ==
  ASSUME NEW m \in Conn, m.state = "READ_BODY", ~m.want_continue, NEW a, NEW requests,
         NEW more, Tracks(m, m.in, a, requests, more), NEW d, LengthRead(m, d)
  PROVE  Tracks(d, d.in, a, requests, more)
<1>1. PICK k \in 0 .. Len(m.in) :
        /\ d.in = Consume(m.in, k) /\ d.num = m.num /\ d.req = m.req /\ d.body = m.body + k
        /\ \/ /\ k = Len(m.in) /\ k < m.body_remaining
              /\ Awaiting(m, d) /\ d.body_remaining = m.body_remaining - k
           \/ k = m.body_remaining /\ AnsweredWith(m, d, 200)
  BY DEF LengthRead
<1>2. /\ Coherent(m.in) /\ (more => GoesOn(m.in, a)) /\ BodyCounted(m, requests)
  BY DEF Tracks
<1>3. /\ m.num \in 1 .. Len(requests) /\ m.req = requests[m.num]
      /\ m.req.body = "length" /\ m.req.size <= MaxBody
      /\ m.body + m.body_remaining = m.req.size
  BY <1>2 DEF BodyCounted, ReadsBody, BodyState
<1>4. /\ m.in \in Seq(InTok) /\ k \in Nat /\ m.body \in Nat /\ m.body_remaining \in Nat
      /\ m.req.size \in Nat /\ MaxBody \in Nat /\ m.out \in Seq(OutTok)
  BY ConnFields
<1>5. BodyCounted(d, requests) /\ ~(ReadsBody(d) /\ BodyState(d) = "READ_CHUNK")
  <2>1. CASE Awaiting(m, d) /\ k < m.body_remaining /\ d.body_remaining = m.body_remaining - k
    <3>1. d.state = "READ_BODY" /\ ~d.want_continue
      BY <2>1 DEF Awaiting, Fresh
    <3>2. /\ d.body = m.body + k /\ d.body_remaining = m.body_remaining - k
          /\ d.req.size = m.req.size
      BY <1>1, <2>1
    <3>3. d.body <= MaxBody /\ d.body + d.body_remaining = d.req.size
      <4> DEFINE b == m.body
                 r == m.body_remaining
                 z == m.req.size
      <4>1. /\ b \in Nat /\ r \in Nat /\ z \in Nat /\ MaxBody \in Nat /\ k \in Nat
            /\ b + r = z /\ z <= MaxBody /\ k < r
        BY <1>3, <1>4, <2>1
      <4> HIDE DEF b, r, z
      <4>2. b + k <= MaxBody /\ (b + k) + (r - k) = z
        BY <4>1
      <4>3. /\ m.body + k <= MaxBody
            /\ (m.body + k) + (m.body_remaining - k) = m.req.size
        BY <4>2 DEF b, r, z
      <4> QED BY <3>2, <4>3
    <3> QED BY <1>1, <1>3, <3>1, <3>3 DEF BodyCounted, BodyState, ReadsBody, Queued
  <2>2. CASE k = m.body_remaining /\ AnsweredWith(m, d, 200)
    <3>1. d.body = m.req.size /\ d.body <= MaxBody
      BY <1>1, <1>3, <1>4, <2>2
    <3>2. d.body = Announced(d.req)
      BY <1>1, <1>3, <3>1 DEF Announced
    <3>3. d.state = "WRITE" /\ ~d.want_continue
      BY <2>2 DEF AnsweredWith
    <3> QED BY <3>1, <3>2, <3>3, QueuedCounted
  <2> QED BY <1>1, <2>1, <2>2
<1> QED BY <1>1, <1>2, <1>4, <1>5, TracksAfter

\* What has been used of an input is gone, whatever the rest is.
LEMMA HugeConsumed ==
  ASSUME NEW in \in Seq(InTok), NEW e \in 1 .. Len(in), HasHuge(Consume(in, e))
  PROVE  HasHuge(in)
<1>1. PICK k \in 1 .. Len(Consume(in, e)) : Consume(in, e)[k].t = "huge"
  BY DEF HasHuge
<1>2. /\ Len(Consume(in, e)) = Len(in) - e
      /\ Consume(in, e)[k] = in[e + k] /\ e + k \in 1 .. Len(in)
  BY DEF Consume
<1> QED BY <1>1, <1>2 DEF HasHuge

\* A size that wraps around comes from a client that sends one.
LEMMA HugeSent ==
  ASSUME NEW in \in Seq(InTok), NEW requests, NEW n, InOrder(in, requests, n), Coherent(in),
         HasHuge(in)
  PROVE  \E r \in 1 .. Len(requests) : requests[r].fault = "huge"
<1>1. PICK k \in 1 .. Len(in) : in[k].t = "huge"
  BY DEF HasHuge
<1>2. in[k].q \in Request /\ in[k].p \in Nat \ {0} /\ in[k].t = TokenKind(in[k].q, in[k].p)
  <2>1. in[k] \in InTok
    OBVIOUS
  <2> QED BY <2>1 DEF InTok, Coherent
<1>3. in[k].q.fault = "huge"
  BY <1>1, <1>2, KindAt
<1>4. in[k].r \in 1 .. Len(requests) /\ in[k].q = requests[in[k].r]
  BY DEF InOrder
<1> QED BY <1>3, <1>4

\* So does the chunked decoder, whatever it stops at.
LEMMA ChunkTracks ==
  ASSUME NEW m \in Conn, m.state = "READ_CHUNK", ~m.want_continue, NEW a, NEW requests,
         NEW more, Tracks(m, m.in, a, requests, more), NEW d, ChunkRead(m, d),
         ~Overran(m, d), NEW n, InOrder(m.in, requests, n), a \in Cursor
  PROVE  Tracks(d, d.in, a, requests, more)
<1>1. PICK k \in 0 .. Len(m.in) :
        /\ d.in = Consume(m.in, k) /\ d.num = m.num /\ d.req = m.req
        /\ m.body <= MaxBody => d.body <= MaxBody
        /\ \/ /\ k = Len(m.in) /\ AllChunks(m.in, k) /\ d.body = m.body + k
              /\ Awaiting(m, d)
           \/ /\ k >= 1 /\ m.in[k].t = "last" /\ AllChunks(m.in, k - 1)
              /\ d.body = m.body + (k - 1) /\ AnsweredWith(m, d, 200)
           \/ /\ k < Len(m.in) /\ AllChunks(m.in, k) /\ d.body = m.body + k
              /\ AnsweredWith(m, d, 400) \/ AnsweredWith(m, d, 413)
  BY DEF ChunkRead
<1>2. /\ Coherent(m.in) /\ (more => GoesOn(m.in, a)) /\ BodyCounted(m, requests)
  BY DEF Tracks
<1>3. /\ m.num \in 1 .. Len(requests) /\ m.req = requests[m.num]
      /\ m.req.body = "chunked" /\ m.body <= m.req.size /\ m.body <= MaxBody
  BY <1>2 DEF BodyCounted, ReadsBody, BodyState
<1>4. /\ m.in \in Seq(InTok) /\ k \in Nat /\ m.body \in Nat /\ m.num \in Nat
      /\ m.req.size \in Nat /\ MaxBody \in Nat /\ m.out \in Seq(OutTok) /\ Len(m.in) \in Nat
  BY ConnFields
<1>5. m.in # <<>> \/ more => Resumes(m, Ahead(m.in, a, 1))
  BY DEF Tracks, ReadsBody, BodyState
<1>6. m.in # <<>> => Resumes(m, Place(m.in[1]))
  <2>1. m.in # <<>> => 1 <= Len(m.in)
    BY <1>4
  <2> QED BY <1>5, <2>1 DEF Ahead
<1>7. \A j \in 1 .. Len(m.in) : m.in[j].r = m.num => m.in[j].q = m.req
  BY <1>3 DEF InOrder
<1>8. ASSUME NEW j \in 1 .. Len(m.in), AllChunks(m.in, j - 1), m.in[j].t # "line"
      PROVE  m.in[j].r = m.num /\ m.in[j].p = 2 + m.body + j /\ m.in[j].q = m.req
  <2>1. m.in # <<>>
    OBVIOUS
  <2> QED BY <1>2, <1>4, <1>6, <1>7, <1>8, <2>1, ChunkPlaces
<1>9. CASE k = Len(m.in) /\ AllChunks(m.in, k) /\ d.body = m.body + k /\ Awaiting(m, d)
  <2>1. d.state = "READ_CHUNK" /\ ~d.want_continue
    BY <1>9 DEF Awaiting, Fresh
  <2>2. k >= 1 =>
          m.in[k].r = m.num /\ m.in[k].p = 2 + m.body + k /\ 2 + m.body + k <= m.req.size + 2
    <3>1. SUFFICES ASSUME k >= 1
                   PROVE  /\ m.in[k].r = m.num /\ m.in[k].p = 2 + m.body + k
                          /\ 2 + m.body + k <= m.req.size + 2
      OBVIOUS
    <3>2. k \in 1 .. Len(m.in) /\ AllChunks(m.in, k - 1) /\ m.in[k].t = "chunk"
      BY <1>4, <1>9, <3>1 DEF AllChunks
    <3>3. m.in[k].r = m.num /\ m.in[k].p = 2 + m.body + k /\ m.in[k].q = m.req
      BY <1>8, <3>2
    <3>4. m.in[k].p <= m.in[k].q.size + 2
      BY <1>2, <1>4, <3>2, KindOf
    <3> QED BY <3>3, <3>4
  <2>3. d.body <= d.req.size
    <3>1. d.body = m.body + k /\ d.req.size = m.req.size
      BY <1>1, <1>9
    <3>2. k >= 1 => 2 + m.body + k <= m.req.size + 2
      BY <2>2
    <3> QED BY <1>3, <1>4, <3>1, <3>2
  <2>4. BodyCounted(d, requests)
    BY <1>1, <1>3, <2>1, <2>3 DEF BodyCounted, BodyState, ReadsBody, Queued
  <2>5. d.in = <<>>
    BY <1>1, <1>4, <1>9 DEF Consume
  <2>6. more => Resumes(d, Ahead(d.in, a, 1))
    <3>1. SUFFICES ASSUME more
                   PROVE  Resumes(d, a)
      BY <2>5 DEF Ahead
    <3>2. CASE k = 0
      <4>1. Len(m.in) = 0 /\ d.body = m.body + 0
        BY <1>9, <3>2
      <4>2. m.in = <<>> /\ d.body = m.body
        BY <1>4, <4>1
      <4>3. Resumes(m, a)
        BY <1>5, <3>1, <4>2 DEF Ahead
      <4> QED BY <1>1, <4>2, <4>3 DEF Resumes, Reached
    <3>3. CASE k >= 1
      <4>1. m.in # <<>>
        BY <1>4, <1>9, <3>3
      <4>2. a.pos = 1 \/ (a.req = m.in[k].r /\ a.pos = m.in[k].p + 1)
        BY <1>2, <1>9, <3>1, <4>1 DEF GoesOn
      <4>3. m.in[k].r = d.num /\ m.in[k].p = 2 + m.body + k /\ d.body = m.body + k
        BY <1>1, <1>9, <2>2, <3>3
      <4>4. m.in[k].p = 2 + d.body
        BY <1>4, <4>3
      <4>5. a.pos = 1 \/ (a.req = d.num /\ a.pos = (2 + d.body) + 1)
        BY <4>2, <4>3, <4>4
      <4>6. [Reached(d) EXCEPT !.pos = @ + 1] = [req |-> d.num, pos |-> (2 + d.body) + 1]
        BY DEF Reached
      <4> QED BY <4>5, <4>6, CursorParts DEF Resumes
    <3> QED BY <1>4, <3>2, <3>3
  <2> QED BY <1>1, <1>2, <1>4, <2>4, <2>5, <2>6, TracksAfter
<1>10. CASE /\ k >= 1 /\ m.in[k].t = "last" /\ AllChunks(m.in, k - 1)
            /\ d.body = m.body + (k - 1) /\ AnsweredWith(m, d, 200)
  <2>1. k \in 1 .. Len(m.in) /\ m.in[k].t # "line"
    BY <1>4, <1>10
  <2>2. m.in[k].p = 2 + m.body + k /\ m.in[k].q = m.req
    BY <1>8, <1>10, <2>1
  <2>3. m.in[k].p = m.in[k].q.size + 3
    BY <1>2, <1>4, <1>10, <2>1, KindOf
  <2>4. d.body = Announced(d.req)
    <3>1. d.body = m.body + (k - 1) /\ d.req = m.req /\ 2 + m.body + k = m.req.size + 3
      BY <1>1, <1>10, <2>2, <2>3
    <3>2. d.body = m.req.size
      <4>1. \A b \in Nat, z \in Nat : 2 + b + k = z + 3 => b + (k - 1) = z
        BY <1>4
      <4> QED BY <1>4, <3>1, <4>1
    <3> QED BY <1>3, <3>1, <3>2 DEF Announced
  <2>5. d.state = "WRITE" /\ ~d.want_continue
    BY <1>10 DEF AnsweredWith
  <2>6. BodyCounted(d, requests) /\ ~ReadsBody(d)
    BY <1>1, <1>3, <2>4, <2>5, QueuedCounted
  <2> QED BY <1>1, <1>2, <1>4, <2>6, TracksAfter
<1>11. CASE AnsweredWith(m, d, 400) \/ AnsweredWith(m, d, 413)
  <2>1. d.state = "WRITE" /\ ~d.want_continue
    BY <1>11 DEF AnsweredWith
  <2>2. d.out[Len(d.out)].code # 200
    BY <1>4, <1>11, LastCode
  <2>3. BodyCounted(d, requests) /\ ~ReadsBody(d)
    BY <1>1, <1>3, <2>1, <2>2, QueuedCounted
  <2> QED BY <1>1, <1>2, <1>4, <2>3, TracksAfter
<1> QED BY <1>1, <1>9, <1>10, <1>11

\* Asking the client to go on with its body reads nothing.
LEMMA InviteTracks ==
  ASSUME NEW m \in Conn, m.state \in {"READ_BODY", "READ_CHUNK"}, ~m.want_continue,
         NEW a, NEW requests, NEW more, Tracks(m, m.in, a, requests, more),
         NEW d, Invites(m, d)
  PROVE  Tracks(d, d.in, a, requests, more)
<1>1. /\ d.state = "WRITE" /\ d.want_continue /\ d.next_state = m.state
      /\ d.in = m.in /\ d.num = m.num /\ d.req = m.req
      /\ d.body = m.body /\ d.body_remaining = m.body_remaining
  BY DEF Invites
<1>2. ReadsBody(m) /\ ReadsBody(d) /\ BodyState(m) = BodyState(d) /\ ~Queued(d)
  BY <1>1 DEF ReadsBody, BodyState, Queued
<1>3. d.out[Len(d.out)].code = 100
  <2>1. PICK tok \in OutTok : tok.code = 100 /\ d.out = m.out \o <<tok>>
    BY DEF Invites
  <2> DEFINE out == m.out
  <2>2. out \in Seq(OutTok)
    BY ConnFields
  <2> HIDE DEF out
  <2>3. Len(out \o <<tok>>) = Len(out) + 1 /\ (out \o <<tok>>)[Len(out) + 1] = tok
    BY <2>2
  <2> QED BY <2>1, <2>3 DEF out
<1>4. BodyCounted(d, requests)
  BY <1>1, <1>2, <1>3 DEF Tracks, BodyCounted
<1>5. Reached(d) = Reached(m)
  BY <1>1 DEF Reached
<1> QED BY <1>1, <1>2, <1>4, <1>5 DEF Tracks, Resumes

\* Behind the header block comes the body, if anything of it.
LEMMA BehindEnd ==
  ASSUME NEW in \in Seq(InTok), Coherent(in), NEW e \in 1 .. Len(in), WellFormed(in, e),
         NEW a \in Cursor, NEW more, more => GoesOn(in, a),
         NEW m, m.num = BlockToken(in, e).r, m.body = 0, Consume(in, e) # <<>> \/ more
  PROVE  Resumes(m, Ahead(Consume(in, e), a, 1))
<1>1. /\ e - 1 \in 1 .. Len(in) /\ e \in 1 .. Len(in) /\ e \in Nat /\ Len(in) \in Nat
      /\ in[e].t = "end" /\ in[e - 1].t = "line" /\ BlockToken(in, e) = in[e - 1]
  <2>1. HasRequestLine(in, e)
    BY DEF WellFormed
  <2>2. e >= 2 /\ in[e].t = "end" /\ in[e - 1].t = "line" /\ BlockToken(in, e) = in[e - 1]
    BY <2>1 DEF HasRequestLine, BlockToken
  <2> QED BY <2>2
<1>2. in[e - 1].p = 1 /\ in[e].p = 2
  BY <1>1, KindOf
<1>3. in[e].r = m.num
  <2>1. \A n \in ((e - 1) + 1) .. e : n = e
    BY <1>1
  <2>2. \/ in[e].r = in[e - 1].r /\ in[e].p = in[e - 1].p + (e - (e - 1))
        \/ \E n \in ((e - 1) + 1) .. e : in[n].p = 1
    <3>1. e - 1 < e
      BY <1>1
    <3> QED BY <1>1, <3>1 DEF Coherent
  <2> QED BY <1>1, <1>2, <2>1, <2>2
<1>4. [Reached(m) EXCEPT !.pos = @ + 1] = [req |-> m.num, pos |-> 3]
  BY DEF Reached
<1>5. CASE e < Len(in)
  <2>1. e + 1 \in 1 .. Len(in) /\ (e + 1) - e = 1 /\ e < e + 1
    BY <1>1, <1>5
  <2>2. Ahead(Consume(in, e), a, 1) = Place(in[e + 1])
    <3>1. Ahead(Consume(in, e), a, 1) = Ahead(in, a, e + 1)
      BY <1>1, AheadConsumed
    <3> QED BY <2>1, <3>1 DEF Ahead
  <2>3. \/ in[e + 1].r = in[e].r /\ in[e + 1].p = in[e].p + 1
        \/ \E n \in (e + 1) .. (e + 1) : in[n].p = 1
    BY <1>1, <2>1 DEF Coherent
  <2>4. in[e + 1].p = 1 \/ (in[e + 1].r = m.num /\ in[e + 1].p = 3)
    BY <1>1, <1>2, <1>3, <2>3
  <2> QED BY <1>4, <2>2, <2>4 DEF Resumes, Place
<1>6. CASE e = Len(in)
  <2>1. Consume(in, e) = <<>>
    BY <1>6 DEF Consume
  <2>2. Ahead(Consume(in, e), a, 1) = a
    BY <2>1 DEF Ahead
  <2>3. in # <<>> /\ more
    BY <1>1, <2>1
  <2>4. a.pos = 1 \/ (a.req = m.num /\ a.pos = 3)
    BY <1>2, <1>3, <1>6, <2>3 DEF GoesOn
  <2> QED BY <1>4, <2>2, <2>4, CursorParts DEF Resumes
<1> QED BY <1>1, <1>5, <1>6

\* The record in which the body of an accepted request is read.
Opened(m) ==
  \/ m.req.body = "length" /\ m.req.size <= MaxBody
     /\ m.state = "READ_BODY" /\ m.body_remaining = m.req.size
  \/ m.req.body = "chunked" /\ m.state = "READ_CHUNK"

\* The connection cn has read the headers of a request that is accepted, up
\* to token e, which makes it m.
Beginning(cn, e, m, a, requests, more, n) ==
  /\ cn \in Conn /\ cn.state = "READ_HEADERS" /\ a \in Cursor
  /\ InOrder(cn.in, requests, n) /\ Tracks(cn, cn.in, a, requests, more)
  /\ e \in 1 .. Len(cn.in) /\ WellFormed(cn.in, e)
  /\ m \in Conn /\ Begun(cn, e, m)

\* A request that is accepted starts the count of its body.
LEMMA BegunOpened ==
  ASSUME NEW cn, NEW e, NEW m, NEW a, NEW requests, NEW more, NEW n,
         Beginning(cn, e, m, a, requests, more, n)
  PROVE  /\ ~m.want_continue /\ m.body = 0 /\ m.in = Consume(cn.in, e)
         /\ m.num \in 1 .. Len(requests) /\ m.req = requests[m.num]
         /\ InOrder(m.in, requests, n)
         /\ Opened(m) => Tracks(m, m.in, a, requests, more)
<1>0. /\ cn \in Conn /\ cn.state = "READ_HEADERS" /\ a \in Cursor
      /\ InOrder(cn.in, requests, n) /\ Tracks(cn, cn.in, a, requests, more)
      /\ e \in 1 .. Len(cn.in) /\ WellFormed(cn.in, e)
      /\ m \in Conn /\ Begun(cn, e, m)
  BY DEF Beginning
<1>1. /\ Coherent(cn.in) /\ (more => GoesOn(cn.in, a)) /\ cn.body = 0
      /\ cn.in \in Seq(InTok) /\ 0 <= MaxBody
  BY <1>0, ConnFields DEF Tracks, BodyCounted
<1>2. /\ ~m.want_continue /\ m.body = 0 /\ m.in = Consume(cn.in, e)
      /\ m.num = BlockToken(cn.in, e).r /\ m.req = BlockToken(cn.in, e).q
  BY <1>0, <1>1 DEF Begun, Fresh
<1>3. m.num \in 1 .. Len(requests) /\ m.req = requests[m.num]
  <2>1. PICK j \in 1 .. e : BlockToken(cn.in, e) = cn.in[j]
    BY <1>0, <1>1, BlockTokenPlace
  <2>2. j \in 1 .. Len(cn.in)
    BY <1>0
  <2> QED BY <1>0, <1>2, <2>1, <2>2 DEF InOrder
<1>4. m.req.size \in Nat
  BY <1>0, ConnFields
<1>5. e \in 0 .. Len(cn.in) /\ 0 + m.req.size = m.req.size /\ 0 <= m.req.size
  BY <1>0, <1>4
<1>6. InOrder(m.in, requests, n)
  BY <1>0, <1>1, <1>2, <1>5, InOrderConsumed
<1>7. m.in # <<>> \/ more => Resumes(m, Ahead(m.in, a, 1))
  BY <1>0, <1>1, <1>2, BehindEnd
<1>8. Opened(m) => BodyCounted(m, requests)
  <2>1. CASE /\ m.req.body = "length" /\ m.req.size <= MaxBody
             /\ m.state = "READ_BODY" /\ m.body_remaining = m.req.size
    BY <1>1, <1>2, <1>3, <1>5, <2>1 DEF BodyCounted, BodyState, ReadsBody, Queued
  <2>2. CASE m.req.body = "chunked" /\ m.state = "READ_CHUNK"
    BY <1>1, <1>2, <1>3, <1>5, <2>2 DEF BodyCounted, BodyState, ReadsBody, Queued
  <2> QED BY <2>1, <2>2 DEF Opened
<1>9. Opened(m) => Tracks(m, m.in, a, requests, more)
  BY <1>1, <1>2, <1>5, <1>7, <1>8, TracksAfter
<1> QED BY <1>2, <1>3, <1>6, <1>9

\* Reading what has come of its body goes on with the count.
LEMMA BegunTracks ==
  ASSUME NEW cn \in Conn, cn.state = "READ_HEADERS", NEW a \in Cursor, NEW requests,
         NEW more, NEW n, InOrder(cn.in, requests, n), Tracks(cn, cn.in, a, requests, more),
         NEW e \in 1 .. Len(cn.in), WellFormed(cn.in, e),
         NEW m \in Conn, Begun(cn, e, m), NEW d, Follow(m, d), ~Overran(cn, d)
  PROVE  Tracks(d, d.in, a, requests, more)
<1>1. /\ ~m.want_continue /\ m.body = 0 /\ m.in = Consume(cn.in, e)
      /\ InOrder(m.in, requests, n)
      /\ Opened(m) => Tracks(m, m.in, a, requests, more)
  <2>1. Beginning(cn, e, m, a, requests, more, n)
    BY DEF Beginning
  <2> QED BY <2>1, BegunOpened
<1>2. CASE m.req.body = "none" /\ Gets(m, d, 200)
  <2>1. d.state = "WRITE" /\ ~d.want_continue /\ d.body = 0 /\ d.in = m.in /\ d.req = m.req
    BY <1>1, <1>2 DEF Gets, AnsweredWith
  <2>2. /\ Coherent(cn.in) /\ (more => GoesOn(cn.in, a))
        /\ cn.in \in Seq(InTok) /\ 0 <= MaxBody /\ e \in 0 .. Len(cn.in)
    BY ConnFields DEF Tracks
  <2>3. BodyCounted(d, requests) /\ ~ReadsBody(d)
    BY <1>2, <2>1, <2>2, QueuedCounted DEF Announced
  <2> QED BY <1>1, <2>1, <2>2, <2>3, TracksAfter
<1>3. CASE /\ m.req.body = "length" /\ m.req.size <= MaxBody
           /\ m.state = "READ_BODY" /\ m.body_remaining = m.req.size
           /\ Invites(m, d) \/ LengthRead(m, d)
  <2>1. Tracks(m, m.in, a, requests, more)
    BY <1>1, <1>3 DEF Opened
  <2> QED BY <1>1, <1>3, <2>1, InviteTracks, LengthTracks
<1>4. CASE /\ m.req.body = "chunked" /\ m.state = "READ_CHUNK"
           /\ Invites(m, d) \/ ChunkRead(m, d)
  <2>1. Tracks(m, m.in, a, requests, more)
    BY <1>1, <1>4 DEF Opened
  <2>2. HasHuge(m.in) => HasHuge(cn.in)
    <3>1. cn.in \in Seq(InTok) /\ e \in 1 .. Len(cn.in)
      BY ConnFields
    <3> QED BY <1>1, <3>1, HugeConsumed
  <2>3. ~Overran(m, d)
    BY <2>2 DEF Begun, Overran
  <2> QED BY <1>1, <1>4, <2>1, <2>3, InviteTracks, ChunkTracks
<1> QED BY <1>2, <1>3, <1>4 DEF Follow

\* What ReadStepCount says of a read.
ReadOutcome(c, d) ==
  \/ c.state = "READ_HEADERS" /\ ~HasBlock(c.in) /\ d = c
  \/ c.state = "READ_HEADERS" /\ HasBlock(c.in) /\ HeadersRead(c, d)
  \/ c.state = "READ_BODY" /\ LengthRead(c, d)
  \/ c.state = "READ_CHUNK" /\ ChunkRead(c, d)

\* Whatever a read makes of the input of a connection, it keeps count of it.
LEMMA ReadTracks ==
  ASSUME NEW cn \in Conn, cn.state # "WRITE", Fresh(cn), NEW a \in Cursor, NEW requests,
         NEW more, NEW n, InOrder(cn.in, requests, n), Tracks(cn, cn.in, a, requests, more),
         ~Overran(cn, ReadStep(cn))
  PROVE  Tracks(ReadStep(cn), ReadStep(cn).in, a, requests, more)
<1>1. SUFFICES ASSUME NEW d, ReadOutcome(cn, d), ~Overran(cn, d)
               PROVE  Tracks(d, d.in, a, requests, more)
  BY ReadStepCount DEF ReadOutcome
<1>2. ~cn.want_continue /\ cn.in \in Seq(InTok)
  BY ConnFields DEF Fresh
<1>3. CASE cn.state = "READ_HEADERS" /\ HasBlock(cn.in) /\ HeadersRead(cn, d)
  <2> DEFINE e == BlockEnd(cn.in)
  <2>1. e \in 1 .. Len(cn.in)
    BY <1>2, <1>3, BlockEndFirst
  <2>2. \/ /\ Uses(cn, d) /\ d.body = cn.body
           /\ \E code \in FinalStatus \ {200} :
                AnsweredWith([num |-> BlockToken(cn.in, e).r, out |-> cn.out], d, code)
        \/ /\ WellFormed(cn.in, e)
           /\ \E m \in Conn : Begun(cn, e, m) /\ Follow(m, d)
    BY <1>3 DEF HeadersRead
  <2> HIDE DEF e
  <2>3. CASE /\ Uses(cn, d) /\ d.body = cn.body
             /\ \E code \in FinalStatus \ {200} :
                  AnsweredWith([num |-> BlockToken(cn.in, e).r, out |-> cn.out], d, code)
    <3> DEFINE c == [num |-> BlockToken(cn.in, e).r, out |-> cn.out]
    <3>1. PICK code \in FinalStatus \ {200} : AnsweredWith(c, d, code)
      BY <2>3
    <3>2. c.out \in Seq(OutTok) /\ code # 200
      BY ConnFields
    <3> HIDE DEF c
    <3>3. /\ d.out[Len(d.out)].code # 200
          /\ d.state = "WRITE" /\ ~d.want_continue
      <4>1. d.out[Len(d.out)].code = code
        BY <3>1, <3>2, LastCode
      <4>2. d.state = "WRITE" /\ ~d.want_continue
        BY <3>1 DEF AnsweredWith
      <4> QED BY <3>2, <4>1, <4>2
    <3>4. d.body <= MaxBody
      BY <2>3 DEF Tracks, BodyCounted
    <3>5. BodyCounted(d, requests) /\ ~ReadsBody(d)
      BY <3>3, <3>4, QueuedCounted
    <3>6. PICK k \in 0 .. Len(cn.in) : d.in = Consume(cn.in, k)
      BY <2>3 DEF Uses
    <3>7. Coherent(cn.in) /\ (more => GoesOn(cn.in, a))
      BY DEF Tracks
    <3> QED BY <1>2, <3>5, <3>6, <3>7, TracksAfter
  <2>4. CASE WellFormed(cn.in, e) /\ \E m \in Conn : Begun(cn, e, m) /\ Follow(m, d)
    BY <1>1, <1>3, <2>1, <2>4, BegunTracks
  <2> QED BY <2>2, <2>3, <2>4
<1>4. CASE cn.state = "READ_BODY" /\ LengthRead(cn, d)
  BY <1>2, <1>4, LengthTracks
<1>5. CASE cn.state = "READ_CHUNK" /\ ChunkRead(cn, d)
  BY <1>1, <1>2, <1>5, ChunkTracks
<1> QED BY <1>1, <1>3, <1>4, <1>5 DEF ReadOutcome

-----------------------------------------------------------------------------
(* The tally of the answers.                                               *)

\* The elements of a stream and of what is appended to it.
LEMMA JoinedElements ==
  ASSUME NEW s \in Seq(OutTok), NEW t \in Seq(OutTok)
  PROVE  /\ s \o t \in Seq(OutTok) /\ Len(s \o t) = Len(s) + Len(t)
         /\ Len(s) \in Nat /\ Len(t) \in Nat
         /\ \A j \in 1 .. Len(s) : (s \o t)[j] = s[j]
         /\ \A j \in 1 .. Len(t) : (s \o t)[Len(s) + j] = t[j]
         /\ \A j \in 1 .. (Len(s) + Len(t)) :
              j \in 1 .. Len(s) \/ (j - Len(s) \in 1 .. Len(t) /\ (s \o t)[j] = t[j - Len(s)])
<1>1. /\ s \o t \in Seq(OutTok) /\ Len(s \o t) = Len(s) + Len(t)
      /\ Len(s) \in Nat /\ Len(t) \in Nat
      /\ \A j \in 1 .. Len(s) : (s \o t)[j] = s[j]
      /\ \A j \in 1 .. Len(t) : (s \o t)[Len(s) + j] = t[j]
  BY ConcatProperties
<1> DEFINE u == s \o t
           l == Len(s)
<1> HIDE DEF u, l
<1>2. ASSUME NEW j \in 1 .. (l + Len(t)), j \notin 1 .. l
      PROVE  j - l \in 1 .. Len(t) /\ u[j] = t[j - l]
  <2>1. l \in Nat /\ Len(t) \in Nat /\ \A m \in 1 .. Len(t) : u[l + m] = t[m]
    BY <1>1 DEF l, u
  <2>2. j - l \in 1 .. Len(t) /\ l + (j - l) = j
    BY <1>2, <2>1
  <2> QED BY <2>1, <2>2
<1> QED BY <1>1, <1>2 DEF l, u

\* Tokens that end no answer change nothing.
LEMMA QuietAdds ==
  ASSUME NEW s \in Seq(OutTok), NEW t \in Seq(OutTok), \A j \in 1 .. Len(t) : ~t[j].eom
  PROVE  /\ Tallied(s) => Tallied(s \o t)
         /\ \A n : TalliedTo(s, n) => TalliedTo(s \o t, n)
         /\ \A in : Settled(s, in) => Settled(s \o t, in)
<1> DEFINE u == s \o t
<1>1. /\ Len(u) = Len(s) + Len(t) /\ Len(s) \in Nat /\ Len(t) \in Nat
      /\ \A j \in 1 .. Len(s) : j \in 1 .. Len(u) /\ u[j] = s[j]
      /\ \A j \in 1 .. Len(u) : u[j].eom => j \in 1 .. Len(s)
  BY JoinedElements
<1> HIDE DEF u
<1>2. Tallied(s) => Tallied(u)
  <2>1. SUFFICES ASSUME Tallied(s), NEW k \in 1 .. Len(u), u[k].eom
                 PROVE  /\ 1 <= u[k].r
                        /\ \A j \in 1 .. (k - 1) : u[j].eom => u[j].r < u[k].r
                        /\ \A r \in 1 .. u[k].r : \E j \in 1 .. k : u[j].eom /\ u[j].r = r
    BY DEF Tallied
  <2>2. k \in 1 .. Len(s) /\ u[k] = s[k] /\ s[k].eom
    BY <1>1, <2>1
  <2>3. \A j \in 1 .. k : j \in 1 .. Len(s) /\ u[j] = s[j]
    BY <1>1, <2>2
  <2>4. /\ 1 <= s[k].r
        /\ \A j \in 1 .. (k - 1) : s[j].eom => s[j].r < s[k].r
        /\ \A r \in 1 .. s[k].r : \E j \in 1 .. k : s[j].eom /\ s[j].r = r
    BY <2>1, <2>2 DEF Tallied
  <2>5. \A j \in 1 .. (k - 1) : j \in 1 .. k
    BY <2>2
  <2> QED BY <2>2, <2>3, <2>4, <2>5
<1>3. \A n : TalliedTo(s, n) => TalliedTo(u, n)
  BY <1>1 DEF TalliedTo
<1>4. \A in : Settled(s, in) => Settled(u, in)
  BY <1>1, <1>2 DEF Settled
<1> QED BY <1>2, <1>3, <1>4 DEF u

\* An answer to the next request is counted behind the others.
LEMMA AnswerAdds ==
  ASSUME NEW s \in Seq(OutTok), NEW n \in Nat \ {0}, Tallied(s), TalliedTo(s, n - 1),
         NEW t \in Seq(OutTok), NEW code, Whole(t, n, code)
  PROVE  Tallied(s \o t) /\ TalliedTo(s \o t, n)
<1> DEFINE u == s \o t
           l == Len(u)
<1>1. /\ Len(u) = Len(s) + Len(t) /\ Len(s) \in Nat /\ Len(t) \in Nat
      /\ \A j \in 1 .. Len(s) : u[j] = s[j]
      /\ \A j \in 1 .. Len(t) : u[Len(s) + j] = t[j]
      /\ \A j \in 1 .. Len(u) :
           j \in 1 .. Len(s) \/ (j - Len(s) \in 1 .. Len(t) /\ u[j] = t[j - Len(s)])
  BY JoinedElements
<1>2. /\ Len(t) >= 1 /\ t[Len(t)].eom /\ \A j \in 1 .. Len(t) : t[j].r = n
      /\ \A j \in 1 .. (Len(t) - 1) : ~t[j].eom
  BY DEF Whole
<1> HIDE DEF u
<1>3. l \in 1 .. l /\ l \in Nat /\ Len(s) < l /\ u[l].eom /\ u[l].r = n
  <2>1. Len(t) \in 1 .. Len(t) /\ l = Len(s) + Len(t) /\ l \in Nat
    BY <1>1, <1>2
  <2>2. u[l] = t[Len(t)]
    BY <1>1, <2>1
  <2> QED BY <1>1, <1>2, <2>1, <2>2
<1>4. ASSUME NEW j \in 1 .. l, u[j].eom
      PROVE  j = l \/ (j \in 1 .. Len(s) /\ u[j] = s[j] /\ s[j].eom /\ j < l)
  <2>1. CASE j \in 1 .. Len(s)
    BY <1>1, <1>3, <1>4, <2>1
  <2>2. CASE j - Len(s) \in 1 .. Len(t) /\ u[j] = t[j - Len(s)]
    <3>1. j - Len(s) \notin 1 .. (Len(t) - 1)
      BY <1>2, <1>4, <2>2
    <3>2. j = l
      BY <1>1, <2>2, <3>1
    <3> QED BY <3>2
  <2> QED BY <1>1, <2>1, <2>2
<1>5. \A j \in 1 .. Len(s) : s[j].eom => s[j].r \in Nat /\ s[j].r < n
  <2>1. \A j \in 1 .. Len(s) : s[j] \in OutTok
    OBVIOUS
  <2>2. \A j \in 1 .. Len(s) : s[j].r \in Nat
    BY <2>1 DEF OutTok
  <2> QED BY <2>2 DEF TalliedTo
<1>6. \A j \in 1 .. (l - 1) : u[j].eom => u[j].r < n
  <2>1. \A j \in 1 .. (l - 1) : j \in 1 .. l /\ j # l
    BY <1>3
  <2> QED BY <1>4, <1>5, <2>1
<1>7. \A r \in 1 .. n : \E j \in 1 .. l : u[j].eom /\ u[j].r = r
  <2>1. ASSUME NEW r \in 1 .. n
        PROVE  \E j \in 1 .. l : u[j].eom /\ u[j].r = r
    <3>1. CASE r = n
      BY <1>3, <3>1
    <3>2. CASE r # n
      <4>1. n - 1 >= 1 /\ r \in 1 .. (n - 1)
        BY <2>1, <3>2
      <4>2. PICK k \in 1 .. Len(s) : s[k].eom /\ s[k].r = n - 1
        BY <4>1 DEF TalliedTo
      <4>3. PICK j \in 1 .. k : s[j].eom /\ s[j].r = r
        BY <4>1, <4>2 DEF Tallied
      <4>4. j \in 1 .. Len(s) /\ j \in 1 .. l
        BY <1>3, <4>2, <4>3
      <4> QED BY <1>1, <4>3, <4>4
    <3> QED BY <3>1, <3>2
  <2> QED BY <2>1
<1>8. Tallied(u)
  <2>1. SUFFICES ASSUME NEW k \in 1 .. l, u[k].eom
                 PROVE  /\ 1 <= u[k].r
                        /\ \A j \in 1 .. (k - 1) : u[j].eom => u[j].r < u[k].r
                        /\ \A r \in 1 .. u[k].r : \E j \in 1 .. k : u[j].eom /\ u[j].r = r
    BY DEF Tallied
  <2>2. CASE k = l
    <3>0. 1 <= u[k].r
      BY <1>3, <2>2
    <3> QED BY <1>3, <1>6, <1>7, <2>2, <3>0
  <2>3. CASE k \in 1 .. Len(s) /\ u[k] = s[k] /\ s[k].eom
    <3>1. \A j \in 1 .. k : j \in 1 .. Len(s) /\ u[j] = s[j]
      BY <1>1, <2>3
    <3>2. /\ 1 <= s[k].r
          /\ \A j \in 1 .. (k - 1) : s[j].eom => s[j].r < s[k].r
          /\ \A r \in 1 .. s[k].r : \E j \in 1 .. k : s[j].eom /\ s[j].r = r
      BY <2>3 DEF Tallied
    <3>3. \A j \in 1 .. (k - 1) : j \in 1 .. k
      BY <2>3
    <3> QED BY <2>3, <3>1, <3>2, <3>3
  <2> QED BY <1>4, <2>1, <2>2, <2>3
<1>9. TalliedTo(u, n)
  <2>1. \A k \in 1 .. l : u[k].eom => u[k].r <= n
    <3>1. ASSUME NEW k \in 1 .. l, u[k].eom
          PROVE  u[k].r <= n
      <4>1. CASE k = l
        BY <1>3, <4>1
      <4>2. CASE k \in 1 .. Len(s) /\ u[k] = s[k] /\ s[k].eom
        BY <1>5, <4>2
      <4> QED BY <1>4, <3>1, <4>1, <4>2
    <3> QED BY <3>1
  <2> QED BY <1>3, <2>1 DEF TalliedTo
<1> QED BY <1>8, <1>9 DEF u

\* Part of a tally is one, and it leaves less to be answered again.
LEMMA TallyCut ==
  ASSUME NEW s \in Seq(OutTok), NEW t \in Seq(OutTok), NEW in \in Seq(InTok),
         NEW k \in 0 .. Len(in), Settled(s \o t, in)
  PROVE  Settled(s, Consume(in, k))
<1> DEFINE u == s \o t
           left == Consume(in, k)
<1>1. /\ Len(u) = Len(s) + Len(t) /\ Len(s) \in Nat /\ Len(t) \in Nat
      /\ \A j \in 1 .. Len(s) : j \in 1 .. Len(u) /\ u[j] = s[j]
  BY JoinedElements
<1>2. Len(left) = Len(in) - k /\ \A j \in 1 .. (Len(in) - k) : left[j] = in[k + j]
  BY ConsumeElements
<1>3. Settled(u, in)
  OBVIOUS
<1> HIDE DEF u, left
<1>4. Tallied(s)
  <2>1. SUFFICES ASSUME NEW m \in 1 .. Len(s), s[m].eom
                 PROVE  /\ 1 <= s[m].r
                        /\ \A j \in 1 .. (m - 1) : s[j].eom => s[j].r < s[m].r
                        /\ \A r \in 1 .. s[m].r : \E j \in 1 .. m : s[j].eom /\ s[j].r = r
    BY DEF Tallied
  <2>2. \A j \in 1 .. m : j \in 1 .. Len(s) /\ u[j] = s[j]
    BY <1>1
  <2>3. m \in 1 .. Len(u) /\ u[m].eom /\ u[m] = s[m]
    BY <1>1, <2>1
  <2>4. /\ 1 <= u[m].r
        /\ \A j \in 1 .. (m - 1) : u[j].eom => u[j].r < u[m].r
        /\ \A r \in 1 .. u[m].r : \E j \in 1 .. m : u[j].eom /\ u[j].r = r
    BY <1>3, <2>3 DEF Settled, Tallied
  <2>5. \A j \in 1 .. (m - 1) : j \in 1 .. m
    OBVIOUS
  <2> QED BY <2>2, <2>3, <2>4, <2>5
<1>5. ASSUME NEW j \in 1 .. Len(s), NEW m \in 1 .. Len(left), s[j].eom
      PROVE  s[j].r < left[m].r
  <2>1. k + m \in 1 .. Len(in) /\ left[m] = in[k + m]
    BY <1>2
  <2> QED BY <1>1, <1>3, <1>5, <2>1 DEF Settled
<1>6. Settled(s, left)
  BY <1>4, <1>5 DEF Settled
<1> QED BY <1>6 DEF left

-----------------------------------------------------------------------------
(* What a read makes of the input of a client without mistakes.            *)

AllFine(requests) ==
  \A r \in 1 .. Len(requests) :
    requests[r].fault = "none" /\ requests[r].method # "UNKNOWN" /\ requests[r].size <= MaxBody

Exactly(cn, s, in, a) == Settled(s, in) /\ Awaits(cn, s, in, a)

\* What is queued behind out keeps the tally of the stream.
Adds(out, d, s, a) ==
  \E toks \in Seq(OutTok) : d.out = out \o toks /\ Exactly(d, s \o toks, d.in, a)

\* The connection m reads the body of a request of a script.
Halfway(m, s, a, requests) ==
  /\ m \in Conn /\ s \in Seq(OutTok) /\ a \in Cursor
  /\ ReadsBody(m) /\ m.num \in 1 .. Len(requests) /\ m.req = requests[m.num]
  /\ InOrder(m.in, requests, a.req)
  /\ Exactly(m, s, m.in, a)

\* A request is answered when its last token has been used.
LEMMA AnsweredAdds ==
  ASSUME NEW m \in Conn, m.num >= 1, NEW s \in Seq(OutTok), NEW a \in Cursor, NEW d,
         NEW code, AnsweredWith(m, d, code), d.in \in Seq(InTok),
         TalliedTo(s, m.num - 1), Settled(s, d.in), Gapless(d.in, a),
         Ahead(d.in, a, 1) = [req |-> m.num + 1, pos |-> 1],
         NEW requests, NEW n, InOrder(d.in, requests, n)
  PROVE  Adds(m.out, d, s, a)
<1>1. m.num \in Nat \ {0} /\ m.num \in Nat /\ (m.num + 1) - 1 = m.num
  BY ConnFields
<1>2. PICK toks \in Seq(OutTok) : Whole(toks, m.num, code) /\ d.out = m.out \o toks
  BY DEF AnsweredWith
<1>3. d.state = "WRITE" /\ ~d.want_continue
  BY DEF AnsweredWith
<1> DEFINE u == s \o toks
<1>4. Tallied(u) /\ TalliedTo(u, m.num)
  BY <1>1, <1>2, AnswerAdds DEF Settled
<1>5. u \in Seq(OutTok) /\ u # <<>> /\ u[Len(u)].r = m.num
  <2>1. /\ Len(toks) >= 1 /\ Len(toks) \in 1 .. Len(toks) /\ toks[Len(toks)].r = m.num
    BY <1>2 DEF Whole
  <2>2. u \in Seq(OutTok) /\ Len(u) = Len(s) + Len(toks) /\ u[Len(s) + Len(toks)] = toks[Len(toks)]
    BY <2>1, JoinedElements
  <2>3. Len(u) >= 1
    BY <2>1, <2>2
  <2> QED BY <2>1, <2>2, <2>3
<1> HIDE DEF u
<1>6. Settled(u, d.in)
  <2>1. ASSUME NEW j \in 1 .. Len(u), NEW k \in 1 .. Len(d.in), u[j].eom
        PROVE  u[j].r < d.in[k].r
    <3>1. u[j].r <= m.num /\ u[j].r \in Nat
      <4>1. u[j] \in OutTok
        BY <1>5
      <4> QED BY <1>4, <2>1, <4>1 DEF TalliedTo, OutTok
    <3>2. 1 \in 1 .. Len(d.in) /\ 1 <= k
      OBVIOUS
    <3>3. d.in[1].r = m.num + 1
      BY <3>2 DEF Ahead, Place
    <3>4. d.in[1].r <= d.in[k].r
      BY <3>2 DEF InOrder
    <3>5. d.in[k].r \in Nat
      <4>1. d.in[k] \in InTok
        OBVIOUS
      <4> QED BY <4>1 DEF InTok
    <3>6. m.num + 1 <= d.in[k].r
      BY <3>3, <3>4
    <3>7. \A x \in Nat, y \in Nat, z \in Nat : x <= y /\ y + 1 <= z => x < z
      OBVIOUS
    <3> QED BY <1>1, <3>1, <3>5, <3>6, <3>7
  <2> QED BY <1>4, <2>1 DEF Settled
<1>7. Awaits(d, u, d.in, a)
  <2>1. ~ReadsBody(d)
    BY <1>3 DEF ReadsBody
  <2>2. NextAnswer(d, u) = m.num + 1
    BY <1>5, <2>1 DEF NextAnswer, Floor
  <2>3. NextPlace(d, u) = [req |-> m.num + 1, pos |-> 1]
    BY <2>1, <2>2 DEF NextPlace
  <2> QED BY <1>1, <1>4, <2>2, <2>3 DEF Awaits
<1> QED BY <1>2, <1>6, <1>7 DEF Adds, Exactly, u

\* Behind k tokens of a body, the input goes on in it or behind it.
LEMMA HalfwayOn ==
  ASSUME NEW m, NEW s, NEW a, NEW requests, Halfway(m, s, a, requests),
         NEW k \in 0 .. Len(m.in), 2 + m.body + k <= LastPos(m.req)
  PROVE  /\ Ahead(Consume(m.in, k), a, 1)
              = IF 2 + m.body + k = LastPos(m.req) THEN [req |-> m.num + 1, pos |-> 1]
                ELSE [req |-> m.num, pos |-> 3 + m.body + k]
         /\ Ahead(Consume(m.in, k), a, 1)
              = Beyond([req |-> m.num, pos |-> 2 + (m.body + k)], m.req)
         /\ Gapless(Consume(m.in, k), a) /\ Settled(s, Consume(m.in, k))
         /\ InOrder(Consume(m.in, k), requests, a.req) /\ Consume(m.in, k) \in Seq(InTok)
         /\ TalliedTo(s, m.num - 1) /\ m.num >= 1
<1>1. /\ m \in Conn /\ s \in Seq(OutTok) /\ a \in Cursor
      /\ ReadsBody(m) /\ m.num \in 1 .. Len(requests) /\ m.req = requests[m.num]
      /\ InOrder(m.in, requests, a.req)
      /\ Settled(s, m.in) /\ Gapless(m.in, a) /\ Ahead(m.in, a, 1) = NextPlace(m, s)
      /\ TalliedTo(s, NextAnswer(m, s) - 1)
  BY DEF Halfway, Exactly, Awaits
<1>2. /\ m.in \in Seq(InTok) /\ m.num \in Nat /\ m.body \in Nat /\ m.req \in Request /\ k \in Nat
      /\ m.num >= 1 /\ Len(m.in) \in Nat
  BY <1>1, ConnFields
<1>3. NextAnswer(m, s) = m.num /\ NextPlace(m, s) = Beyond([req |-> m.num, pos |-> 2 + m.body], m.req)
  BY <1>1 DEF NextAnswer, NextPlace, Reached
<1>4. m.in # <<>> /\ m.in[1].r = m.num => m.in[1].q = m.req
  <2>1. m.in # <<>> => 1 \in 1 .. Len(m.in)
    BY <1>2
  <2> QED BY <1>1, <2>1 DEF InOrder
<1>5. 2 + m.body \in Nat /\ (2 + m.body) + k = 2 + (m.body + k) /\ (2 + m.body) + k <= LastPos(m.req)
      /\ 2 + (m.body + k) + 1 = 3 + m.body + k
  BY <1>2
<1>6. Ahead(m.in, a, k + 1) = Beyond([req |-> m.num, pos |-> 2 + (m.body + k)], m.req)
  <2> DEFINE b == 2 + m.body
  <2>1. b \in Nat /\ b + k = 2 + (m.body + k) /\ b + k <= LastPos(m.req)
    BY <1>5
  <2>2. Ahead(m.in, a, 1) = Beyond([req |-> m.num, pos |-> b], m.req)
    BY <1>1, <1>3
  <2> HIDE DEF b
  <2>3. Ahead(m.in, a, k + 1) = Beyond([req |-> m.num, pos |-> b + k], m.req)
    <3> DEFINE in == m.in
               n == m.num
               q == m.req
    <3>1. in \in Seq(InTok) /\ Gapless(in, a) /\ n \in Nat /\ q \in Request /\ k \in 0 .. Len(in)
      BY <1>1, <1>2
    <3>2. /\ Ahead(in, a, 1) = Beyond([req |-> n, pos |-> b], q)
          /\ in # <<>> /\ in[1].r = n => in[1].q = q
          /\ b + k <= LastPos(q)
      BY <1>4, <2>1, <2>2
    <3> HIDE DEF in, n, q
    <3>3. Ahead(in, a, k + 1) = Beyond([req |-> n, pos |-> b + k], q)
      BY <2>1, <3>1, <3>2, Advance
    <3> QED BY <3>3 DEF in, n, q
  <2> QED BY <2>1, <2>3
<1>7. Ahead(Consume(m.in, k), a, 1) = Ahead(m.in, a, k + 1)
  BY <1>2, AheadConsumed
<1>8. Beyond([req |-> m.num, pos |-> 2 + (m.body + k)], m.req)
        = IF 2 + m.body + k = LastPos(m.req) THEN [req |-> m.num + 1, pos |-> 1]
          ELSE [req |-> m.num, pos |-> 3 + m.body + k]
  <2>1. Beyond([req |-> m.num, pos |-> 2 + (m.body + k)], m.req)
        = IF 2 + (m.body + k) = LastPos(m.req) THEN [req |-> m.num + 1, pos |-> 1]
          ELSE [req |-> m.num, pos |-> 2 + (m.body + k) + 1]
    BY BeyondAt
  <2>2. 2 + (m.body + k) = 2 + m.body + k
    BY <1>2
  <2> QED BY <1>5, <2>1, <2>2
<1>9. Settled(s, Consume(m.in, k))
  <2>1. s \o <<>> = s /\ <<>> \in Seq(OutTok)
    BY <1>1
  <2> QED BY <1>1, <1>2, <2>1, TallyCut
<1>10. /\ Gapless(Consume(m.in, k), a) /\ InOrder(Consume(m.in, k), requests, a.req)
       /\ Consume(m.in, k) \in Seq(InTok)
  BY <1>1, <1>2, GaplessConsumed, InOrderConsumed, ConsumeElements
<1> QED BY <1>1, <1>2, <1>3, <1>6, <1>7, <1>8, <1>9, <1>10

\* Reading on, without an answer.
LEMMA OnwardAdds ==
  ASSUME NEW m, NEW s, NEW a, NEW requests, Halfway(m, s, a, requests), NEW k \in 0 .. Len(m.in),
         2 + m.body + k <= LastPos(m.req), NEW d, ReadsBody(d),
         d.num = m.num, d.req = m.req, d.body = m.body + k, d.in = Consume(m.in, k),
         NEW toks \in Seq(OutTok), \A j \in 1 .. Len(toks) : ~toks[j].eom, d.out = m.out \o toks
  PROVE  Adds(m.out, d, s, a)
<1>1. s \in Seq(OutTok)
  BY DEF Halfway
<1>2. /\ Ahead(d.in, a, 1) = Beyond([req |-> m.num, pos |-> 2 + (m.body + k)], m.req)
      /\ Gapless(d.in, a) /\ Settled(s, d.in) /\ TalliedTo(s, m.num - 1)
  BY HalfwayOn
<1>3. Settled(s \o toks, d.in) /\ TalliedTo(s \o toks, m.num - 1)
  BY <1>1, <1>2, QuietAdds
<1>4. /\ NextAnswer(d, s \o toks) = m.num
      /\ NextPlace(d, s \o toks) = Beyond([req |-> m.num, pos |-> 2 + (m.body + k)], m.req)
  BY DEF NextAnswer, NextPlace, Reached
<1>5. Awaits(d, s \o toks, d.in, a)
  BY <1>2, <1>3, <1>4 DEF Awaits
<1> QED BY <1>3, <1>5 DEF Adds, Exactly

\* Nothing is queued.
LEMMA NoTokens ==
  ASSUME NEW out \in Seq(OutTok)
  PROVE  /\ <<>> \in Seq(OutTok) /\ out = out \o <<>>
         /\ \A j \in 1 .. Len(<<>>) : ~<<>>[j].eom
OBVIOUS

\* The body of announced length is answered exactly when it has been read.
LEMMA LengthAdds ==
  ASSUME NEW m, NEW s, NEW a, NEW requests, Halfway(m, s, a, requests),
         m.state = "READ_BODY", ~m.want_continue, BodyCounted(m, requests),
         NEW d, LengthRead(m, d)
  PROVE  Adds(m.out, d, s, a)
<1>1. PICK k \in 0 .. Len(m.in) :
        /\ d.in = Consume(m.in, k) /\ d.num = m.num /\ d.req = m.req /\ d.body = m.body + k
        /\ \/ /\ k = Len(m.in) /\ k < m.body_remaining
              /\ Awaiting(m, d) /\ d.body_remaining = m.body_remaining - k
           \/ k = m.body_remaining /\ AnsweredWith(m, d, 200)
  BY DEF LengthRead
<1>2. /\ m \in Conn /\ s \in Seq(OutTok) /\ a \in Cursor /\ ReadsBody(m)
  BY DEF Halfway
<1>3. /\ m.num \in Nat /\ m.body \in Nat /\ m.body_remaining \in Nat /\ m.req \in Request
      /\ m.req.size \in Nat /\ m.out \in Seq(OutTok)
  BY <1>2, ConnFields
<1>4. m.req.body = "length" /\ m.body + m.body_remaining = m.req.size
  BY <1>2 DEF BodyCounted, BodyState
<1>5. LastPos(m.req) = 2 + m.req.size
  BY <1>3, <1>4, LastPlace
<1>6. k <= m.body_remaining /\ k \in Nat
  BY <1>1, <1>3
<1>7. 2 + m.body + k <= LastPos(m.req)
  BY <1>3, <1>4, <1>5, <1>6
<1>8. CASE Awaiting(m, d)
  <2>1. ReadsBody(d) /\ d.out = m.out
    BY <1>8 DEF Awaiting, Fresh, ReadsBody
  <2>2. d.out = m.out \o <<>> /\ <<>> \in Seq(OutTok) /\ \A j \in 1 .. Len(<<>>) : ~<<>>[j].eom
    BY <1>3, <2>1, NoTokens
  <2> QED BY <1>1, <1>7, <2>1, <2>2, OnwardAdds
<1>9. CASE k = m.body_remaining /\ AnsweredWith(m, d, 200)
  <2>1. 2 + m.body + k = LastPos(m.req)
    BY <1>3, <1>4, <1>5, <1>9
  <2>2. /\ Ahead(d.in, a, 1) = [req |-> m.num + 1, pos |-> 1]
        /\ Gapless(d.in, a) /\ Settled(s, d.in) /\ d.in \in Seq(InTok)
        /\ InOrder(d.in, requests, a.req) /\ TalliedTo(s, m.num - 1) /\ m.num >= 1
    BY <1>1, <1>7, <2>1, HalfwayOn
  <2> QED BY <1>2, <1>9, <2>2, AnsweredAdds
<1> QED BY <1>1, <1>8, <1>9

\* So is the chunked one, of which nothing is refused.
LEMMA ChunkAdds ==
  ASSUME NEW m, NEW s, NEW a, NEW requests, Halfway(m, s, a, requests), AllFine(requests),
         m.state = "READ_CHUNK", ~m.want_continue, Tracks(m, m.in, a, requests, TRUE),
         NEW d, ChunkRead(m, d)
  PROVE  Adds(m.out, d, s, a)
<1>1. PICK k \in 0 .. Len(m.in) :
        /\ d.in = Consume(m.in, k) /\ d.num = m.num /\ d.req = m.req
        /\ m.body <= MaxBody => d.body <= MaxBody
        /\ \/ /\ k = Len(m.in) /\ AllChunks(m.in, k) /\ d.body = m.body + k
              /\ Awaiting(m, d)
           \/ /\ k >= 1 /\ m.in[k].t = "last" /\ AllChunks(m.in, k - 1)
              /\ d.body = m.body + (k - 1) /\ AnsweredWith(m, d, 200)
           \/ /\ k < Len(m.in) /\ AllChunks(m.in, k) /\ d.body = m.body + k
              /\ m.in[k + 1].t # "last"
              /\ m.in[k + 1].t = "chunk" => m.body + k + 1 > MaxBody
              /\ AnsweredWith(m, d, 400) \/ AnsweredWith(m, d, 413)
  <2>1. ~HasHuge(m.in)
    <3>1. InOrder(m.in, requests, a.req) /\ Coherent(m.in) /\ m.in \in Seq(InTok)
      BY ConnFields DEF Halfway, Tracks
    <3> QED BY <3>1, HugeSent DEF AllFine
  <2> QED BY <2>1 DEF ChunkRead, Overran
<1>2. /\ m \in Conn /\ s \in Seq(OutTok) /\ a \in Cursor /\ ReadsBody(m)
      /\ m.num \in 1 .. Len(requests) /\ m.req = requests[m.num] /\ InOrder(m.in, requests, a.req)
  BY DEF Halfway
<1>3. /\ m.num \in Nat /\ m.body \in Nat /\ m.req \in Request /\ Len(m.in) \in Nat
      /\ m.req.size \in Nat /\ m.out \in Seq(OutTok) /\ m.in \in Seq(InTok) /\ MaxBody \in Nat
      /\ k \in Nat
  BY <1>2, ConnFields
<1>4. /\ Coherent(m.in) /\ BodyCounted(m, requests)
      /\ Resumes(m, Ahead(m.in, a, 1))
  BY <1>2 DEF Tracks, BodyState
<1>5. m.req.body = "chunked" /\ m.body <= m.req.size
  BY <1>2, <1>4 DEF BodyCounted, BodyState
<1>6. LastPos(m.req) = 3 + m.req.size
  BY <1>3, <1>5, LastPlace
<1>7. m.req.fault = "none" /\ m.req.size <= MaxBody
  BY <1>2 DEF AllFine
<1>8. ASSUME NEW j \in 1 .. Len(m.in), AllChunks(m.in, j - 1), m.in[j].t # "line"
      PROVE  m.in[j].p = 2 + m.body + j /\ m.in[j].q = m.req
  <2>1. m.in # <<>> /\ 1 <= Len(m.in)
    BY <1>3
  <2>2. Resumes(m, Place(m.in[1]))
    BY <1>4, <2>1 DEF Ahead
  <2>3. m.in[j].r = m.num /\ m.in[j].p = 2 + m.body + j
    BY <1>3, <1>4, <1>8, <2>2, ChunkPlaces
  <2> QED BY <1>2, <2>3 DEF InOrder
<1>9. ASSUME NEW j \in 1 .. Len(m.in), AllChunks(m.in, j)
      PROVE  2 + m.body + j <= m.req.size + 2
  <2>1. m.in[j].t = "chunk" /\ AllChunks(m.in, j - 1)
    BY <1>9 DEF AllChunks
  <2>2. m.in[j].p = 2 + m.body + j /\ m.in[j].q = m.req
    BY <1>8, <2>1
  <2>3. m.in[j].p <= m.in[j].q.size + 2
    BY <1>3, <1>4, <2>1, KindOf
  <2> QED BY <2>2, <2>3
<1>10. AllChunks(m.in, k) => 2 + m.body + k <= m.req.size + 2
  <2>1. CASE k = 0
    BY <1>3, <1>5, <2>1
  <2>2. CASE k # 0
    <3>1. k \in 1 .. Len(m.in)
      BY <1>3, <2>2
    <3> QED BY <1>9, <3>1
  <2> QED BY <2>1, <2>2
<1>11. CASE AllChunks(m.in, k) /\ d.body = m.body + k /\ Awaiting(m, d)
  <2>1. ReadsBody(d) /\ d.out = m.out
    BY <1>11 DEF Awaiting, Fresh, ReadsBody
  <2>2. d.out = m.out \o <<>> /\ <<>> \in Seq(OutTok) /\ \A j \in 1 .. Len(<<>>) : ~<<>>[j].eom
    BY <1>3, <2>1, NoTokens
  <2>3. 2 + m.body + k <= m.req.size + 2
    <3>1. AllChunks(m.in, k)
      BY <1>11
    <3> QED BY <1>10, <3>1
  <2>4. 2 + m.body + k <= LastPos(m.req)
    BY <1>3, <1>6, <2>3
  <2> QED BY <1>1, <1>11, <2>1, <2>2, <2>4, OnwardAdds
<1>12. CASE /\ k >= 1 /\ m.in[k].t = "last" /\ AllChunks(m.in, k - 1)
            /\ AnsweredWith(m, d, 200)
  <2>1. k \in 1 .. Len(m.in) /\ m.in[k].t # "line"
    BY <1>3, <1>12
  <2>2. m.in[k].p = 2 + m.body + k /\ m.in[k].q = m.req
    BY <1>8, <1>12, <2>1
  <2>3. m.in[k].p = m.in[k].q.size + 3
    BY <1>3, <1>4, <1>12, <2>1, KindOf
  <2>4. 2 + m.body + k = m.req.size + 3
    BY <2>2, <2>3
  <2>5. 2 + m.body + k = LastPos(m.req) /\ 2 + m.body + k <= LastPos(m.req)
    BY <1>3, <1>6, <2>4
  <2>6. /\ Ahead(d.in, a, 1) = [req |-> m.num + 1, pos |-> 1]
        /\ Gapless(d.in, a) /\ Settled(s, d.in) /\ d.in \in Seq(InTok)
        /\ InOrder(d.in, requests, a.req) /\ TalliedTo(s, m.num - 1) /\ m.num >= 1
    BY <1>1, <2>5, HalfwayOn
  <2> QED BY <1>2, <1>12, <2>6, AnsweredAdds
<1>13. CASE /\ k < Len(m.in) /\ AllChunks(m.in, k) /\ m.in[k + 1].t # "last"
            /\ m.in[k + 1].t = "chunk" => m.body + k + 1 > MaxBody
  <2>1. k + 1 \in 1 .. Len(m.in) /\ (k + 1) - 1 = k /\ k + 1 \in 1 .. Len(m.in)
    BY <1>3, <1>13
  <2>2. 2 + m.body + k <= LastPos(m.req) /\ 2 + m.body + k # LastPos(m.req)
    <3>1. AllChunks(m.in, k)
      BY <1>13
    <3>2. 2 + m.body + k <= m.req.size + 2
      BY <1>10, <3>1
    <3> QED BY <1>3, <1>6, <3>2
  <2>3. Ahead(Consume(m.in, k), a, 1) = [req |-> m.num, pos |-> 3 + m.body + k]
    BY <2>2, HalfwayOn
  <2>4. Ahead(Consume(m.in, k), a, 1) = Place(m.in[k + 1])
    <3>1. Ahead(Consume(m.in, k), a, 1) = Ahead(m.in, a, k + 1)
      BY <1>3, AheadConsumed
    <3> QED BY <2>1, <3>1 DEF Ahead
  <2>5. m.in[k + 1].r = m.num /\ m.in[k + 1].p = 3 + m.body + k
    BY <2>3, <2>4 DEF Place
  <2>6. m.in[k + 1].q = m.req
    BY <1>2, <2>1, <2>5 DEF InOrder
  <2>7. m.in[k + 1].t = TokenKind(m.req, m.in[k + 1].p) /\ m.in[k + 1].p \in Nat \ {0}
    BY <1>3, <1>4, <2>1, <2>6, KindOf
  <2>8. m.in[k + 1].p > 2
    BY <1>3, <2>5
  <2>9. CASE m.in[k + 1].p <= m.req.size + 2
    <3>1. m.in[k + 1].t = "chunk"
      BY <1>3, <1>5, <2>7, <2>8, <2>9, KindAt
    <3>2. 3 + m.body + k <= m.req.size + 2
      BY <2>5, <2>9
    <3>3. m.body + k + 1 <= m.req.size
      BY <1>3, <3>2
    <3>4. m.body + k + 1 > MaxBody
      BY <1>13, <3>1
    <3> QED BY <1>3, <1>7, <3>3, <3>4
  <2>10. CASE m.in[k + 1].p > m.req.size + 2
    <3>1. m.in[k + 1].t = "last"
      BY <1>3, <1>5, <1>7, <2>7, <2>8, <2>10, KindAt
    <3> QED BY <1>13, <3>1
  <2> QED BY <1>3, <2>7, <2>9, <2>10
<1> QED BY <1>1, <1>11, <1>12, <1>13

\* So is the invitation to send a body.
LEMMA InviteAdds ==
  ASSUME NEW m, NEW s, NEW a, NEW requests, Halfway(m, s, a, requests), m.body = 0,
         m.state \in {"READ_BODY", "READ_CHUNK"}, NEW d, Invites(m, d)
  PROVE  Adds(m.out, d, s, a)
<1>1. m.in \in Seq(InTok) /\ m.req \in Request
  BY ConnFields DEF Halfway
<1>2. /\ 0 \in 0 .. Len(m.in) /\ Consume(m.in, 0) = m.in /\ 0 + 0 = 0
      /\ 2 + m.body + 0 <= LastPos(m.req)
  BY <1>1, LastPlace DEF Consume
<1>3. ReadsBody(d) /\ d.num = m.num /\ d.req = m.req /\ d.body = m.body + 0 /\ d.in = m.in
  BY DEF Invites, ReadsBody
<1>4. PICK tok \in OutTok : ~tok.eom /\ d.out = m.out \o <<tok>>
  BY DEF Invites
<1>5. <<tok>> \in Seq(OutTok) /\ \A j \in 1 .. Len(<<tok>>) : ~<<tok>>[j].eom
  BY <1>4
<1> QED BY <1>2, <1>3, <1>4, <1>5, OnwardAdds

\* The next block of a client without mistakes is "line end", of the request
\* that is to be answered next, and nothing in it is refused.
LEMMA NextBlock ==
  ASSUME NEW cn \in Conn, cn.state = "READ_HEADERS", ~cn.want_continue, HasBlock(cn.in),
         NEW s \in Seq(OutTok), NEW a \in Cursor, NEW requests, AllFine(requests),
         InOrder(cn.in, requests, a.req), Coherent(cn.in), Exactly(cn, s, cn.in, a),
         requests \in Seq(Request)
  PROVE  LET n == NextAnswer(cn, s)
         IN  /\ n \in 1 .. Len(requests) /\ BlockEnd(cn.in) = 2 /\ 2 \in 1 .. Len(cn.in)
             /\ BlockToken(cn.in, 2).r = n /\ BlockToken(cn.in, 2).q = requests[n]
             /\ WellFormed(cn.in, 2) /\ ~Refusable(cn.in, 2)
             /\ Ahead(cn.in, a, 3) = Beyond([req |-> n, pos |-> 2], requests[n])
<1> DEFINE in == cn.in
           n == NextAnswer(cn, s)
           q == requests[n]
           e == BlockEnd(in)
<1>1. in \in Seq(InTok) /\ Len(in) \in Nat /\ MaxBody \in Nat
  BY ConnFields
<1>2. e \in 1 .. Len(in) /\ IsBlockEnd(in, e)
  BY <1>1, BlockEndFirst
<1>3. /\ Gapless(in, a) /\ Ahead(in, a, 1) = [req |-> n, pos |-> 1]
  BY DEF Exactly, Awaits, NextPlace, ReadsBody
<1> HIDE DEF in, n, e
<1>4. 1 \in 1 .. Len(in) /\ in # <<>>
  BY <1>1, <1>2
<1>5. in[1].r = n /\ in[1].p = 1
  BY <1>3, <1>4 DEF Ahead, Place
<1>6. n \in 1 .. Len(requests) /\ in[1].q = q /\ q \in Request /\ n \in Nat
  <2>1. InOrder(in, requests, a.req)
    BY DEF in
  <2>2. n \in 1 .. Len(requests) /\ in[1].q = q
    BY <1>4, <1>5, <2>1 DEF InOrder
  <2> QED BY <2>2
<1> HIDE DEF q
<1>7. LastPos(q) \in Nat /\ LastPos(q) >= 2
  BY <1>6, LastPlace
<1>8. Coherent(in)
  BY DEF in
<1>9. in[1].t = "line"
  BY <1>1, <1>4, <1>5, <1>8, KindOf
<1>10. e # 1 /\ 2 \in 1 .. Len(in) /\ e \in Nat
  <2>1. in[e].t \in {"end", "last"}
    BY <1>2 DEF IsBlockEnd, Terminators
  <2>2. e # 1
    BY <1>9, <2>1
  <2> QED BY <1>1, <1>2, <2>2
<1>11. Ahead(in, a, 2) = [req |-> n, pos |-> 2]
  <2>1. 2 \in 2 .. (Len(in) + 1) /\ 1 < 2 /\ in[1].p + (2 - 1) = 2
    BY <1>1, <1>5, <1>10
  <2> QED BY <1>3, <1>4, <1>5, <1>6, <1>7, <2>1 DEF Gapless
<1>12. in[2].p = 2
  BY <1>10, <1>11 DEF Ahead, Place
<1>13. in[2].t = "end"
  BY <1>1, <1>8, <1>10, <1>12, KindOf
<1>14. e = 2
  <2>1. \A k \in 1 .. (2 - 1) : k = 1
    OBVIOUS
  <2>2. IsBlockEnd(in, 2)
    BY <1>9, <1>13, <2>1 DEF IsBlockEnd, Terminators
  <2> QED BY <1>1, <1>10, <2>2, BlockEndUnique DEF e
<1>15. HasRequestLine(in, 2) /\ BlockToken(in, 2) = in[1]
  <2>1. 2 - 1 = 1 /\ 2 >= 2 /\ \A k \in 1 .. (2 - 2) : in[k].t = "data"
    OBVIOUS
  <2> QED BY <1>9, <1>13, <2>1 DEF HasRequestLine, BlockToken
<1>16. q.fault = "none" /\ q.method # "UNKNOWN" /\ q.size <= MaxBody /\ q.size \in Nat
  BY <1>6, LastPlace DEF AllFine, q
<1>17. WellFormed(in, 2)
  BY <1>6, <1>15, <1>16 DEF WellFormed
<1>18. ~Refusable(in, 2)
  <2>1. ~UnknownMethod(in, 2)
    BY <1>6, <1>15, <1>16 DEF UnknownMethod
  <2>2. ~(q.size > MaxBody)
    BY <1>1, <1>16
  <2> QED BY <1>6, <1>15, <1>16, <1>17, <2>1, <2>2 DEF Refusable
<1>19. Ahead(in, a, 3) = Beyond([req |-> n, pos |-> 2], q)
  <2>1. 0 # LastPos(q) /\ 0 + 1 = 1 /\ 0 + 2 = 2 /\ 2 + 1 = 3 /\ 0 + 2 <= LastPos(q)
    BY <1>7
  <2>2. Ahead(in, a, 1) = Beyond([req |-> n, pos |-> 0], q)
    <3>1. Beyond([req |-> n, pos |-> 0], q)
            = IF 0 = LastPos(q) THEN [req |-> n + 1, pos |-> 1] ELSE [req |-> n, pos |-> 0 + 1]
      BY BeyondAt
    <3> QED BY <1>3, <2>1, <3>1
  <2>3. 2 \in 0 .. Len(in)
    BY <1>10
  <2>4. Ahead(in, a, 2 + 1) = Beyond([req |-> n, pos |-> 0 + 2], q)
    BY <1>1, <1>3, <1>6, <2>1, <2>2, <2>3, Advance
  <2> QED BY <2>1, <2>4
<1>20. BlockToken(in, 2).r = n /\ BlockToken(in, 2).q = q
  BY <1>5, <1>6, <1>15
<1> QED BY <1>6, <1>10, <1>14, <1>17, <1>18, <1>19, <1>20 DEF in, n, e, q

\* Of the body that follows it, what has come is read.
LEMMA HeadersAdds ==
  ASSUME NEW cn \in Conn, cn.state = "READ_HEADERS", ~cn.want_continue, HasBlock(cn.in),
         NEW s \in Seq(OutTok), NEW a \in Cursor, NEW requests, AllFine(requests),
         InOrder(cn.in, requests, a.req), Tracks(cn, cn.in, a, requests, TRUE),
         Exactly(cn, s, cn.in, a), requests \in Seq(Request),
         NEW d, HeadersRead(cn, d)
  PROVE  Adds(cn.out, d, s, a)
<1> DEFINE n == NextAnswer(cn, s)
<1>1. /\ n \in 1 .. Len(requests) /\ BlockEnd(cn.in) = 2 /\ 2 \in 1 .. Len(cn.in)
      /\ BlockToken(cn.in, 2).r = n /\ BlockToken(cn.in, 2).q = requests[n]
      /\ WellFormed(cn.in, 2) /\ ~Refusable(cn.in, 2)
      /\ Ahead(cn.in, a, 3) = Beyond([req |-> n, pos |-> 2], requests[n])
  BY NextBlock DEF Tracks
<1>2. PICK m \in Conn : Begun(cn, 2, m) /\ Follow(m, d)
  BY <1>1 DEF HeadersRead
<1>3. /\ ~m.want_continue /\ m.body = 0 /\ m.in = Consume(cn.in, 2)
      /\ InOrder(m.in, requests, a.req)
      /\ Opened(m) => Tracks(m, m.in, a, requests, TRUE)
  <2> DEFINE more == TRUE
             l == a.req
  <2>1. Beginning(cn, 2, m, a, requests, more, l)
    BY <1>1, <1>2 DEF Beginning
  <2> HIDE DEF more, l
  <2>2. /\ ~m.want_continue /\ m.body = 0 /\ m.in = Consume(cn.in, 2)
        /\ InOrder(m.in, requests, l)
        /\ Opened(m) => Tracks(m, m.in, a, requests, more)
    BY <2>1, BegunOpened
  <2> QED BY <2>2 DEF more, l
<1>4. m.num = n /\ m.req = requests[n] /\ m.out = cn.out
  BY <1>1, <1>2 DEF Begun
<1>5. Settled(s, cn.in) /\ Gapless(cn.in, a) /\ TalliedTo(s, n - 1)
  BY DEF Exactly, Awaits
<1>6. cn.in \in Seq(InTok) /\ m.in \in Seq(InTok)
  BY ConnFields
<1> HIDE DEF n
<1>7. Settled(s, m.in) /\ Gapless(m.in, a)
  <2>1. s \o <<>> = s /\ <<>> \in Seq(OutTok) /\ 2 \in 0 .. Len(cn.in)
    BY <1>1
  <2>2. Settled(s, Consume(cn.in, 2))
    BY <1>5, <1>6, <2>1, TallyCut
  <2>3. Gapless(Consume(cn.in, 2), a)
    BY <1>5, <1>6, <2>1, GaplessConsumed
  <2> QED BY <1>3, <2>2, <2>3
<1>8. Ahead(m.in, a, 1) = Beyond([req |-> n, pos |-> 2], m.req)
  <2>1. 2 \in 0 .. Len(cn.in) /\ 1 \in Nat \ {0} /\ 2 + 1 = 3
    BY <1>1
  <2>2. Ahead(m.in, a, 1) = Ahead(cn.in, a, 2 + 1)
    BY <1>3, <1>6, <2>1, AheadConsumed
  <2> QED BY <1>1, <1>4, <2>1, <2>2
<1>9. m.num >= 1 /\ m.num \in Nat /\ m.num - 1 = n - 1 /\ m.num \in 1 .. Len(requests)
  BY <1>1, <1>4
<1>10. CASE m.req.body = "none" /\ Gets(m, d, 200)
  <2>1. d.in = m.in /\ AnsweredWith(m, d, 200)
    BY <1>10 DEF Gets
  <2>2. LastPos(m.req) = 2
    BY <1>10, LastPlace, ConnFields
  <2>3. Ahead(d.in, a, 1) = [req |-> m.num + 1, pos |-> 1]
    <3>1. Beyond([req |-> n, pos |-> 2], m.req)
            = IF 2 = LastPos(m.req) THEN [req |-> n + 1, pos |-> 1]
              ELSE [req |-> n, pos |-> 2 + 1]
      BY BeyondAt
    <3> QED BY <1>4, <1>8, <2>1, <2>2, <3>1
  <2>4. Adds(m.out, d, s, a)
    BY <1>3, <1>4, <1>5, <1>6, <1>7, <1>9, <2>1, <2>3, AnsweredAdds
  <2> QED BY <1>4, <2>4
<1>11. CASE Opened(m) /\ (Invites(m, d) \/ BodyRead(m, d))
  <2>1. /\ ReadsBody(m) /\ m.state \in {"READ_BODY", "READ_CHUNK"}
    BY <1>11 DEF Opened, ReadsBody
  <2>2. NextAnswer(m, s) = n /\ NextPlace(m, s) = Beyond([req |-> n, pos |-> 2], m.req)
    <3>1. 2 + m.body = 2
      BY <1>3
    <3> QED BY <1>4, <2>1, <3>1 DEF NextAnswer, NextPlace, Reached
  <2>3. Halfway(m, s, a, requests)
    BY <1>3, <1>4, <1>5, <1>7, <1>8, <1>9, <2>1, <2>2 DEF Halfway, Exactly, Awaits
  <2>4. Tracks(m, m.in, a, requests, TRUE) /\ BodyCounted(m, requests)
    BY <1>3, <1>11 DEF Tracks
  <2>5. CASE Invites(m, d)
    BY <1>3, <1>4, <2>1, <2>3, <2>5, InviteAdds
  <2>6. CASE BodyRead(m, d) /\ m.state = "READ_BODY"
    <3>1. LengthRead(m, d)
      BY <2>6 DEF BodyRead
    <3> QED BY <1>3, <1>4, <2>3, <2>4, <2>6, <3>1, LengthAdds
  <2>7. CASE BodyRead(m, d) /\ m.state = "READ_CHUNK"
    <3>1. ChunkRead(m, d)
      BY <2>7 DEF BodyRead
    <3> QED BY <1>3, <1>4, <2>3, <2>4, <2>7, <3>1, ChunkAdds
  <2> QED BY <1>11, <2>1, <2>5, <2>6, <2>7
<1> QED BY <1>2, <1>10, <1>11 DEF Follow, Opened, BodyRead

\* Whatever a read makes of the input of a client without mistakes, its
\* requests are answered in their order, once each.
LEMMA ReadAdds ==
  ASSUME NEW cn \in Conn, cn.state # "WRITE", Fresh(cn), NEW s \in Seq(OutTok),
         NEW a \in Cursor, NEW requests \in Seq(Request), AllFine(requests),
         InOrder(cn.in, requests, a.req), Tracks(cn, cn.in, a, requests, TRUE),
         Exactly(cn, s, cn.in, a)
  PROVE  Adds(cn.out, ReadStep(cn), s, a)
<1>1. SUFFICES ASSUME NEW d, ReadOutcome(cn, d)
               PROVE  Adds(cn.out, d, s, a)
  BY ReadStepCount DEF ReadOutcome
<1>2. ~cn.want_continue /\ cn.out \in Seq(OutTok)
  BY ConnFields DEF Fresh
<1>3. CASE d = cn
  <2>1. cn.out = cn.out \o <<>> /\ s \o <<>> = s /\ <<>> \in Seq(OutTok)
    BY <1>2
  <2> QED BY <1>3, <2>1 DEF Adds
<1>4. CASE cn.state = "READ_HEADERS" /\ HasBlock(cn.in) /\ HeadersRead(cn, d)
  BY <1>2, <1>4, HeadersAdds
<1>5. CASE \/ cn.state = "READ_BODY" /\ LengthRead(cn, d)
           \/ cn.state = "READ_CHUNK" /\ ChunkRead(cn, d)
  <2>1. ReadsBody(cn) /\ BodyCounted(cn, requests)
    BY <1>5 DEF ReadsBody, Tracks
  <2>2. Halfway(cn, s, a, requests)
    BY <2>1 DEF Halfway, BodyCounted
  <2> QED BY <1>2, <1>5, <2>1, <2>2, LengthAdds, ChunkAdds
<1> QED BY <1>1, <1>3, <1>4, <1>5 DEF ReadOutcome

\* A read only uses tokens from the front of the input.
LEMMA ReadUses ==
  ASSUME NEW cn \in Conn, cn.state # "WRITE", Fresh(cn)
  PROVE  \E k \in 0 .. Len(cn.in) : ReadStep(cn).in = Consume(cn.in, k)
<1>1. cn.in \in Seq(InTok) /\ Len(cn.in) \in Nat
  BY ConnFields
<1>2. SUFFICES ASSUME NEW d, \/ d = cn
                             \/ HasBlock(cn.in) /\ HeadersOutcome(cn, d)
                             \/ BodyOutcome(cn, d)
               PROVE  Uses(cn, d)
  BY ReadStepOutcome DEF Uses
<1>3. CASE d.in = cn.in
  BY <1>3, UsesNone
<1>4. CASE HasBlock(cn.in) /\ \E k \in BlockEnd(cn.in) .. Len(cn.in) : d.in = Consume(cn.in, k)
  <2>1. BlockEnd(cn.in) \in 1 .. Len(cn.in)
    BY <1>1, <1>4, BlockEndFirst
  <2>2. PICK k \in BlockEnd(cn.in) .. Len(cn.in) : d.in = Consume(cn.in, k)
    BY <1>4
  <2>3. k \in 0 .. Len(cn.in)
    BY <1>1, <2>1
  <2> QED BY <2>2, <2>3 DEF Uses
<1>5. CASE BodyOutcome(cn, d)
  BY <1>5 DEF BodyOutcome
<1> QED BY <1>2, <1>3, <1>4, <1>5 DEF HeadersOutcome

-----------------------------------------------------------------------------
(* One client through a step.                                              *)

\* What WireInv says of one client whose body does not overrun.
WireSound(c) == InputSound(c) /\ (Faultless(c) => ExactSound(c))

\* The record d counts as cn does, and waits for the same place.
SameCount(cn, d, requests) ==
  /\ BodyCounted(d, requests)
  /\ ReadsBody(d) /\ BodyState(d) = "READ_CHUNK" =>
       ReadsBody(cn) /\ BodyState(cn) = "READ_CHUNK" /\ Reached(d) = Reached(cn)

SameNext(cn, d, s) ==
  NextAnswer(d, s) = NextAnswer(cn, s) /\ NextPlace(d, s) = NextPlace(cn, s)

\* It may stand for cn.
LEMMA CountKept ==
  ASSUME NEW cn, NEW d, NEW requests, NEW in, NEW a, NEW s, NEW more, NEW still,
         Tracks(cn, in, a, requests, more), SameCount(cn, d, requests), still => more
  PROVE  Tracks(d, in, a, requests, still)
<1>1. Resumes(cn, Ahead(in, a, 1)) /\ Reached(d) = Reached(cn) => Resumes(d, Ahead(in, a, 1))
  BY DEF Resumes
<1> QED BY <1>1 DEF Tracks, SameCount

\* A record that differs in what has been sent or received only.
LEMMA CountAlike ==
  ASSUME NEW cn, NEW d, NEW requests, BodyCounted(cn, requests),
         d.num = cn.num, d.req = cn.req, d.state = cn.state, d.next_state = cn.next_state,
         d.want_continue = cn.want_continue, d.out = cn.out,
         d.body = cn.body, d.body_remaining = cn.body_remaining, NEW s
  PROVE  SameCount(cn, d, requests) /\ SameNext(cn, d, s)
<1>1. /\ ReadsBody(d) <=> ReadsBody(cn)
      /\ Queued(d) <=> Queued(cn)
      /\ BodyState(d) = BodyState(cn) /\ Reached(d) = Reached(cn)
  BY DEF ReadsBody, Queued, BodyState, Reached
<1>2. BodyCounted(d, requests)
  BY <1>1 DEF BodyCounted
<1>3. Floor(d, s) = Floor(cn, s)
  BY <1>1 DEF Floor
<1>4. NextAnswer(d, s) = NextAnswer(cn, s)
  BY <1>1, <1>3 DEF NextAnswer
<1>5. NextPlace(d, s) = NextPlace(cn, s)
  BY <1>1, <1>4 DEF NextPlace
<1> QED BY <1>1, <1>2, <1>4, <1>5 DEF SameCount, SameNext

\* A record whose 100 Continue has been sent.
LEMMA CountResumed ==
  ASSUME NEW cn \in Conn, NEW requests, BodyCounted(cn, requests), cn.want_continue,
         cn.next_state \in {"READ_BODY", "READ_CHUNK"}, NEW s
  PROVE  SameCount(cn, ResumeBody(cn), requests) /\ SameNext(cn, ResumeBody(cn), s)
<1> DEFINE d == ResumeBody(cn)
<1>1. /\ d.num = cn.num /\ d.req = cn.req /\ d.state = cn.next_state /\ ~d.want_continue
      /\ d.body = cn.body /\ d.body_remaining = cn.body_remaining
  BY DEF ResumeBody, Conn
<1> HIDE DEF d
<1>2. /\ ReadsBody(d) /\ ReadsBody(cn) /\ ~Queued(d) /\ d.state # "READ_HEADERS"
      /\ BodyState(d) = BodyState(cn) /\ Reached(d) = Reached(cn)
  BY <1>1 DEF ReadsBody, Queued, BodyState, Reached
<1>3. BodyCounted(d, requests)
  BY <1>1, <1>2 DEF BodyCounted
<1>4. NextAnswer(d, s) = NextAnswer(cn, s) /\ NextPlace(d, s) = NextPlace(cn, s)
  BY <1>1, <1>2 DEF NextAnswer, NextPlace
<1>5. SameCount(cn, d, requests) /\ SameNext(cn, d, s)
  BY <1>2, <1>3, <1>4 DEF SameCount, SameNext
<1> QED BY <1>5 DEF d

\* A record that is made ready for the next request.
LEMMA CountReset ==
  ASSUME NEW cn, NEW d, NEW requests, ~ReadsBody(cn),
         d.state = "READ_HEADERS", ~d.want_continue, d.body = 0, NEW s
  PROVE  SameCount(cn, d, requests) /\ SameNext(cn, d, s)
<1>1. ~ReadsBody(d) /\ ~Queued(d)
  BY DEF ReadsBody, Queued
<1>2. BodyCounted(d, requests)
  BY <1>1, MaxBodyAssumption DEF BodyCounted
<1>3. Floor(d, s) = Floor(cn, s)
  BY <1>1 DEF Floor
<1>4. NextAnswer(d, s) = NextAnswer(cn, s)
  BY <1>1, <1>3 DEF NextAnswer
<1>5. NextPlace(d, s) = NextPlace(cn, s)
  BY <1>1, <1>4 DEF NextPlace
<1> QED BY <1>1, <1>2, <1>4, <1>5 DEF SameCount, SameNext

\* A step that leaves stream, input and place of a client alone.
LEMMA WireKept ==
  ASSUME NEW c \in Clients, WireSound(c), Stream(c)' = Stream(c), Input(c)' = Input(c),
         UNCHANGED <<at[c], script[c]>>,
         peer'[c] # "rst" => peer[c] # "rst", fd'[c] # "closed" => fd[c] # "closed",
         SameCount(conn[c], conn'[c], script[c]), SameNext(conn[c], conn'[c], Stream(c))
  PROVE  WireSound(c)'
<1> DEFINE cn == conn[c]
           d == conn'[c]
           s == Stream(c)
           in == Input(c)
           a == at[c]
           requests == script[c]
           more == peer[c] # "rst"
           still == peer'[c] # "rst"
<1>1. Tracks(d, in, a, requests, still)
  <2>1. Tracks(cn, in, a, requests, more) /\ SameCount(cn, d, requests) /\ (still => more)
    BY DEF WireSound, InputSound
  <2> HIDE DEF cn, d, in, a, requests, more, still
  <2> QED BY <2>1, CountKept
<1>2. InputSound(c)'
  <2>1. (Done(c) <=> Done(c)') /\ Sending(c)' = Sending(c)
    BY DEF Done, Sending
  <2> QED BY <1>1, <2>1 DEF WireSound, InputSound
<1>3. ASSUME ExactSound(c) PROVE ExactSound(c)'
  <2>1. Settled(s, in) /\ (fd'[c] # "closed" /\ still => Awaits(cn, s, in, a))
    BY <1>3 DEF ExactSound
  <2>2. Awaits(cn, s, in, a) => Awaits(d, s, in, a)
    BY DEF Awaits, SameNext
  <2> QED BY <2>1, <2>2 DEF ExactSound
<1>4. Faultless(c)' => Faultless(c)
  BY DEF Faultless
<1> QED BY <1>2, <1>3, <1>4 DEF WireSound

\* A client that a step does not concern.
LEMMA WireUnmoved ==
  ASSUME NEW c \in Clients, WireSound(c), Unmoved(c)
  PROVE  WireSound(c)'
<1>1. Stream(c)' = Stream(c) /\ Input(c)' = Input(c)
  BY Untouched
<1>2. conn'[c] = conn[c]
  BY DEF Unmoved
<1>3. BodyCounted(conn[c], script[c])
  BY DEF WireSound, InputSound, Tracks
<1>4. SameCount(conn[c], conn'[c], script[c]) /\ SameNext(conn[c], conn'[c], Stream(c))
  BY <1>2, <1>3 DEF SameCount, SameNext
<1> QED BY <1>1, <1>4, WireKept DEF Unmoved

\* A client connects, half-closes, or reads.
LEMMA WireStays ==
  ASSUME TypeOK, NEW c \in Clients, WireSound(c), UNCHANGED conn,
         Connect(c) \/ LeaveEof(c) \/ Receive(c)
  PROVE  WireSound(c)'
<1>1. peer \in [Clients -> {"absent", "connected", "eof", "rst"}]
  BY DEF TypeOK, NetTypeOK
<1>2. /\ UNCHANGED <<fd, at, script>> /\ (peer'[c] # "rst" => peer[c] # "rst")
      /\ Stream(c)' = Stream(c) /\ Input(c)' = Input(c)
  <2>1. CASE Connect(c) \/ LeaveEof(c)
    <3>1. /\ UNCHANGED <<fd, at, script, rx, tx, got>>
          /\ peer'[c] # "rst" /\ peer[c] # "rst"
      BY <1>1, <2>1 DEF Connect, LeaveEof
    <3> QED BY <3>1 DEF Stream, Unsent, Input
  <2>2. CASE Receive(c)
    BY <2>2, ReceiveShape
  <2> QED BY <2>1, <2>2
<1>3. BodyCounted(conn[c], script[c])
  BY DEF WireSound, InputSound, Tracks
<1>4. SameCount(conn[c], conn'[c], script[c]) /\ SameNext(conn[c], conn'[c], Stream(c))
  BY <1>3 DEF SameCount, SameNext
<1> QED BY <1>2, <1>4, WireKept

\* accept_new_clients: what came before accept() waits for the first request.
LEMMA WireAccepted ==
  ASSUME TypeOK, NEW c \in Clients, WireSound(c), Accept, c = Head(backlog), fd[c] = "none",
         conn[c] = BlankConn
  PROVE  WireSound(c)'
<1> DEFINE d == ConnReset([BlankConn EXCEPT !.last_activity = now], NextId)
<1>1. /\ conn \in [Clients -> Conn] /\ fd \in [Clients -> {"none", "open", "closed"}]
  BY DEF TypeOK, NetTypeOK
<1>2. /\ conn'[c] = d /\ fd'[c] = "open"
      /\ UNCHANGED <<rx, tx, got, peer, at, script>>
  BY <1>1 DEF Accept
<1>3. /\ d.in = <<>> /\ d.out = <<>> /\ d.out_off = 0 /\ d.state = "READ_HEADERS"
      /\ ~d.want_continue /\ d.body = 0
  BY DEF ConnReset, BlankConn
<1>4. /\ conn[c].in = <<>> /\ conn[c].out = <<>> /\ conn[c].out_off = 0
      /\ ~ReadsBody(conn[c])
  BY DEF BlankConn, ReadsBody
<1> HIDE DEF d
<1>5. Stream(c)' = Stream(c) /\ Input(c)' = Input(c)
  BY <1>2, <1>3, <1>4 DEF Stream, Unsent, Input
<1>6. SameCount(conn[c], conn'[c], script[c]) /\ SameNext(conn[c], conn'[c], Stream(c))
  <2>1. SameCount(conn[c], d, script[c]) /\ SameNext(conn[c], d, Stream(c))
    BY <1>3, <1>4, CountReset
  <2> QED BY <1>2, <2>1
<1> QED BY <1>2, <1>5, <1>6, WireKept

\* flush_conn and on_flush_complete, where the connection stays open.
LEMMA WireFlushed ==
  ASSUME TypeOK, ContinueSound, NEW c \in Clients, c = f, WireSound(c), FlushStays,
         conn[c].keep_alive => Queued(conn[c])
  PROVE  WireSound(c)'
<1> DEFINE cn == conn[c]
           d == conn'[c]
           s == Stream(c)
           requests == script[c]
<1>1. /\ Stream(c)' = s /\ Input(c)' = Input(c) /\ UNCHANGED <<fd, peer, at, script>>
      /\ FlushLeaves(cn, d)
  BY FlushShape
<1>2. cn \in Conn /\ BodyCounted(cn, requests)
  BY DEF TypeOK, WireSound, InputSound, Tracks
<1>3. cn.want_continue => cn.next_state \in {"READ_BODY", "READ_CHUNK"}
  BY DEF ContinueSound
<1> HIDE DEF s, cn, d, requests
<1>4. SameCount(cn, d, requests) /\ SameNext(cn, d, s)
  <2>1. CASE d = [cn EXCEPT !.out_off = @ + Flushed]
    <3>1. /\ d.num = cn.num /\ d.req = cn.req /\ d.state = cn.state
          /\ d.next_state = cn.next_state /\ d.want_continue = cn.want_continue
          /\ d.out = cn.out /\ d.body = cn.body /\ d.body_remaining = cn.body_remaining
      BY <1>2, <2>1 DEF Conn
    <3> QED BY <1>2, <3>1, CountAlike
  <2>2. CASE cn.want_continue /\ d = ResumeBody(cn)
    BY <1>2, <1>3, <2>2, CountResumed
  <2>3. CASE ~cn.want_continue /\ cn.keep_alive /\ d = ConnReset(cn, NextId)
    <3>1. d.state = "READ_HEADERS" /\ ~d.want_continue /\ d.body = 0
      BY <2>3 DEF ConnReset, BlankConn
    <3>2. ~ReadsBody(cn)
      BY <2>3 DEF cn, Queued, ReadsBody
    <3> QED BY <3>1, <3>2, CountReset
  <2> QED BY <1>1, <2>1, <2>2, <2>3 DEF FlushLeaves
<1> QED BY <1>1, <1>4, WireKept DEF s, cn, d, requests

\* What is left of a stream and of an input that are cut off.
LEMMA WireCut ==
  ASSUME TypeOK, TypeOK', NEW c \in Clients, WireSound(c), UNCHANGED <<at[c], script[c]>>,
         NEW t \in Seq(OutTok), Stream(c) = Stream(c)' \o t,
         fd'[c] = "closed" \/ peer'[c] = "rst",
         Tracks(conn'[c], Input(c)', at[c], script[c], peer'[c] # "rst"),
         \A s \in Seq(OutTok) : Settled(s, Input(c)) => Settled(s, Input(c)')
  PROVE  WireSound(c)'
<1> DEFINE s == Stream(c)'
           in == Input(c)
<1>1. InputSound(c)'
  <2>1. (Done(c) <=> Done(c)') /\ Sending(c)' = Sending(c)
    BY DEF Done, Sending
  <2> QED BY <2>1 DEF WireSound, InputSound
<1>2. s \in Seq(OutTok) /\ in \in Seq(InTok) /\ Len(in) \in Nat
  BY StreamAfterType, StreamType
<1>3. ASSUME ExactSound(c)
      PROVE  ExactSound(c)'
  <2>1. Settled(s \o t, in)
    BY <1>3 DEF ExactSound
  <2>2. Settled(s, in)
    <3> HIDE DEF s, in
    <3>1. Settled(s, Consume(in, 0)) /\ 0 \in 0 .. Len(in)
      BY <1>2, <2>1, TallyCut
    <3>2. Consume(in, 0) = in
      BY <1>2 DEF Consume
    <3> QED BY <3>1, <3>2
  <2>3. Settled(s, Input(c)')
    BY <1>2, <2>2
  <2> QED BY <2>3 DEF ExactSound
<1>4. Faultless(c)' => Faultless(c)
  BY DEF Faultless
<1> QED BY <1>1, <1>3, <1>4 DEF WireSound

\* Fewer tokens wait, so fewer can be of a request that has been answered.
LEMMA SettledConsumed ==
  ASSUME NEW s, NEW in \in Seq(InTok), NEW k \in 0 .. Len(in), Settled(s, in)
  PROVE  Settled(s, Consume(in, k))
<1> DEFINE u == Consume(in, k)
<1>1. Len(u) = Len(in) - k /\ \A j \in 1 .. (Len(in) - k) : u[j] = in[k + j]
  BY ConsumeElements
<1> HIDE DEF u
<1>2. ASSUME NEW j \in 1 .. Len(s), NEW m \in 1 .. Len(u), s[j].eom
      PROVE  s[j].r < u[m].r
  <2>1. u[m] = in[k + m] /\ k + m \in 1 .. Len(in)
    BY <1>1
  <2> QED BY <1>2, <2>1 DEF Settled
<1>3. Settled(s, u)
  BY <1>2 DEF Settled
<1> QED BY <1>3 DEF u

\* Behind the first of two parts comes the second.
LEMMA ConsumeFront ==
  ASSUME NEW s \in Seq(InTok), NEW t \in Seq(InTok)
  PROVE  Consume(s \o t, Len(s)) = t /\ Len(s) \in 0 .. Len(s \o t)
<1> DEFINE w == s \o t
           u == Consume(w, Len(s))
<1>1. /\ w \in Seq(InTok) /\ Len(w) = Len(s) + Len(t) /\ Len(s) \in Nat /\ Len(t) \in Nat
      /\ \A j \in 1 .. Len(s) + Len(t) : w[j] = IF j <= Len(s) THEN s[j] ELSE t[j - Len(s)]
  BY ConcatProperties
<1> HIDE DEF w
<1>2. /\ u \in Seq(InTok) /\ Len(u) = Len(w) - Len(s)
      /\ \A j \in 1 .. (Len(w) - Len(s)) : u[j] = w[Len(s) + j]
  <2>1. Len(s) \in 0 .. Len(w)
    BY <1>1
  <2> QED BY <1>1, <2>1, ConsumeElements
<1> HIDE DEF u
<1>3. Len(u) = Len(t)
  BY <1>1, <1>2
<1>4. ASSUME NEW j \in 1 .. Len(u)
      PROVE  u[j] = t[j]
  <2>1. u[j] = w[Len(s) + j] /\ Len(s) + j \in 1 .. Len(s) + Len(t)
    BY <1>1, <1>2, <1>3
  <2>2. ~(Len(s) + j <= Len(s)) /\ (Len(s) + j) - Len(s) = j
    BY <1>1
  <2> QED BY <1>1, <2>1, <2>2
<1>5. u = t
  BY <1>2, <1>3, <1>4, SeqEqual
<1> QED BY <1>1, <1>5 DEF u, w

\* conn_close: the input that recv() has not returned is all that is left.
LEMMA ClosedTracks ==
  ASSUME TypeOK, NEW c \in Clients, WireSound(c), conn'[c] = BlankConn,
         UNCHANGED <<rx, peer, at, script>>
  PROVE  /\ Tracks(conn'[c], Input(c)', at[c], script[c], peer'[c] # "rst")
         /\ \A s \in Seq(OutTok) : Settled(s, Input(c)) => Settled(s, Input(c)')
<1> DEFINE in == Input(c)
           d == conn'[c]
           k == Len(conn[c].in)
           a == at[c]
           more == peer[c] # "rst"
<1>1. in \in Seq(InTok) /\ conn[c].in \in Seq(InTok) /\ rx[c] \in Seq(InTok)
  BY StreamType
<1>2. Consume(in, k) = rx[c] /\ k \in 0 .. Len(in)
  <2> DEFINE s == conn[c].in
             t == rx[c]
  <2>1. s \in Seq(InTok) /\ t \in Seq(InTok) /\ in = s \o t /\ k = Len(s)
    BY <1>1 DEF Input
  <2> HIDE DEF s, t, in, k
  <2>2. Consume(s \o t, Len(s)) = t /\ Len(s) \in 0 .. Len(s \o t)
    BY <2>1, ConsumeFront
  <2> QED BY <2>1, <2>2 DEF t
<1>3. Input(c)' = rx[c]
  <2>1. <<>> \o rx[c] = rx[c]
    BY <1>1, ConcatEmptySeq
  <2> QED BY <2>1 DEF Input, BlankConn
<1>4. d.state = "READ_HEADERS" /\ ~d.want_continue /\ d.body = 0
  BY DEF BlankConn
<1>5. Coherent(in) /\ (more => GoesOn(in, a))
  BY DEF WireSound, InputSound, Tracks
<1> HIDE DEF in, k, a, more, d
<1>6. Coherent(Consume(in, k)) /\ (more => GoesOn(Consume(in, k), a))
  BY <1>1, <1>2, <1>5, CoherentConsumed, GoesOnConsumed
<1>7. ~ReadsBody(d) /\ BodyCounted(d, script[c])
  BY <1>4, MaxBodyAssumption DEF ReadsBody, BodyCounted, Queued
<1>8. Tracks(d, rx[c], a, script[c], more)
  BY <1>2, <1>6, <1>7 DEF Tracks
<1>9. \A s \in Seq(OutTok) : Settled(s, in) => Settled(s, rx[c])
  BY <1>1, <1>2, SettledConsumed
<1> QED BY <1>3, <1>8, <1>9 DEF in, a, more, d

\* conn_close, from wherever it is called.
LEMMA WireClosed ==
  ASSUME TypeOK, TypeOK', NEW c \in Clients, WireSound(c),
         Gone(c) \/ (ServeFlushClose /\ c = f)
  PROVE  WireSound(c)'
<1>1. /\ fd'[c] = "closed" /\ conn'[c] = BlankConn /\ UNCHANGED <<rx, peer, at, script>>
      /\ \E t \in Seq(OutTok) : Stream(c) = Stream(c)' \o t
  <2>1. CASE Gone(c)
    BY <2>1, DropShape DEF Gone
  <2>2. CASE ServeFlushClose /\ c = f
    <3>1. <<>> \in Seq(OutTok) /\ Stream(c) \o <<>> = Stream(c)
      BY StreamType, ConcatEmptySeq
    <3>2. /\ Stream(c)' = Stream(c) /\ UNCHANGED <<rx, peer, at, script>>
          /\ fd'[c] = "closed" /\ conn'[c] = BlankConn
      BY <2>2, FlushCloseShape
    <3> QED BY <3>1, <3>2
  <2> QED BY <2>1, <2>2
<1>2. PICK t \in Seq(OutTok) : Stream(c) = Stream(c)' \o t
  BY <1>1
<1>3. /\ Tracks(conn'[c], Input(c)', at[c], script[c], peer'[c] # "rst")
      /\ \A s \in Seq(OutTok) : Settled(s, Input(c)) => Settled(s, Input(c)')
  BY <1>1, ClosedTracks
<1> QED BY <1>1, <1>2, <1>3, WireCut

\* What is left of an input that is cut short is tracked as before.
LEMMA TracksPrefix ==
  ASSUME NEW cn, NEW s \in Seq(InTok), NEW t \in Seq(InTok), NEW a, NEW requests, NEW more,
         Tracks(cn, s \o t, a, requests, more), NEW still, still => more
  PROVE  /\ Tracks(cn, s \o t, a, requests, still)
         /\ ~still => Tracks(cn, s, a, requests, still)
<1>1. Coherent(s \o t)
  BY DEF Tracks
<1>2. Coherent(s)
  BY <1>1, CoherentPrefix
<1>3. ASSUME s # <<>>
      PROVE  Ahead(s, a, 1) = Ahead(s \o t, a, 1) /\ s \o t # <<>>
  <2>1. /\ Len(s \o t) = Len(s) + Len(t) /\ Len(s) \in Nat /\ Len(t) \in Nat
        /\ \A j \in 1 .. Len(s) + Len(t) : (s \o t)[j] = IF j <= Len(s) THEN s[j] ELSE t[j - Len(s)]
    BY ConcatProperties
  <2>2. Len(s) >= 1
    BY <1>3
  <2>3. 1 <= Len(s) /\ 1 <= Len(s \o t) /\ (s \o t)[1] = s[1]
    BY <2>1, <2>2
  <2> QED BY <2>3 DEF Ahead
<1> QED BY <1>2, <1>3 DEF Tracks

\* RST, or a reset after close.
LEMMA WireLost ==
  ASSUME TypeOK, TypeOK', NEW c \in Clients, WireSound(c), UNCHANGED conn,
         fd[c] # "open" => conn[c] = BlankConn, LeaveRst(c) \/ ResetAfterClose(c)
  PROVE  WireSound(c)'
<1>1. /\ UNCHANGED <<fd, at, script>>
      /\ rx'[c] = rx[c] \/ (rx'[c] = <<>> /\ peer'[c] = "rst")
      /\ peer'[c] = "rst" \/ (peer' = peer /\ fd[c] = "closed")
      /\ \E t \in Seq(OutTok) : Stream(c) = Stream(c)' \o t
  BY LostShape
<1>2. PICK t \in Seq(OutTok) : Stream(c) = Stream(c)' \o t
  BY <1>1
<1> DEFINE cn == conn[c]
           s == cn.in
           u == rx[c]
           a == at[c]
           requests == script[c]
           more == peer[c] # "rst"
           still == peer'[c] # "rst"
<1>3. s \in Seq(InTok) /\ u \in Seq(InTok) /\ s \o u \in Seq(InTok)
  BY StreamType DEF Input
<1>4. Tracks(cn, s \o u, a, requests, more) /\ (still => more)
  BY <1>1 DEF WireSound, InputSound, Input
<1>5. Input(c) = s \o u /\ Input(c)' = s \o rx'[c] /\ s \o <<>> = s
  BY <1>3, ConcatEmptySeq DEF Input
<1>6. \/ Input(c)' = s \o u
      \/ ~still /\ Input(c)' = s
  BY <1>1, <1>5
<1>7. Tracks(cn, Input(c)', a, requests, still)
  <2> DEFINE in == Input(c)'
  <2>1. \/ in = s \o u
        \/ ~still /\ in = s
    BY <1>6
  <2> HIDE DEF in, cn, s, u, a, requests, more, still
  <2>2. /\ Tracks(cn, s \o u, a, requests, still)
        /\ ~still => Tracks(cn, s, a, requests, still)
    BY <1>3, <1>4, TracksPrefix
  <2>3. Tracks(cn, in, a, requests, still)
    BY <2>1, <2>2
  <2> QED BY <2>3 DEF in
<1>8. ASSUME NEW o \in Seq(OutTok), Settled(o, Input(c))
      PROVE  Settled(o, Input(c)')
  <2>1. Settled(o, s \o u)
    BY <1>5, <1>8
  <2>2. Settled(o, s)
    <3> HIDE DEF s, u
    <3>1. /\ Len(s \o u) = Len(s) + Len(u) /\ Len(s) \in Nat /\ Len(u) \in Nat
          /\ \A j \in 1 .. Len(s) + Len(u) :
               (s \o u)[j] = IF j <= Len(s) THEN s[j] ELSE u[j - Len(s)]
      BY <1>3, ConcatProperties
    <3>2. ASSUME NEW m \in 1 .. Len(s)
          PROVE  m \in 1 .. Len(s \o u) /\ (s \o u)[m] = s[m]
      BY <3>1
    <3> QED BY <2>1, <3>2 DEF Settled
  <2> QED BY <1>6, <2>1, <2>2
<1>9. Tracks(conn'[c], Input(c)', at[c], script[c], peer'[c] # "rst")
  BY <1>7
<1>10. fd'[c] = "closed" \/ peer'[c] = "rst"
  BY <1>1
<1> QED BY <1>1, <1>2, <1>8, <1>9, <1>10, WireCut

\* What a client sends next is of a request that has not been answered.
LEMMA NotYet ==
  ASSUME NEW cn \in Conn, NEW s \in Seq(OutTok), NEW in \in Seq(InTok), NEW a \in Cursor,
         NEW requests, InOrder(in, requests, a.req), Awaits(cn, s, in, a),
         NEW j \in 1 .. Len(s), s[j].eom
  PROVE  s[j].r < a.req
<1>1. s[j].r \in Nat /\ a.req \in Nat /\ cn.num \in Nat
  <2>1. s[j] \in OutTok
    OBVIOUS
  <2> QED BY <2>1, ConnFields DEF OutTok, Cursor
<1>2. s[j].r <= NextAnswer(cn, s) - 1
  BY DEF Awaits, TalliedTo
<1>3. Ahead(in, a, 1).req <= a.req
  <2>1. CASE 1 <= Len(in)
    BY <2>1 DEF Ahead, Place, InOrder
  <2>2. CASE ~(1 <= Len(in))
    BY <1>1, <2>2 DEF Ahead
  <2> QED BY <2>1, <2>2
<1>4. Ahead(in, a, 1) = NextPlace(cn, s)
  BY DEF Awaits
<1>5. CASE ReadsBody(cn)
  <2>1. NextAnswer(cn, s) = cn.num /\ NextPlace(cn, s) = Beyond(Reached(cn), cn.req)
    BY <1>5 DEF NextAnswer, NextPlace
  <2>2. NextPlace(cn, s).req \in {cn.num, cn.num + 1}
    BY <2>1 DEF Beyond, Reached
  <2>3. s[j].r <= cn.num - 1
    BY <1>2, <2>1
  <2>4. cn.num <= a.req
    <3>1. NextPlace(cn, s).req <= a.req
      BY <1>3, <1>4
    <3> QED BY <1>1, <2>2, <3>1
  <2> QED BY <1>1, <2>3, <2>4
<1>6. CASE ~ReadsBody(cn)
  <2>1. NextPlace(cn, s).req = NextAnswer(cn, s)
    BY <1>6 DEF NextPlace
  <2>2. NextAnswer(cn, s) \in Int
    <3>1. s # <<>> /\ s[Len(s)] \in OutTok
      OBVIOUS
    <3>2. s[Len(s)].r \in Nat
      BY <3>1 DEF OutTok
    <3> QED BY <1>6, <3>1, <3>2 DEF NextAnswer, Floor
  <2> QED BY <1>1, <1>2, <1>3, <1>4, <2>1, <2>2
<1> QED BY <1>5, <1>6

\* The place of the first token that waits does not change when another is sent.
LEMMA AheadSent ==
  ASSUME NEW in \in Seq(InTok), NEW a \in Cursor, NEW tok \in InTok,
         tok.r = a.req, tok.p = a.pos, NEW b
  PROVE  Ahead(Append(in, tok), b, 1) = Ahead(in, a, 1)
<1> DEFINE u == Append(in, tok)
<1>1. /\ Len(u) = Len(in) + 1 /\ Len(in) \in Nat /\ u[Len(in) + 1] = tok
      /\ \A j \in 1 .. Len(in) : u[j] = in[j]
  BY AppendProperties
<1> HIDE DEF u
<1>2. Ahead(u, b, 1) = Place(u[1])
  BY <1>1 DEF Ahead
<1>3. CASE 1 <= Len(in)
  <2>1. u[1] = in[1]
    BY <1>1, <1>3
  <2> QED BY <1>2, <1>3, <2>1 DEF Ahead, u
<1>4. CASE ~(1 <= Len(in))
  <2>1. u[1] = tok
    BY <1>1, <1>4
  <2>2. Place(tok) = a
    BY CursorParts DEF Place
  <2> QED BY <1>2, <1>4, <2>1, <2>2 DEF Ahead, u
<1> QED BY <1>3, <1>4

\* A token that is sent goes on where the sender has come to.
LEMMA SentTracks ==
  ASSUME NEW cn, NEW in \in Seq(InTok), NEW a \in Cursor, NEW requests, NEW more, more,
         Tracks(cn, in, a, requests, more), NEW tok \in InTok, tok.r = a.req, tok.p = a.pos,
         tok.t = TokenKind(tok.q, tok.p), tok.p <= LastPos(tok.q)
  PROVE  Tracks(cn, Append(in, tok), Beyond(a, tok.q), requests, more)
<1>1. Coherent(in) /\ GoesOn(in, a)
  BY DEF Tracks
<1>2. Coherent(Append(in, tok)) /\ GoesOn(Append(in, tok), Beyond(a, tok.q))
  BY <1>1, CoherentSent
<1>3. Ahead(Append(in, tok), Beyond(a, tok.q), 1) = Ahead(in, a, 1)
  BY AheadSent
<1> QED BY <1>2, <1>3 DEF Tracks

\* Nor is it of a request that has been answered.
LEMMA SentExactly ==
  ASSUME NEW cn \in Conn, NEW s \in Seq(OutTok), NEW in \in Seq(InTok), NEW a \in Cursor,
         NEW requests, InOrder(in, requests, a.req), Exactly(cn, s, in, a),
         NEW tok \in InTok, tok.r = a.req, tok.p = a.pos, tok.q = requests[a.req],
         tok.p <= LastPos(tok.q)
  PROVE  Exactly(cn, s, Append(in, tok), Beyond(a, tok.q))
<1> DEFINE u == Append(in, tok)
           b == Beyond(a, tok.q)
<1>1. /\ Len(u) = Len(in) + 1 /\ Len(in) \in Nat /\ u[Len(in) + 1] = tok
      /\ \A j \in 1 .. Len(in) : u[j] = in[j]
  BY AppendProperties
<1>2. Settled(s, in) /\ Awaits(cn, s, in, a)
  BY DEF Exactly
<1>3. Gapless(u, b)
  <2>1. Gapless(in, a)
    BY <1>2 DEF Awaits
  <2>2. \A j \in 1 .. Len(in) : in[j].r = tok.r => in[j].q = tok.q
    BY DEF InOrder
  <2> QED BY <2>1, <2>2, GaplessSent
<1>4. Ahead(u, b, 1) = Ahead(in, a, 1)
  BY AheadSent
<1> HIDE DEF u, b
<1>5. Settled(s, u)
  <2>1. ASSUME NEW j \in 1 .. Len(s), NEW k \in 1 .. Len(u), s[j].eom
        PROVE  s[j].r < u[k].r
    <3>1. CASE k <= Len(in)
      <4>1. k \in 1 .. Len(in) /\ u[k] = in[k]
        BY <1>1, <3>1
      <4> QED BY <1>2, <2>1, <4>1 DEF Settled
    <3>2. CASE ~(k <= Len(in))
      <4>1. u[k] = tok
        BY <1>1, <3>2
      <4>2. s[j].r < a.req
        BY <1>2, <2>1, NotYet
      <4> QED BY <4>1, <4>2
    <3> QED BY <3>1, <3>2
  <2> QED BY <1>2, <2>1 DEF Settled
<1>6. Awaits(cn, s, u, b)
  BY <1>2, <1>3, <1>4 DEF Awaits
<1> QED BY <1>5, <1>6 DEF Exactly, u, b

\* A client sends the next token of its script.
LEMMA WireSent ==
  ASSUME TypeOK, TypeOK', NEW c \in Clients, ClientSound(c), WireSound(c), Send(c), UNCHANGED conn
  PROVE  WireSound(c)'
<1> DEFINE tok == NextToken(c)
           q == Sending(c)
           in == Input(c)
           s == Stream(c)
           a == at[c]
           cn == conn[c]
           requests == script[c]
           more == peer[c] # "rst"
<1>1. /\ tok \in InTok /\ tok.r = a.req /\ tok.q = q /\ tok.p = a.pos
      /\ tok.t = TokenKind(tok.q, tok.p)
  BY SendType DEF Send, NextToken
<1>2. /\ rx' = [rx EXCEPT ![c] = Append(@, tok)]
      /\ at' = [at EXCEPT ![c] = Beyond(@, q)]
      /\ UNCHANGED <<fd, tx, got, peer, script>>
      /\ peer[c] = "connected" /\ fd[c] # "closed" /\ ~Done(c)
  BY DEF Send
<1>3. rx \in [Clients -> Seq(InTok)] /\ at \in [Clients -> Cursor] /\ a \in Cursor
  BY DEF TypeOK, NetTypeOK
<1>4. /\ cn \in Conn /\ s \in Seq(OutTok) /\ in \in Seq(InTok)
      /\ conn[c].in \in Seq(InTok) /\ rx[c] \in Seq(InTok) /\ requests \in Seq(Request)
  BY StreamType
<1>5. InOrder(in, requests, a.req) /\ q = requests[a.req]
  BY InputSent DEF Sending
<1>6. Tracks(cn, in, a, requests, more) /\ a.pos <= LastPos(q) /\ more
  BY <1>2 DEF WireSound, InputSound
<1>7. /\ at'[c] = Beyond(a, q) /\ Stream(c)' = s
      /\ Input(c)' = Append(in, tok)
  <2> HIDE DEF tok, q
  <2>1. rx'[c] = Append(rx[c], tok) /\ at'[c] = Beyond(a, q)
    BY <1>2, <1>3
  <2>2. conn[c].in \o Append(rx[c], tok) = Append(conn[c].in \o rx[c], tok)
    <3> DEFINE v == conn[c].in
               t == rx[c]
    <3>1. v \in Seq(InTok) /\ t \in Seq(InTok) /\ tok \in InTok
      BY <1>1, <1>4
    <3> HIDE DEF v, t
    <3>2. v \o Append(t, tok) = Append(v \o t, tok)
      BY <3>1, AppendBehind
    <3> QED BY <3>2 DEF v, t
  <2>3. Input(c)' = Append(in, tok)
    BY <2>1, <2>2 DEF Input
  <2>4. Stream(c)' = s
    BY <1>2 DEF Stream, Unsent
  <2> QED BY <2>1, <2>3, <2>4
<1>8. at'[c].pos <= IF Done(c)' THEN 1 ELSE LastPos(Sending(c)')
  <2>1. /\ a.req \in Nat /\ a.pos \in Nat /\ a = [req |-> a.req, pos |-> a.pos]
        /\ a.req \in 1 .. Len(requests) /\ q \in Request
    <3>1. a.req \in Nat \ {0} /\ a.pos \in Nat
      BY <1>3 DEF Cursor
    <3>2. a.req \in 1 .. Len(requests)
      BY <1>2, <1>4, <3>1 DEF Done
    <3> QED BY <1>3, <1>4, <1>5, <3>1, <3>2, CursorParts
  <2>2. LastPos(q) \in Nat
    BY <2>1, LastPlace
  <2>3. CASE a.pos = LastPos(q)
    <3>1. at'[c] = [req |-> a.req + 1, pos |-> 1]
      BY <1>7, <2>3 DEF Beyond
    <3>2. a.req + 1 <= Len(requests) => LastPos(requests[a.req + 1]) \in Nat
                                        /\ LastPos(requests[a.req + 1]) >= 2
      <4>1. a.req + 1 <= Len(requests) => requests[a.req + 1] \in Request
        BY <1>4, <2>1
      <4> QED BY <4>1, LastPlace
    <3>3. at'[c].req = a.req + 1 /\ at'[c].pos = 1 /\ script'[c] = requests
      BY <1>2, <3>1
    <3>4. Done(c)' \/ (a.req + 1 <= Len(requests) /\ Sending(c)' = requests[a.req + 1])
      BY <1>4, <2>1, <3>3 DEF Done, Sending
    <3> QED BY <3>2, <3>3, <3>4
  <2>4. CASE a.pos # LastPos(q)
    <3>1. at'[c].req = a.req /\ at'[c].pos = a.pos + 1
      BY <1>3, <1>7, <2>4 DEF Beyond, Cursor
    <3>2. ~Done(c)' /\ Sending(c)' = q
      BY <1>2, <3>1 DEF Done, Sending
    <3> QED BY <1>6, <2>1, <2>2, <2>4, <3>1, <3>2
  <2> QED BY <2>3, <2>4
<1> HIDE DEF tok, q, in, s, a, cn, requests, more
<1>9. Tracks(cn, Append(in, tok), Beyond(a, q), requests, more)
  BY <1>1, <1>3, <1>4, <1>6, SentTracks
<1>10. InputSound(c)'
  <2>1. Tracks(conn'[c], Input(c)', at'[c], script'[c], peer'[c] # "rst")
    BY <1>2, <1>7, <1>9 DEF cn, requests, more
  <2> QED BY <1>8, <2>1 DEF InputSound
<1>11. ASSUME ExactSound(c)
       PROVE  ExactSound(c)'
  <2>1. Exactly(cn, s, in, a)
    BY <1>2, <1>11 DEF ExactSound, Exactly, cn, s, in, a
  <2>2. Exactly(cn, s, Append(in, tok), Beyond(a, q))
    BY <1>1, <1>3, <1>4, <1>5, <1>6, <2>1, SentExactly
  <2> QED BY <1>7, <2>2 DEF ExactSound, Exactly, cn
<1>12. Faultless(c)' => Faultless(c)
  BY <1>2 DEF Faultless
<1> QED BY <1>10, <1>11, <1>12 DEF WireSound

\* A client without mistakes never has to give up a body.
LEMMA WireSkipped ==
  ASSUME TypeOK, NEW c \in Clients, ClientSound(c), WireSound(c), SkipBody(c), UNCHANGED conn
  PROVE  WireSound(c)'
<1> DEFINE in == Input(c)
           s == Stream(c)
           a == at[c]
           cn == conn[c]
           requests == script[c]
           more == peer[c] # "rst"
           b == at'[c]
<1>1. /\ at' = [at EXCEPT ![c] = [req |-> @.req + 1, pos |-> 1]]
      /\ UNCHANGED <<fd, rx, tx, got, peer, script>>
      /\ peer[c] = "connected" /\ ~Done(c) /\ Answered(c, a.req)
  BY DEF SkipBody
<1>2. /\ at \in [Clients -> Cursor] /\ a \in Cursor /\ a.req \in Nat
      /\ got[c] \in Seq(OutTok)
  BY DEF TypeOK, NetTypeOK, Cursor
<1>3. /\ cn \in Conn /\ s \in Seq(OutTok) /\ in \in Seq(InTok) /\ requests \in Seq(Request)
      /\ tx[c] \in Seq(OutTok) /\ Unsent(c) \in Seq(OutTok)
  BY StreamType
<1>4. b = [req |-> a.req + 1, pos |-> 1] /\ Stream(c)' = s /\ Input(c)' = in
  <2>1. b = [req |-> a.req + 1, pos |-> 1]
    BY <1>1, <1>2
  <2> QED BY <1>1, <2>1 DEF Stream, Unsent, Input
<1>5. b.pos <= IF Done(c)' THEN 1 ELSE LastPos(Sending(c)')
  <2>1. b.pos = 1 /\ b.req = a.req + 1 /\ script'[c] = requests
    BY <1>1, <1>4
  <2>2. Done(c)' \/ Sending(c)' \in Request
    BY <1>2, <1>3, <2>1 DEF Done, Sending
  <2>3. Done(c)' \/ (LastPos(Sending(c)') \in Nat /\ LastPos(Sending(c)') >= 2)
    <3> DEFINE q == Sending(c)'
    <3>1. Done(c)' \/ q \in Request
      BY <2>2
    <3> HIDE DEF q
    <3>2. Done(c)' \/ (LastPos(q) \in Nat /\ LastPos(q) >= 2)
      BY <3>1, LastPlace
    <3> QED BY <3>2 DEF q
  <2> QED BY <2>1, <2>3
<1>6. Tracks(cn, in, b, requests, more)
  <2>1. Tracks(cn, in, a, requests, more)
    BY DEF WireSound, InputSound
  <2>2. b.pos = 1
    BY <1>4
  <2> HIDE DEF in, s, a, cn, requests, more, b
  <2>3. GoesOn(in, b)
    BY <2>2 DEF GoesOn
  <2>4. Resumes(cn, Ahead(in, a, 1)) => Resumes(cn, Ahead(in, b, 1))
    BY <2>2 DEF Resumes, Ahead
  <2> QED BY <2>1, <2>2, <2>3, <2>4 DEF Tracks, Resumes, Ahead
<1>7. InputSound(c)'
  BY <1>1, <1>4, <1>5, <1>6 DEF InputSound
<1>8. ASSUME ExactSound(c)
      PROVE  ExactSound(c)'
  <2>1. Settled(s, in)
    BY <1>8 DEF ExactSound
  <2>2. fd'[c] # "closed" => FALSE
    <3> SUFFICES ASSUME fd'[c] # "closed"
                 PROVE  FALSE
      OBVIOUS
    <3>1. Awaits(cn, s, in, a)
      BY <1>1, <1>8 DEF ExactSound
    <3>2. PICK j \in 1 .. Len(got[c]) : got[c][j].r = a.req /\ got[c][j].eom
      BY <1>1 DEF Answered
    <3>3. j \in 1 .. Len(s) /\ s[j] = got[c][j]
      <4> DEFINE o == got[c]
                 t == tx[c]
                 u == Unsent(c)
      <4>1. o \in Seq(OutTok) /\ t \in Seq(OutTok) /\ u \in Seq(OutTok) /\ s = o \o t \o u
            /\ j \in 1 .. Len(o)
        BY <1>2, <1>3, <3>2 DEF Stream
      <4> HIDE DEF o, t, u, s
      <4>2. /\ o \o t \in Seq(OutTok) /\ Len(o \o t) = Len(o) + Len(t)
            /\ Len(o) \in Nat /\ Len(t) \in Nat /\ (o \o t)[j] = o[j]
        BY <4>1, JoinedElements
      <4>3. j \in 1 .. Len(o \o t)
        BY <4>1, <4>2
      <4>4. /\ Len((o \o t) \o u) = Len(o \o t) + Len(u) /\ Len(u) \in Nat
            /\ ((o \o t) \o u)[j] = (o \o t)[j]
        BY <4>1, <4>2, <4>3, JoinedElements
      <4>5. j \in 1 .. Len((o \o t) \o u)
        BY <4>2, <4>3, <4>4
      <4> QED BY <4>1, <4>2, <4>4, <4>5 DEF o
    <3>4. InOrder(in, requests, a.req)
      BY InputSent
    <3>5. s[j].eom /\ s[j].r = a.req
      BY <3>2, <3>3
    <3> HIDE DEF in, s, a, cn, requests, more, b
    <3>6. s[j].r < a.req
      BY <1>2, <1>3, <3>1, <3>3, <3>4, <3>5, NotYet
    <3> QED BY <1>2, <3>5, <3>6
  <2> QED BY <1>4, <2>1, <2>2 DEF ExactSound
<1>9. Faultless(c)' => Faultless(c)
  BY <1>1 DEF Faultless
<1> QED BY <1>7, <1>8, <1>9 DEF WireSound

\* conn_read and http_read_step.
LEMMA WireRead ==
  ASSUME TypeOK, ContinueSound, NEW c \in Clients, c = f, ClientSound(c), WireSound(c),
         fd[c] = "open", ReadOn, ~Overran(Received, ReadStep(Received))
  PROVE  WireSound(c)'
<1> DEFINE cn == conn[c]
           s == Stream(c)
           r == Received
           d == ReadStep(r)
           a == at[c]
           in == Input(c)
           requests == script[c]
           more == peer[c] # "rst"
<1>1. /\ conn \in [Clients -> Conn] /\ rx \in [Clients -> Seq(InTok)] /\ a \in Cursor
      /\ cn \in Conn
  BY DEF TypeOK, NetTypeOK
<1>2. /\ s \in Seq(OutTok) /\ in \in Seq(InTok) /\ requests \in Seq(Request)
  BY StreamType
<1>3. /\ conn'[c] = d /\ rx'[c] = <<>> /\ UNCHANGED <<fd, tx, got, peer, at, script>>
  BY <1>1 DEF ReadOn
<1>4. /\ r \in Conn /\ r.state = cn.state /\ r.out = cn.out /\ r.out_off = cn.out_off
      /\ r.want_continue = cn.want_continue /\ r.next_state = cn.next_state
  BY ReceivedType
<1>5. /\ r.in = in /\ r.num = cn.num /\ r.req = cn.req
      /\ r.keep_alive = cn.keep_alive /\ r.streamed = cn.streamed
      /\ r.body = cn.body /\ r.body_remaining = cn.body_remaining
  BY <1>1 DEF Received, Conn, Input
<1> HIDE DEF r
<1>6. IF r.state = "WRITE" THEN d = r ELSE Step(r, d)
  BY <1>4, ReadStepEffect
<1>7. d.out_off = cn.out_off /\ d.in \in Seq(InTok)
  <2>1. d \in Conn /\ d.out_off = cn.out_off
    BY <1>4, <1>6 DEF Step, Answers, Continues, Waits
  <2> QED BY <2>1, ConnFields
<1>8. r.state # "WRITE" => Fresh(r)
  <2>1. cn.streamed \/ cn.keep_alive => Queued(cn)
    BY DEF ClientSound, StreamSound
  <2> QED BY <1>4, <1>5, <2>1 DEF Fresh, Queued, ContinueSound
<1>9. InOrder(in, requests, a.req)
  BY InputSent
<1>10. Tracks(cn, in, a, requests, more)
  BY DEF WireSound, InputSound
<1>11. Input(c)' = d.in
  <2>1. d.in \o <<>> = d.in
    BY <1>7, ConcatEmptySeq
  <2> QED BY <1>3, <2>1 DEF Input
<1>12. ExactSound(c) => Settled(s, in) /\ (more => Exactly(cn, s, in, a))
  BY DEF ExactSound, Exactly
<1>13. Faultless(c) => AllFine(requests)
  BY DEF Faultless, AllFine
<1>14. ASSUME more, NEW toks \in Seq(OutTok), d.out = cn.out \o toks
       PROVE  Stream(c)' = s \o toks
  BY <1>7, <1>14, ReadStream DEF r
<1>15. ~more => Stream(c)' = s
  BY <1>3 DEF Stream, Unsent
<1> HIDE DEF cn, s, a, in, requests, more, d
<1>16. SameCount(cn, r, requests) /\ SameNext(cn, r, s)
  <2>1. BodyCounted(cn, requests)
    BY <1>10 DEF Tracks
  <2> QED BY <1>4, <1>5, <2>1, CountAlike
<1>17. Tracks(r, r.in, a, requests, more)
  BY <1>5, <1>10, <1>16, CountKept
<1>18. Tracks(d, d.in, a, requests, more)
  <2>1. CASE r.state = "WRITE"
    BY <1>6, <1>17, <2>1
  <2>2. CASE r.state # "WRITE"
    <3>1. ~Overran(r, ReadStep(r))
      BY DEF r
    <3> QED BY <1>1, <1>4, <1>5, <1>8, <1>9, <1>17, <2>2, <3>1, ReadTracks DEF d
  <2> QED BY <2>1, <2>2
<1>19. InputSound(c)'
  <2>1. (Done(c) <=> Done(c)') /\ Sending(c)' = Sending(c)
    BY <1>3 DEF Done, Sending
  <2>2. Tracks(conn'[c], Input(c)', at'[c], script'[c], peer'[c] # "rst")
    BY <1>3, <1>11, <1>18 DEF a, requests, more
  <2> QED BY <1>3, <2>1, <2>2 DEF WireSound, InputSound
<1>20. PICK k \in 0 .. Len(in) : d.in = Consume(in, k)
  <2>1. CASE r.state = "WRITE"
    <3>1. d.in = Consume(in, 0) /\ 0 \in 0 .. Len(in)
      BY <1>2, <1>5, <1>6, <2>1 DEF Consume
    <3> QED BY <3>1
  <2>2. CASE r.state # "WRITE"
    BY <1>4, <1>5, <1>8, <2>2, ReadUses DEF d
  <2> QED BY <2>1, <2>2
<1>21. ASSUME ExactSound(c), Faultless(c)
       PROVE  ExactSound(c)'
  <2>1. CASE ~more
    <3>1. Settled(s, d.in)
      BY <1>2, <1>12, <1>20, <1>21, SettledConsumed
    <3> QED BY <1>3, <1>11, <1>15, <2>1, <3>1 DEF ExactSound, more
  <2>2. CASE more
    <3>1. Exactly(r, s, r.in, a)
      BY <1>5, <1>12, <1>16, <1>21, <2>2 DEF Exactly, Awaits, SameNext
    <3>2. Adds(r.out, d, s, a)
      <4>1. CASE r.state = "WRITE"
        <5>1. <<>> \in Seq(OutTok) /\ s \o <<>> = s /\ r.out \o <<>> = r.out
          <6>1. r.out \in Seq(OutTok)
            BY <1>4, ConnFields
          <6> QED BY <1>2, <6>1, ConcatEmptySeq
        <5> QED BY <1>6, <3>1, <4>1, <5>1 DEF Adds
      <4>2. CASE r.state # "WRITE"
        <5>1. AllFine(requests)
          BY <1>13, <1>21
        <5>2. more = TRUE
          BY <2>2 DEF more
        <5>3. Tracks(r, r.in, a, requests, TRUE)
          BY <1>17, <5>2
        <5> QED BY <1>1, <1>2, <1>4, <1>5, <1>8, <1>9, <3>1, <4>2, <5>1, <5>3, ReadAdds DEF d
      <4> QED BY <4>1, <4>2
    <3>3. PICK toks \in Seq(OutTok) : d.out = cn.out \o toks /\ Exactly(d, s \o toks, d.in, a)
      BY <1>4, <3>2 DEF Adds
    <3>4. Stream(c)' = s \o toks
      BY <1>14, <2>2, <3>3
    <3>5. Settled(s \o toks, d.in) /\ Awaits(d, s \o toks, d.in, a)
      BY <3>3 DEF Exactly
    <3> QED BY <1>3, <1>11, <3>4, <3>5 DEF ExactSound, a
  <2> QED BY <2>1, <2>2
<1>22. Faultless(c)' => Faultless(c)
  BY <1>3 DEF Faultless
<1> QED BY <1>19, <1>21, <1>22 DEF WireSound

-----------------------------------------------------------------------------
(* The invariant.                                                          *)

\* WireInv is what WireSound says of every client but one that overruns.
LEMMA WireInvParts == WireInv <=> \A c \in Clients : Overrun(c) \/ WireSound(c)
BY DEF WireInv, WireSound

\* A body that overruns is in a decoder that does not return.
LEMMA OverrunStays ==
  ASSUME LoopBounds, [Next]_vars, NEW c \in Clients, Overrun(c)
  PROVE  Overrun(c)'
<1>1. pc = "spin" /\ conns[i] = c /\ SendsHuge(c)
  BY DEF Overrun, Hung
<1>2. UNCHANGED <<pc, i, conns, script>>
  BY <1>1 DEF Next, Loop, Listen, RenewInterest, Shutdown, Free, PollReady, PollTimeout,
     PollFails, PollInterrupted, Accept, AcceptDone, Serve, ServeIdle, ServeHangup,
     ServeReadEnd, ServeRead, ServeReadHangs, ReadOn, ToRead, ServeFlushFails, ServeFlushPart,
     ServeFlushContinue, ServeFlushKeepAlive, ServeFlushClose, ServeDone, ToFlush, Serving,
     Spin, ReapSlot, ReapDone, Signal, Tick, World, NetStep, Connect, Send, SkipBody, Receive,
     LeaveEof, LeaveRst, ResetAfterClose, vars, netVars, serverVars
<1> QED BY <1>1, <1>2 DEF Overrun, Hung, SendsHuge

\* A read that overruns does not return, and is of a client that sends a size
\* that wraps around.
LEMMA OverrunHangs ==
  ASSUME IndInv, NEW c \in Clients, c = f, ClientSound(c), InputSound(c), Reads,
         Overran(Received, ReadStep(Received))
  PROVE  Overrun(c)'
<1> DEFINE in == Input(c)
<1>1. in \in Seq(InTok) /\ InOrder(in, script[c], at[c].req) /\ Coherent(in)
  BY StreamType, InputSent DEF IndInv, InputSound, Tracks
<1>2. Received.in = in
  BY DEF IndInv, TypeOK, Received, Conn, Input
<1>3. SendsHuge(c)
  BY <1>1, <1>2, HugeSent DEF Overran, SendsHuge
<1>4. MustHang(Received)
  BY DEF MustHang, MidBody, Overran
<1>5. ServeReadHangs
  BY <1>4 DEF Reads, ServeRead
<1>6. pc' = "spin" /\ i' = i /\ conns' = conns /\ script' = script
  BY <1>5 DEF ServeReadHangs, ReadOn
<1> QED BY <1>3, <1>6 DEF Overrun, Hung, SendsHuge, f

\* Initially nothing has been sent, received or answered.
LEMMA InitWire == Init => WireInv
<1> SUFFICES ASSUME Init, NEW c \in Clients
             PROVE  WireSound(c)
  BY WireInvParts
<1> DEFINE a == at[c]
           cn == conn[c]
           requests == script[c]
           more == peer[c] # "rst"
<1>1. /\ fd[c] = "none" /\ rx[c] = <<>> /\ tx[c] = <<>> /\ got[c] = <<>>
      /\ cn = BlankConn /\ a = [req |-> 1, pos |-> 1] /\ requests \in Scripts
  BY DEF Init, NetInit
<1>2. Stream(c) = <<>> /\ Input(c) = <<>>
  <2>1. Consume(<<>>, 0) = <<>>
    BY SubSeqEmpty DEF Consume
  <2> QED BY <1>1, <2>1 DEF Stream, Unsent, Input, BlankConn
<1>3. requests \in Seq(Request) /\ a.req = 1 /\ a.pos = 1
  BY <1>1, ScriptsAssumption
<1>4. cn.state = "READ_HEADERS" /\ ~cn.want_continue /\ cn.body = 0
  BY <1>1 DEF BlankConn
<1> HIDE DEF cn
<1>5. ~ReadsBody(cn) /\ BodyCounted(cn, requests)
  BY <1>4, MaxBodyAssumption DEF ReadsBody, BodyCounted, Queued
<1>6. Tracks(cn, <<>>, a, requests, more)
  BY <1>5 DEF Tracks, Coherent, GoesOn
<1>7. a.pos <= IF Done(c) THEN 1 ELSE LastPos(Sending(c))
  <2>1. Done(c) \/ Sending(c) \in Request
    BY <1>3 DEF Done, Sending
  <2>2. Done(c) \/ (LastPos(Sending(c)) \in Nat /\ LastPos(Sending(c)) >= 2)
    BY <2>1, LastPlace
  <2> QED BY <1>3, <2>2
<1>8. Settled(<<>>, <<>>)
  BY DEF Settled, Tallied
<1>9. Awaits(cn, <<>>, <<>>, a)
  <2>1. NextAnswer(cn, <<>>) = 1
    BY <1>5 DEF NextAnswer, Floor
  <2>2. NextPlace(cn, <<>>) = [req |-> 1, pos |-> 1]
    BY <1>5, <2>1 DEF NextPlace
  <2>3. Ahead(<<>>, a, 1) = a /\ Gapless(<<>>, a) /\ TalliedTo(<<>>, 0)
    BY DEF Ahead, Gapless, TalliedTo
  <2> QED BY <1>1, <2>1, <2>2, <2>3 DEF Awaits
<1> QED BY <1>2, <1>6, <1>7, <1>8, <1>9 DEF WireSound, InputSound, ExactSound, cn

\* Every step keeps WireInv.
LEMMA NextWire == IndInv /\ IndInv' /\ FlowInv /\ WireInv /\ [Next]_vars => WireInv'
<1> SUFFICES ASSUME IndInv, IndInv', FlowInv, WireInv, [Next]_vars, NEW e \in Clients
             PROVE  (Overrun(e) \/ WireSound(e))'
  BY WireInvParts DEF WireInv, WireSound
<1>0. CASE Overrun(e)
  BY <1>0, OverrunStays DEF IndInv
<1>8. CASE Reads /\ e = f /\ Overran(Received, ReadStep(Received)) /\ WireSound(e)
  BY <1>8, FlowInvParts, OverrunHangs DEF WireSound
<1> SUFFICES ASSUME WireSound(e), ~(Reads /\ e = f /\ Overran(Received, ReadStep(Received)))
             PROVE  WireSound(e)'
  BY <1>0, <1>8, WireInvParts
<1>1. /\ TypeOK /\ TypeOK' /\ ContinueSound /\ ClientSound(e)
      /\ (fd[e] # "open" => conn[e] = BlankConn)
      /\ (conn[e].keep_alive => Queued(conn[e]))
  BY FlowInvParts DEF IndInv, ClientSound, StreamSound
<1>2. CASE Unmoved(e)
  BY <1>1, <1>2, WireUnmoved
<1>3. CASE Gone(e) \/ (ServeFlushClose /\ e = f)
  BY <1>1, <1>3, WireClosed
<1>4. CASE Accept /\ e = Head(backlog) /\ fd[e] = "none"
  BY <1>1, <1>4, WireAccepted
<1>5. CASE Reads /\ e = f /\ fd[e] = "open"
  BY <1>1, <1>5, WireRead DEF Reads, ServeRead, ServeReadHangs
<1>6. CASE FlushStays /\ e = f /\ fd[e] = "open"
  BY <1>1, <1>6, WireFlushed
<1>7. CASE NetStep(e) /\ UNCHANGED serverVars
  <2>1. UNCHANGED conn
    BY <1>7 DEF serverVars
  <2>2. CASE Connect(e) \/ LeaveEof(e) \/ Receive(e)
    BY <1>1, <2>1, <2>2, WireStays
  <2>3. CASE Send(e)
    BY <1>1, <2>1, <2>3, WireSent
  <2>4. CASE SkipBody(e)
    BY <1>1, <2>1, <2>4, WireSkipped
  <2>5. CASE LeaveRst(e) \/ ResetAfterClose(e)
    BY <1>1, <2>1, <2>5, WireLost
  <2> QED BY <1>7, <2>2, <2>3, <2>4, <2>5 DEF NetStep
<1> QED BY <1>2, <1>3, <1>4, <1>5, <1>6, <1>7, ClientCases

\* Token by token, the input of a connection goes on where its last answer
\* or the body at hand has come to, and the counters of a body are right
\* (parse_headers, read_body_length, read_body_chunked, conn_reset_for_next).
THEOREM StreamInvariance == Spec => []StreamInv
<1>1. Init => IndInv /\ StreamInv
  <2>1. Init => ReportsSound
    BY DEF Init, ReportsSound
  <2> QED BY <2>1, InitIndInv, InitStream, InitWire DEF StreamInv
<1>2. IndInv /\ StreamInv /\ [Next]_vars => IndInv' /\ StreamInv'
  BY NextIndInv, NextStream, NextWire, NextReports DEF StreamInv
<1> QED BY <1>1, <1>2, PTL DEF Spec

\* No body of a client without mistakes overruns.
LEMMA FineFits ==
  ASSUME NEW c \in Clients, Faultless(c)
  PROVE  ~Overrun(c)
BY DEF Faultless, Overrun, SendsHuge

\* No request is answered twice and none is passed over, for clients without
\* mistakes: what is consumed of the input ends where the request ends.
THEOREM EachAnsweredOnce == Spec => []OneAnswerEach
<1>1. TypeOK /\ WireInv => OneAnswerEach
  <2> SUFFICES ASSUME TypeOK, NEW c \in Clients, Tallied(Stream(c))
               PROVE  LET s == Stream(c)
                          finals == {j \in 1 .. Len(s) : s[j].eom}
                      IN  /\ \A j, k \in finals : s[j].r = s[k].r => j = k
                          /\ \A j \in finals : \A r \in 1 .. s[j].r :
                               \E k \in finals : s[k].r = r
    BY FineFits DEF WireInv, ExactSound, Settled, OneAnswerEach
  <2> DEFINE s == Stream(c)
             finals == {j \in 1 .. Len(s) : s[j].eom}
  <2>1. s \in Seq(OutTok) /\ Tallied(s) /\ Len(s) \in Nat
    BY StreamType
  <2> HIDE DEF s
  <2>2. ASSUME NEW j \in 1 .. Len(s)
        PROVE  s[j].r \in Nat
    <3>1. s[j] \in OutTok
      BY <2>1
    <3> QED BY <3>1 DEF OutTok
  <2>3. ASSUME NEW j \in finals, NEW k \in finals, s[j].r = s[k].r
        PROVE  j = k
    <3>1. ASSUME NEW m \in finals, NEW n \in finals, m < n
          PROVE  s[m].r < s[n].r
      <4>1. m \in 1 .. (n - 1)
        BY <2>1, <3>1
      <4> QED BY <2>1, <4>1 DEF Tallied
    <3>2. ~(j < k) /\ ~(k < j)
      BY <2>2, <2>3, <3>1
    <3> QED BY <2>1, <3>2
  <2>4. ASSUME NEW j \in finals, NEW r \in 1 .. s[j].r
        PROVE  \E k \in finals : s[k].r = r
    <3>1. PICK k \in 1 .. j : s[k].eom /\ s[k].r = r
      BY <2>1 DEF Tallied
    <3>2. k \in finals
      BY <2>1, <3>1
    <3> QED BY <3>1, <3>2
  <2> QED BY <2>3, <2>4 DEF s
<1>2. IndInv /\ WireInv => OneAnswerEach
  BY <1>1 DEF IndInv
<1>3. StreamInv => WireInv
  BY DEF StreamInv
<1> QED BY <1>2, <1>3, Invariance, StreamInvariance, PTL

\* Bytes of the next pipelined request survive, and no others: what is left
\* in c->in is never of a request that has been answered.
THEOREM LeftoverIsOfLaterRequests == Spec => []LeftoverIsNextRequest
<1>1. IndInv /\ WireInv => LeftoverIsNextRequest
  <2> SUFFICES ASSUME TypeOK, NEW c \in Clients, Settled(Stream(c), Input(c)),
                      NEW k \in 1 .. Len(conn[c].in), QueuedFinal(c, conn[c].in[k].r)
               PROVE  FALSE
    BY FineFits DEF IndInv, WireInv, ExactSound, LeftoverIsNextRequest, LeftoverIsNext
  <2> DEFINE s == Stream(c)
             in == conn[c].in
             t == rx[c]
  <2>1. /\ s \in Seq(OutTok) /\ in \in Seq(InTok) /\ t \in Seq(InTok)
        /\ Settled(s, in \o t) /\ k \in 1 .. Len(in)
    BY StreamType DEF Input
  <2>2. PICK j \in 1 .. Len(s) : s[j].r = in[k].r /\ s[j].eom
    BY DEF QueuedFinal
  <2> HIDE DEF s, in, t
  <2>3. k \in 1 .. Len(in \o t) /\ (in \o t)[k] = in[k]
    BY <2>1
  <2>4. s[j].r < in[k].r
    BY <2>1, <2>2, <2>3 DEF Settled
  <2>5. s[j] \in OutTok
    BY <2>1
  <2> QED BY <2>2, <2>4, <2>5 DEF OutTok
<1>2. StreamInv => WireInv
  BY DEF StreamInv
<1> QED BY <1>1, <1>2, Invariance, StreamInvariance, PTL

\* A handler sees the whole body and nothing else, and no body grows beyond
\* MaxBody but one whose chunk size wraps around, which its decoder never
\* returns from (read_body_length, read_body_chunked).
THEOREM HandlersSeeTheBody == Spec => []BodyExact
<1>1. IndInv /\ WireInv => BodyExact
  <2> SUFFICES ASSUME IndInv, WireInv, NEW c \in Clients
               PROVE  LET cn == conn[c]
                      IN  /\ cn.body <= MaxBody \/ Overrun(c)
                          /\ (cn.state = "WRITE" /\ cn.out[Len(cn.out)].code = 200) =>
                               cn.body = IF cn.req.body = "none" THEN 0 ELSE cn.req.size
    BY DEF BodyExact
  <2> DEFINE cn == conn[c]
  <2>0. CASE Overrun(c)
    BY <2>0 DEF IndInv, LoopBounds, Overrun, Hung
  <2>1. CASE BodyCounted(cn, script[c])
    <3> HIDE DEF cn
    <3>1. cn.body <= MaxBody
      BY <2>1 DEF BodyCounted
    <3>2. ASSUME cn.state = "WRITE", cn.out[Len(cn.out)].code = 200
          PROVE  cn.body = Announced(cn.req)
      <4>1. ~cn.want_continue
        BY <2>1, <3>2 DEF BodyCounted
      <4> QED BY <2>1, <3>2, <4>1 DEF BodyCounted, Queued
    <3> QED BY <3>1, <3>2 DEF Announced, cn
  <2> QED BY <2>0, <2>1 DEF WireInv, InputSound, Tracks
<1>2. StreamInv => WireInv
  BY DEF StreamInv
<1> QED BY <1>1, <1>2, Invariance, StreamInvariance, PTL

-----------------------------------------------------------------------------
(* How a connection ends.                                                  *)

\* What is left of a buffer comes last in the stream.
LEMMA UnsentIsLast ==
  ASSUME TypeOK, NEW c \in Clients, peer[c] # "rst", Pending(conn[c]) > 0
  PROVE  Stream(c) # <<>>
<1> DEFINE cn == conn[c]
           u == Unsent(c)
           s == got[c] \o tx[c]
<1>1. cn.out \in Seq(OutTok) /\ cn.out_off \in 0 .. Len(cn.out) /\ Len(cn.out) \in Nat
  BY DEF TypeOK, Conn
<1>2. s \in Seq(OutTok) /\ u \in Seq(OutTok) /\ u = Consume(cn.out, cn.out_off)
  <2>1. s \in Seq(OutTok)
    BY StreamType, Regrouped
  <2> QED BY <2>1, StreamType DEF Unsent
<1>3. Len(u) > 0
  <2>1. Len(Consume(cn.out, cn.out_off)) = Len(cn.out) - cn.out_off
    BY <1>1, ConsumeElements
  <2> QED BY <1>1, <1>2, <2>1 DEF Pending
<1>4. Stream(c) = s \o u
  BY DEF Stream
<1> HIDE DEF s, u
<1>5. Len(s \o u) = Len(s) + Len(u) /\ Len(s) \in Nat /\ Len(u) \in Nat
  BY <1>2
<1>6. Stream(c) # <<>>
  <2>1. Len(s \o u) > 0
    BY <1>3, <1>5
  <2> QED BY <1>4, <2>1
<1> QED BY <1>6

\* The stream of a connection that waits to send an answer ends with it.
LEMMA QueuedEnds ==
  ASSUME TypeOK, WriteHasOutput, NEW c \in Clients, ClientSound(c), fd[c] = "open",
         peer[c] # "rst", Pending(conn[c]) > 0, ~conn[c].want_continue
  PROVE  LastIsEnd(Stream(c))
<1>1. Stream(c) # <<>>
  BY UnsentIsLast
<1>2. Queued(conn[c]) /\ ~ReadsBody(conn[c])
  BY DEF WriteHasOutput, Queued, ReadsBody
<1>3. OutputEnds(conn[c], Stream(c))
  BY DEF ClientSound, StreamSound
<1> QED BY <1>1, <1>2, <1>3 DEF OutputEnds, LastIsEnd

\* on_flush_complete closes a connection whose answer has been handed over.
LEMMA FlushCloseIsClean ==
  ASSUME IndInv, FlowInv, ReportsSound, NEW c \in Clients, c = f, ServeFlushClose
  PROVE  LastIsEnd(got[c] \o tx'[c])
<1> USE DEF IndInv
<1>1. /\ i \in 2 .. Len(pfds) /\ pfds[i].fd = c /\ fd[c] = "open"
      /\ Serve /\ ~ServeDone
  <2>1. Serve /\ ~ServeDone
    BY DEF Serve, ServeFlushClose, ToFlush, Serving, ServeDone, TypeOK
  <2>2. i \in 2 .. Len(pfds) /\ fd[c] = "open"
    BY <2>1, ServedSlotTable DEF TableSound, Parallel
  <2> QED BY <2>1, <2>2, SlotOwner DEF f
<1>2. "OUT" \in pfds[i].revents /\ ~conn[c].want_continue /\ peer[c] # "rst"
  BY DEF ServeFlushClose, ToFlush, Rev
<1>3. Pending(conn[c]) > 0
  BY <1>1, <1>2 DEF ReportsSound, ReportSound
<1>4. LastIsEnd(Stream(c))
  BY <1>1, <1>2, <1>3, FlowInvParts, QueuedEnds
<1>5. Stream(c)' = Stream(c) /\ conn'[c] = BlankConn /\ got' = got
  BY FlushCloseShape DEF ServeFlushClose
<1>6. Stream(c)' = got[c] \o tx'[c] \o <<>>
  <2>1. Consume(<<>>, 0) = <<>>
    BY SubSeqEmpty DEF Consume
  <2>2. Unsent(c)' = <<>>
    BY <1>5, <2>1 DEF Unsent, BlankConn
  <2> QED BY <1>5, <2>2 DEF Stream
<1> DEFINE s == got[c]
           t == tx'[c]
<1>7. s \in Seq(OutTok) /\ t \in Seq(OutTok)
  <2>1. tx' \in [Clients -> Seq(OutTok)]
    BY <1>1, NextType DEF TableSound, TypeOK, NetTypeOK, Next, Loop
  <2> QED BY <2>1, StreamType
<1> HIDE DEF s, t
<1>8. s \o t \in Seq(OutTok) /\ (s \o t) \o <<>> = s \o t
  BY <1>7, Joined
<1> QED BY <1>4, <1>5, <1>6, <1>8 DEF s, t

\* Whoever calls conn_close had a reason a client can see.
LEMMA ClosesCleanly ==
  ASSUME IndInv, FlowInv, ReportsSound, [Next]_vars, NEW c \in Clients, Closes(c)
  PROVE  Leaving(c) \/ Idle(c) \/ LastIsEnd(got[c] \o tx'[c])
<1> USE DEF IndInv
<1>1. fd[c] = "open" /\ fd'[c] = "closed" /\ fd \in [Clients -> {"none", "open", "closed"}]
  BY DEF Closes, TypeOK, NetTypeOK
<1>2. CASE Listen \/ Free \/ Quiet \/ UNCHANGED vars
  BY <1>1, <1>2, QuietTable DEF Listen, Free, netVars, vars
<1>3. CASE Accept
  BY <1>1, <1>3 DEF Accept
<1>4. CASE Serve /\ ~ServeDone
  <2>1. c = f
    BY <1>1, <1>4, ServeTable
  <2>2. CASE ServeHangup
    <3>1. "HUP" \in pfds[i].revents /\ i \in 2 .. Len(pfds)
      BY <1>4, <2>2, ServedSlotTable DEF ServeHangup, Rev, TableSound, Parallel
    <3>2. pfds[i].fd = c
      BY <2>1, <3>1, SlotOwner DEF f
    <3> QED BY <3>1, <3>2 DEF ReportsSound, ReportSound, Leaving
  <2>3. CASE ServeReadEnd \/ ServeFlushFails
    BY <2>1, <2>3 DEF ServeReadEnd, RecvCloses, ServeFlushFails, Leaving
  <2>4. CASE ServeFlushClose
    BY <2>1, <2>4, FlushCloseIsClean
  <2>5. CASE \/ ServeIdle \/ ServeRead \/ ServeReadHangs \/ ServeFlushPart
             \/ ServeFlushContinue \/ ServeFlushKeepAlive
    BY <1>1, <2>5 DEF ServeIdle, ServeRead, ServeReadHangs, ReadOn, ServeFlushPart, ServeFlushContinue,
                      ServeFlushKeepAlive, netVars
  <2> QED BY <1>4, <2>2, <2>3, <2>4, <2>5 DEF Serve
<1>5. CASE ReapSlot
  <2>1. c = f
    BY <1>1, <1>5, ReapTable
  <2>2. CASE Idle(f)
    BY <2>1, <2>2
  <2>3. CASE ~Idle(f)
    BY <1>1, <1>5, <2>3 DEF ReapSlot, netVars
  <2> QED BY <2>2, <2>3
<1>6. CASE \E e \in Clients : NetStep(e) /\ UNCHANGED serverVars
  BY <1>1, <1>6, WorldSockets
<1> QED BY <1>2, <1>3, <1>4, <1>5, <1>6, NextCases

\* The server closes the connection of a client that stays only when it has
\* been idle for too long or has been handed the end of an answer.
THEOREM ClosingIsClean == Spec => CloseIsClean
<1> DEFINE Clean == \A c \in Clients :
                      Closes(c) => Leaving(c) \/ Idle(c) \/ LastIsEnd(got[c] \o tx'[c])
<1>1. IndInv /\ FlowInv /\ ReportsSound /\ [Next]_vars => [Clean]_vars
  BY ClosesCleanly
<1>2. StreamInv => FlowInv /\ ReportsSound
  BY DEF StreamInv
<1>3. IndInv /\ StreamInv /\ [Next]_vars => [Clean]_vars
  BY <1>1, <1>2
<1> HIDE DEF Clean
<1>4. Spec => [][Clean]_vars
  BY <1>3, Invariance, StreamInvariance, PTL DEF Spec
<1> QED BY <1>4 DEF CloseIsClean, Clean

-----------------------------------------------------------------------------
(* Counting the answers of a stream.                                       *)

\* The numbers of a finite set are ranked one by one.
LEMMA Ranking ==
  ASSUME NEW n \in Nat, NEW E \in SUBSET (1 .. n)
  PROVE  /\ IsFiniteSet(E) /\ Cardinality(E) \in Nat
         /\ \A j \in E : Rank(E, j) \in 1 .. Cardinality(E)
         /\ \A j, k \in E : j < k => Rank(E, j) < Rank(E, k)
         /\ \A k \in 1 .. Cardinality(E) : \E j \in E : Rank(E, j) = k
<1> DEFINE Upto(j) == {m \in E : m <= j}
           N == Cardinality(E)
<1>0. E \subseteq Int
  OBVIOUS
<1>1. IsFiniteSet(E) /\ N \in Nat
  <2>1. IsFiniteSet(1 .. n)
    BY FS_Interval
  <2> QED BY <2>1, FS_Subset, FS_CardinalityType
<1>2. \A j : IsFiniteSet(Upto(j)) /\ Rank(E, j) = Cardinality(Upto(j)) /\ Rank(E, j) \in Nat
             /\ Rank(E, j) <= N
  <2> TAKE j
  <2>1. Upto(j) \in SUBSET E
    OBVIOUS
  <2>2. IsFiniteSet(Upto(j)) /\ Cardinality(Upto(j)) <= N
    BY <1>1, <2>1, FS_Subset
  <2> QED BY <2>2, FS_CardinalityType DEF Rank
<1>3. ASSUME NEW j \in E
      PROVE  Rank(E, j) \in 1 .. N
  <2>1. Upto(j) # {}
    OBVIOUS
  <2>2. Cardinality(Upto(j)) # 0
    BY <1>2, <2>1, FS_EmptySet
  <2> HIDE DEF Upto, N
  <2> QED BY <1>1, <1>2, <2>2
<1>4. ASSUME NEW j \in E, NEW k \in E, j < k
      PROVE  Rank(E, j) < Rank(E, k)
  <2>1. /\ \A m \in E : m <= j => m <= k
        /\ k <= k /\ ~(k <= j)
    BY <1>0, <1>4
  <2>2. Upto(j) \in SUBSET Upto(k) /\ k \in Upto(k) /\ k \notin Upto(j)
    BY <2>1
  <2>3. Upto(j) # Upto(k)
    BY <2>2
  <2> HIDE DEF Upto
  <2>4. /\ Cardinality(Upto(j)) <= Cardinality(Upto(k))
        /\ Cardinality(Upto(k)) # Cardinality(Upto(j))
    BY <1>2, <2>2, <2>3, FS_Subset
  <2> QED BY <1>2, <2>4
<1>5. ASSUME NEW k \in 1 .. N
      PROVE  \E j \in E : Rank(E, j) = k
  <2> DEFINE rank == [j \in E |-> Rank(E, j)]
             T == 1 .. N
  <2>1. IsFiniteSet(T) /\ Cardinality(T) = N
    BY <1>1, FS_Interval
  <2>2. rank \in [E -> T]
    BY <1>3
  <2>3. \A a, b \in E : rank[a] = rank[b] => a = b
    <3>1. ASSUME NEW a \in E, NEW b \in E, rank[a] = rank[b]
          PROVE  a = b
      <4>1. Rank(E, a) = Rank(E, b) /\ Rank(E, a) \in Nat
        BY <1>2, <3>1
      <4>2. ~(a < b)
        BY <1>4, <4>1
      <4>3. ~(b < a)
        BY <1>4, <4>1
      <4> QED BY <1>0, <4>2, <4>3
    <3> QED BY <3>1
  <2>4. rank \in Injection(E, T)
    BY <2>2, <2>3 DEF Injection, IsInjective
  <2> HIDE DEF rank, T, N
  <2>5. rank \in Surjection(E, T)
    BY <1>1, <2>1, <2>4, FS_Injection DEF N
  <2>6. k \in T
    BY DEF T
  <2>7. \E j \in E : rank[j] = k
    BY <2>5, <2>6 DEF Surjection
  <2> QED BY <2>7 DEF rank
<1> QED BY <1>1, <1>3, <1>4, <1>5

\* The answers of a stream, in their order.
LEMMA FinalsElements ==
  ASSUME NEW s \in Seq(OutTok)
  PROVE  /\ Ends(s) \in SUBSET (1 .. Len(s))
         /\ Finals(s) \in Seq(Nat) /\ Len(Finals(s)) = Cardinality(Ends(s))
         /\ Len(Finals(s)) \in Nat
         /\ \A j \in Ends(s) : Finals(s)[Rank(Ends(s), j)] = s[j].r
<1> DEFINE E == Ends(s)
           N == Cardinality(E)
           At(k) == CHOOSE j \in E : Rank(E, j) = k
<1>1. E \in SUBSET (1 .. Len(s)) /\ Len(s) \in Nat /\ \A j \in 1 .. Len(s) : s[j].r \in Nat
  <2>1. \A j \in 1 .. Len(s) : s[j] \in OutTok
    OBVIOUS
  <2> QED BY <2>1 DEF Ends, OutTok
<1> HIDE DEF E
<1>2. /\ N \in Nat
      /\ \A j \in E : Rank(E, j) \in 1 .. N
      /\ \A j, k \in E : j < k => Rank(E, j) < Rank(E, k)
      /\ \A k \in 1 .. N : \E j \in E : Rank(E, j) = k
  BY <1>1, Ranking
<1> HIDE DEF N
<1>3. \A k \in 1 .. N : At(k) \in E /\ Rank(E, At(k)) = k
  BY <1>2
<1>4. Finals(s) = [k \in 1 .. N |-> s[At(k)].r]
  BY DEF Finals, E, N
<1> HIDE DEF At
<1>5. Finals(s) \in Seq(Nat) /\ Len(Finals(s)) = N
  <2>1. \A k \in 1 .. N : s[At(k)].r \in Nat
    BY <1>1, <1>3
  <2> QED BY <1>2, <1>4, <2>1
<1>6. ASSUME NEW j \in E
      PROVE  Finals(s)[Rank(E, j)] = s[j].r
  <2> DEFINE k == Rank(E, j)
  <2>1. k \in 1 .. N /\ At(k) \in E /\ Rank(E, At(k)) = k
    BY <1>2, <1>3
  <2>2. ~(At(k) < j) /\ ~(j < At(k))
    BY <1>2, <2>1
  <2>3. At(k) = j
    <3> DEFINE m == At(k)
    <3> HIDE DEF m
    <3>0. E \subseteq Int
      BY <1>1
    <3>1. m \in Int /\ j \in Int /\ ~(m < j) /\ ~(j < m)
      BY <3>0, <2>1, <2>2 DEF m
    <3>2. m = j
      BY <3>1
    <3> QED BY <3>2 DEF m
  <2> HIDE DEF k
  <2>4. Finals(s)[k] = s[j].r
    BY <1>4, <2>1, <2>3
  <2> QED BY <2>4 DEF k
<1> QED BY <1>1, <1>2, <1>5, <1>6 DEF E, N

\* What is written behind a stream leaves the answers it holds where they are.
LEMMA FinalsPrefix ==
  ASSUME NEW s \in Seq(OutTok), NEW t \in Seq(OutTok)
  PROVE  /\ Ends(s) = {j \in Ends(s \o t) : j <= Len(s)}
         /\ Len(Finals(s)) <= Len(Finals(s \o t))
         /\ \A k \in 1 .. Len(Finals(s)) : Finals(s)[k] = Finals(s \o t)[k]
<1> DEFINE u == s \o t
           D == Ends(s)
           E == Ends(u)
<1>1. /\ u \in Seq(OutTok) /\ Len(u) = Len(s) + Len(t) /\ Len(s) \in Nat /\ Len(t) \in Nat
      /\ \A j \in 1 .. Len(s) : u[j] = s[j]
  BY ConcatProperties
<1> HIDE DEF u
<1>2. D = {j \in E : j <= Len(s)}
  BY <1>1 DEF Ends
<1>3. /\ D \in SUBSET (1 .. Len(s)) /\ Len(Finals(s)) = Cardinality(D)
      /\ \A j \in D : Finals(s)[Rank(D, j)] = s[j].r
      /\ E \in SUBSET (1 .. Len(u)) /\ Len(Finals(u)) = Cardinality(E)
      /\ \A j \in E : Finals(u)[Rank(E, j)] = u[j].r
  BY <1>1, FinalsElements
<1> HIDE DEF D, E
<1>4. IsFiniteSet(E) /\ \A k \in 1 .. Cardinality(D) : \E j \in D : Rank(D, j) = k
  <2>1. Len(s) \in Nat /\ Len(u) \in Nat
    BY <1>1
  <2>2. IsFiniteSet(E)
    BY <1>3, <2>1, Ranking
  <2>3. \A k \in 1 .. Cardinality(D) : \E j \in D : Rank(D, j) = k
    BY <1>3, <2>1, Ranking
  <2> QED BY <2>2, <2>3
<1>5. Cardinality(D) <= Cardinality(E)
  <2>1. D \in SUBSET E
    BY <1>2
  <2> QED BY <1>4, <2>1, FS_Subset
<1>6. \A j \in D : j \in E /\ Rank(D, j) = Rank(E, j) /\ u[j] = s[j]
  <2>1. ASSUME NEW j \in D
        PROVE  {m \in D : m <= j} = {m \in E : m <= j}
    <3>1. \A m \in E : m <= j => m \in D
      BY <1>1, <1>2, <1>3
    <3> QED BY <1>2, <3>1
  <2> QED BY <1>1, <1>2, <1>3, <2>1 DEF Rank
<1>7. ASSUME NEW k \in 1 .. Cardinality(D)
      PROVE  Finals(s)[k] = Finals(u)[k]
  <2>1. PICK j \in D : Rank(D, j) = k
    BY <1>4
  <2>2. Finals(s)[k] = s[j].r
    BY <1>3, <2>1
  <2>3. Finals(u)[k] = u[j].r
    BY <1>3, <1>6, <2>1
  <2> QED BY <1>6, <2>2, <2>3
<1> QED BY <1>2, <1>3, <1>5, <1>7 DEF D, E, u

\* No answer ends, none is counted.
LEMMA FinalsKept ==
  ASSUME NEW s \in Seq(OutTok), NEW t \in Seq(OutTok), \A j \in 1 .. Len(t) : ~t[j].eom
  PROVE  Finals(s \o t) = Finals(s)
<1> DEFINE u == s \o t
<1>1. /\ u \in Seq(OutTok) /\ Len(u) = Len(s) + Len(t) /\ Len(s) \in Nat /\ Len(t) \in Nat
      /\ \A j \in 1 .. Len(s) : u[j] = s[j]
      /\ \A j \in 1 .. Len(u) : j <= Len(s) \/ ~u[j].eom
  <2>1. /\ u \in Seq(OutTok) /\ Len(u) = Len(s) + Len(t) /\ Len(s) \in Nat /\ Len(t) \in Nat
        /\ \A j \in 1 .. Len(s) + Len(t) : u[j] = IF j <= Len(s) THEN s[j] ELSE t[j - Len(s)]
    BY ConcatProperties
  <2> HIDE DEF u
  <2>2. ASSUME NEW j \in 1 .. Len(u), ~(j <= Len(s))
        PROVE  ~u[j].eom
    <3>1. j - Len(s) \in 1 .. Len(t) /\ u[j] = t[j - Len(s)]
      BY <2>1, <2>2
    <3> QED BY <3>1
  <2> QED BY <2>1, <2>2
<1>2. /\ Ends(s) = {j \in Ends(u) : j <= Len(s)}
      /\ \A k \in 1 .. Len(Finals(s)) : Finals(s)[k] = Finals(u)[k]
  BY FinalsPrefix
<1> HIDE DEF u
<1>3. Ends(s) = Ends(u)
  BY <1>1, <1>2 DEF Ends
<1>4. Finals(s) \in Seq(Nat) /\ Finals(u) \in Seq(Nat) /\ Len(Finals(s)) = Len(Finals(u))
  BY <1>1, <1>3, FinalsElements
<1>5. Finals(u) = Finals(s)
  BY <1>2, <1>4, SeqEqual
<1> QED BY <1>5 DEF u

\* A whole answer is one more.
LEMMA FinalsAppend ==
  ASSUME NEW s \in Seq(OutTok), NEW t \in Seq(OutTok), NEW n \in Nat, NEW code, Whole(t, n, code)
  PROVE  Finals(s \o t) = Append(Finals(s), n)
<1> DEFINE u == s \o t
           l == Len(u)
           D == Ends(s)
           E == Ends(u)
<1>1. /\ Len(t) >= 1 /\ t[Len(t)].eom /\ \A j \in 1 .. Len(t) : t[j].r = n
      /\ \A j \in 1 .. (Len(t) - 1) : ~t[j].eom
  BY DEF Whole
<1>2. /\ u \in Seq(OutTok) /\ l = Len(s) + Len(t) /\ Len(s) \in Nat /\ Len(t) \in Nat
      /\ \A j \in 1 .. Len(s) + Len(t) : u[j] = IF j <= Len(s) THEN s[j] ELSE t[j - Len(s)]
  BY ConcatProperties
<1>3. /\ D = {j \in E : j <= Len(s)}
      /\ \A k \in 1 .. Len(Finals(s)) : Finals(s)[k] = Finals(u)[k]
  BY FinalsPrefix
<1> HIDE DEF u, l
<1>4. l \in 1 .. l /\ ~(l <= Len(s)) /\ u[l].eom /\ u[l].r = n
  <2>1. l \in 1 .. Len(s) + Len(t) /\ ~(l <= Len(s)) /\ l - Len(s) = Len(t) /\ Len(t) \in 1 .. Len(t)
    BY <1>1, <1>2
  <2>2. u[l] = t[Len(t)]
    BY <1>2, <2>1
  <2> QED BY <1>1, <1>2, <2>1, <2>2
<1>5. ASSUME NEW j \in E, j # l
      PROVE  j <= Len(s)
  <2>1. j \in 1 .. l /\ u[j].eom
    BY DEF Ends, l
  <2>2. CASE j > Len(s)
    <3>1. u[j] = t[j - Len(s)] /\ j - Len(s) \in 1 .. (Len(t) - 1)
      BY <1>2, <1>5, <2>1, <2>2
    <3> QED BY <1>1, <2>1, <3>1
  <2> QED BY <1>2, <2>1, <2>2
<1>6. l \in E
  BY <1>4 DEF Ends, l
<1>7. /\ D \in SUBSET (1 .. Len(s)) /\ Finals(s) \in Seq(Nat) /\ Len(Finals(s)) = Cardinality(D)
      /\ E \in SUBSET (1 .. l) /\ Finals(u) \in Seq(Nat) /\ Len(Finals(u)) = Cardinality(E)
      /\ Finals(u)[Rank(E, l)] = n
  BY <1>2, <1>4, <1>6, FinalsElements DEF l
<1> HIDE DEF D, E
<1>8. E = D \cup {l} /\ l \notin D
  BY <1>3, <1>4, <1>5, <1>6
<1>9. Cardinality(E) = Cardinality(D) + 1 /\ Cardinality(D) \in Nat
  <2>1. IsFiniteSet(D) /\ Cardinality(D) \in Nat
    BY <1>2, <1>7, Ranking
  <2> QED BY <1>8, <2>1, FS_AddElement
<1>10. Rank(E, l) = Cardinality(E)
  <2>1. \A m \in E : m <= l
    BY <1>2, <1>7
  <2>2. {m \in E : m <= l} = E
    BY <2>1
  <2> QED BY <2>2 DEF Rank
<1> DEFINE v == Finals(s)
           w == Finals(u)
<1>11. /\ v \in Seq(Nat) /\ w \in Seq(Nat) /\ Len(w) = Len(v) + 1 /\ Len(v) \in Nat
       /\ w[Len(v) + 1] = n /\ \A k \in 1 .. Len(v) : v[k] = w[k]
  BY <1>3, <1>7, <1>9, <1>10
<1> HIDE DEF v, w
<1>12. w = Append(v, n)
  <2>1. /\ Append(v, n) \in Seq(Nat) /\ Len(Append(v, n)) = Len(v) + 1
        /\ Append(v, n)[Len(v) + 1] = n /\ \A k \in 1 .. Len(v) : Append(v, n)[k] = v[k]
    BY <1>11
  <2>2. \A k \in 1 .. Len(w) : w[k] = Append(v, n)[k]
    BY <1>11, <2>1
  <2> QED BY <1>11, <2>1, <2>2, SeqEqual
<1> QED BY <1>12 DEF v, w, u

\* A stream that answers the first n requests has n answers.
LEMMA TalliedCount ==
  ASSUME NEW s \in Seq(OutTok), NEW n \in Nat, Tallied(s), TalliedTo(s, n)
  PROVE  Len(Finals(s)) = n
<1> DEFINE E == Ends(s)
           T == 1 .. n
           number == [j \in E |-> s[j].r]
<1>1. /\ E \in SUBSET (1 .. Len(s)) /\ Len(s) \in Nat /\ Len(Finals(s)) = Cardinality(E)
  BY FinalsElements
<1>2. \A j \in E : j \in 1 .. Len(s) /\ s[j].eom /\ s[j].r \in Nat
  <2>1. \A j \in 1 .. Len(s) : s[j] \in OutTok
    OBVIOUS
  <2> QED BY <2>1 DEF Ends, OutTok
<1>3. IsFiniteSet(E)
  BY <1>1, Ranking
<1>4. IsFiniteSet(T) /\ Cardinality(T) = n
  BY FS_Interval
<1>5. \A j \in E : number[j] = s[j].r /\ s[j].r \in T
  BY <1>2 DEF Tallied, TalliedTo
<1>6. \A a, b \in E : number[a] = number[b] => a = b
  <2>1. ASSUME NEW a \in E, NEW b \in E, a < b
        PROVE  s[a].r < s[b].r
    <3>1. a \in 1 .. (b - 1) /\ b \in 1 .. Len(s) /\ s[a].eom /\ s[b].eom
      BY <1>2, <2>1
    <3> QED BY <3>1 DEF Tallied
  <2>2. ASSUME NEW a \in E, NEW b \in E, number[a] = number[b]
        PROVE  a = b
    <3>1. ~(a < b) /\ ~(b < a)
      BY <1>2, <2>1, <2>2
    <3> QED BY <1>2, <3>1
  <2> QED BY <2>2
<1>7. \A r \in T : \E j \in E : number[j] = r
  <2>1. ASSUME NEW r \in T
        PROVE  \E j \in E : number[j] = r
    <3>1. PICK k \in 1 .. Len(s) : s[k].eom /\ s[k].r = n
      BY <2>1 DEF TalliedTo
    <3>2. PICK j \in 1 .. k : s[j].eom /\ s[j].r = r
      BY <2>1, <3>1 DEF Tallied
    <3>3. j \in E
      BY <1>1, <3>1, <3>2 DEF Ends
    <3> QED BY <3>2, <3>3
  <2> QED BY <2>1
<1>8. number \in Bijection(E, T)
  BY <1>5, <1>6, <1>7 DEF Bijection, Injection, IsInjective, Surjection
<1> HIDE DEF E, T, number
<1>9. Cardinality(T) = Cardinality(E)
  BY <1>3, <1>8, FS_Bijection DEF ExistsBijection
<1> QED BY <1>1, <1>4, <1>9

\* The numbers of a well-framed stream never go down.
LEMMA FramedRises ==
  ASSUME NEW s \in Seq(OutTok), Framed(s)
  PROVE  \A j, k \in 1 .. Len(s) : j <= k => s[j].r <= s[k].r
<1>1. SUFFICES ASSUME NEW j \in 1 .. Len(s), NEW k \in 1 .. Len(s), j <= k, ~(s[j].r <= s[k].r)
               PROVE  FALSE
  OBVIOUS
<1>2. Len(s) \in Nat /\ \A m \in 1 .. Len(s) : s[m].r \in Nat
  <2>1. \A m \in 1 .. Len(s) : s[m] \in OutTok
    OBVIOUS
  <2> QED BY <2>1 DEF OutTok
<1> DEFINE S == {m \in j .. Len(s) : ~(s[j].r <= s[m].r)}
<1>3. S \in SUBSET Nat /\ S # {}
  BY <1>1
<1> HIDE DEF S
<1>4. PICK m \in S : \A n \in S : m <= n
  BY <1>3, LeastNumber
<1>5. m \in j .. Len(s) /\ ~(s[j].r <= s[m].r)
  BY <1>4 DEF S
<1>6. m # j
  BY <1>2, <1>5
<1>7. m - 1 \in j .. Len(s) /\ m - 1 \in 1 .. (Len(s) - 1) /\ (m - 1) + 1 = m
  BY <1>2, <1>5, <1>6
<1>8. s[j].r <= s[m - 1].r
  BY <1>2, <1>4, <1>7 DEF S
<1>9. Follows(s[m - 1], s[m])
  BY <1>7 DEF Framed
<1>10. s[m - 1].r <= s[m].r
  BY <1>2, <1>5, <1>7, <1>9 DEF Follows
<1> QED BY <1>2, <1>5, <1>7, <1>8, <1>10

-----------------------------------------------------------------------------
(* The ordered service.                                                    *)

\* What client c sees of the service does not change.
Same(c) ==
  /\ Asked(c)' = Asked(c) /\ Given(c)' = Given(c)
  /\ Seen(c)' = Seen(c) /\ Over(c)' = Over(c)

Asks(c) ==
  /\ Asked(c)' = Asked(c) + 1
  /\ Given(c)' = Given(c) /\ Seen(c)' = Seen(c) /\ Over(c)' = Over(c)

Gives(c) ==
  /\ ~Over(c)
  /\ \E r \in 0 .. Asked(c) :
       /\ IF Faultless(c) THEN r = Len(Given(c)) + 1
          ELSE \A k \in 1 .. Len(Given(c)) : Given(c)[k] <= r
       /\ Given(c)' = Append(Given(c), r)
  /\ Asked(c)' = Asked(c) /\ Seen(c)' = Seen(c) /\ Over(c)' = Over(c)

Sees(c) ==
  /\ Seen(c)' \in (Seen(c) + 1) .. Len(Given(c))
  /\ Asked(c)' = Asked(c) /\ Given(c)' = Given(c) /\ Over(c)' = Over(c)

Loses(c) ==
  /\ Over(c)' = TRUE
  /\ \E n \in Seen(c) .. Len(Given(c)) : Given(c)' = SubSeq(Given(c), 1, n)
  /\ Asked(c)' = Asked(c) /\ Seen(c)' = Seen(c)

\* A step of the service, as client c sees it.
ServiceStep(c) == Same(c) \/ Asks(c) \/ Gives(c) \/ Sees(c) \/ Loses(c)

\* A step that concerns no client is none of the service.
LEMMA NoneServed ==
  ASSUME UNCHANGED script, \A e \in Clients : Same(e)
  PROVE  UNCHANGED Service!vars
<1>1. {e \in Clients : Faultless(e)}' = {e \in Clients : Faultless(e)}
  BY DEF Faultless
<1> QED BY <1>1 DEF Same, Service!vars

\* A step that concerns one client is one of the service.
LEMMA OneServed ==
  ASSUME UNCHANGED script, NEW c \in Clients, ServiceStep(c),
         \A e \in Clients : e # c => Same(e)
  PROVE  [Service!Next]_(Service!vars)
<1> DEFINE careful == {e \in Clients : Faultless(e)}
           asked   == [e \in Clients |-> Asked(e)]
           answers == [e \in Clients |-> Given(e)]
           seen    == [e \in Clients |-> Seen(e)]
           over    == [e \in Clients |-> Over(e)]
<1>1. careful' = careful
  BY DEF Faultless
<1>2. CASE Same(c)
  <2>1. \A e \in Clients : Same(e)
    BY <1>2
  <2> QED BY <2>1, NoneServed
<1>3. CASE Asks(c)
  <2>1. asked' = [asked EXCEPT ![c] = @ + 1]
    BY <1>3 DEF Asks, Same
  <2>2. UNCHANGED <<answers, seen, over>>
    BY <1>3 DEF Asks, Same
  <2>3. Service!Ask(c)
    BY <1>1, <2>1, <2>2 DEF Service!Ask
  <2> QED BY <2>3 DEF Service!Next
<1>4. CASE Gives(c)
  <2>1. PICK r \in 0 .. Asked(c) :
          /\ IF Faultless(c) THEN r = Len(Given(c)) + 1
             ELSE \A k \in 1 .. Len(Given(c)) : Given(c)[k] <= r
          /\ Given(c)' = Append(Given(c), r)
    BY <1>4 DEF Gives
  <2>2. answers' = [answers EXCEPT ![c] = Append(@, r)]
    BY <2>1 DEF Same
  <2>3. UNCHANGED <<asked, seen, over>>
    BY <1>4 DEF Gives, Same
  <2>4. asked[c] = Asked(c) /\ answers[c] = Given(c) /\ over[c] = Over(c)
        /\ (c \in careful <=> Faultless(c))
    OBVIOUS
  <2>5. ~over[c] /\ r \in 0 .. asked[c] /\ Service!MayAnswer(c, answers[c], r)
    BY <1>4, <2>1, <2>4 DEF Gives, Service!MayAnswer
  <2>6. Service!Answer(c)
    BY <1>1, <2>2, <2>3, <2>5 DEF Service!Answer
  <2> QED BY <2>6 DEF Service!Next
<1>5. CASE Sees(c)
  <2>1. seen' = [seen EXCEPT ![c] = Seen(c)']
    BY DEF Same
  <2>2. UNCHANGED <<asked, answers, over>>
    BY <1>5 DEF Sees, Same
  <2>3. Seen(c)' \in (seen[c] + 1) .. Len(answers[c])
    BY <1>5 DEF Sees
  <2>4. Service!See(c)
    BY <1>1, <2>1, <2>2, <2>3 DEF Service!See
  <2> QED BY <2>4 DEF Service!Next
<1>6. CASE Loses(c)
  <2>1. PICK n \in Seen(c) .. Len(Given(c)) : Given(c)' = SubSeq(Given(c), 1, n)
    BY <1>6 DEF Loses
  <2>2. answers' = [answers EXCEPT ![c] = SubSeq(@, 1, n)]
    BY <2>1 DEF Same
  <2>3. over' = [over EXCEPT ![c] = TRUE]
    BY <1>6 DEF Loses, Same
  <2>4. UNCHANGED <<asked, seen>>
    BY <1>6 DEF Loses, Same
  <2>5. n \in seen[c] .. Len(answers[c])
    OBVIOUS
  <2>6. Service!Lose(c)
    BY <1>1, <2>2, <2>3, <2>4, <2>5 DEF Service!Lose
  <2> QED BY <2>6 DEF Service!Next
<1> QED BY <1>2, <1>3, <1>4, <1>5, <1>6 DEF ServiceStep

\* What has been read is part of what has been given.
LEMMA SeenOfGiven ==
  ASSUME NEW s \in Seq(OutTok), NEW t \in Seq(OutTok), NEW u \in Seq(OutTok)
  PROVE  /\ Len(Finals(s)) \in Nat /\ Len(Finals(s \o t)) \in Nat
         /\ Len(Finals(s)) <= Len(Finals(s \o t))
         /\ Len(Finals(s \o t)) <= Len(Finals(s \o t \o u))
<1> DEFINE p == s \o t
<1>1. p \in Seq(OutTok)
  BY Joined
<1>2. Len(Finals(s)) <= Len(Finals(p))
  BY FinalsPrefix
<1> HIDE DEF p
<1>3. Len(Finals(p)) <= Len(Finals(p \o u))
  BY <1>1, FinalsPrefix
<1>4. Len(Finals(s)) \in Nat /\ Len(Finals(p)) \in Nat
  BY <1>1, FinalsElements
<1> QED BY <1>2, <1>3, <1>4 DEF p

\* A step that concerns others changes nothing.
LEMMA UnmovedSame ==
  ASSUME NEW c \in Clients, Unmoved(c)
  PROVE  Same(c)
<1>1. Stream(c)' = Stream(c)
  BY Untouched
<1> QED BY <1>1 DEF Same, Unmoved, Asked, Given, Seen, Over

\* Where the end of the stream is cut off, the connection has ended.
LEMMA CutLoses ==
  ASSUME TypeOK, TypeOK', NEW c \in Clients, NEW t \in Seq(OutTok), Stream(c) = Stream(c)' \o t,
         Over(c)', UNCHANGED <<at[c], got[c]>>
  PROVE  Loses(c)
<1>1. Asked(c)' = Asked(c) /\ Seen(c)' = Seen(c)
  BY DEF Asked, Seen
<1>2. /\ got'[c] \in Seq(OutTok) /\ tx'[c] \in Seq(OutTok) /\ conn'[c] \in Conn
      /\ conn'[c].out_off <= Len(conn'[c].out)
  BY DEF TypeOK, NetTypeOK
<1>3. Unsent(c)' \in Seq(OutTok)
  <2>1. conn'[c].out \in Seq(OutTok) /\ conn'[c].out_off \in 0 .. Len(conn'[c].out)
    BY <1>2 DEF Conn
  <2>2. Consume(conn'[c].out, conn'[c].out_off) \in Seq(OutTok)
    BY <2>1, ConsumeElements
  <2> QED BY <2>2 DEF Unsent
<1> DEFINE s == Stream(c)'
           n == Len(Finals(s))
           g == got'[c]
           q == tx'[c]
           u == Unsent(c)'
<1>4. s = g \o q \o u
  BY DEF Stream
<1>5. s \in Seq(OutTok)
  BY StreamAfterType
<1>6. Stream(c) = s \o t /\ Seen(c) = Len(Finals(g))
  BY <1>1 DEF Seen
<1>7. g \in Seq(OutTok) /\ q \in Seq(OutTok) /\ u \in Seq(OutTok)
  BY <1>2, <1>3
<1> HIDE DEF g, q, u, s
<1>8. Len(Finals(g)) <= n /\ Len(Finals(g)) \in Nat
  <2>1. /\ Len(Finals(g)) \in Nat /\ Len(Finals(g \o q)) \in Nat
        /\ Len(Finals(g)) <= Len(Finals(g \o q))
        /\ Len(Finals(g \o q)) <= Len(Finals(g \o q \o u))
    BY <1>7, SeenOfGiven
  <2>2. Len(Finals(s)) \in Nat
    BY <1>5, FinalsElements
  <2> QED BY <1>4, <2>1, <2>2
<1> DEFINE a == Finals(s)
           b == Finals(s \o t)
<1>9. /\ a \in Seq(Nat) /\ b \in Seq(Nat) /\ Len(a) <= Len(b)
      /\ \A k \in 1 .. Len(a) : a[k] = b[k]
  <2>1. s \o t \in Seq(OutTok)
    BY <1>5, ConcatProperties
  <2> QED BY <1>5, <2>1, FinalsElements, FinalsPrefix
<1> HIDE DEF a, b
<1>10. a = SubSeq(b, 1, Len(a)) /\ Len(a) \in Nat /\ Len(b) \in Nat
  <2> DEFINE w == SubSeq(b, 1, Len(a))
  <2>1. Len(a) \in 0 .. Len(b)
    BY <1>9
  <2>2. w \in Seq(Nat) /\ Len(w) = Len(a) /\ \A k \in 1 .. Len(a) : w[k] = b[k]
    BY <1>9, <2>1
  <2> HIDE DEF w
  <2>3. w = a
    BY <1>9, <2>2, SeqEqual
  <2> QED BY <1>9, <2>3 DEF w
<1>11. Given(c) = b /\ Given(c)' = a
  BY <1>6 DEF Given, a, b, s
<1>12. n \in Seen(c) .. Len(Given(c)) /\ Given(c)' = SubSeq(Given(c), 1, n)
  <2>1. n = Len(a)
    BY DEF a
  <2> HIDE DEF n
  <2> QED BY <1>6, <1>8, <1>9, <1>10, <1>11, <2>1
<1> QED BY <1>1, <1>12 DEF Loses, Over

\* conn_close, from wherever it is called.
LEMMA GoneLoses ==
  ASSUME TypeOK, TypeOK', NEW c \in Clients, Gone(c) \/ (ServeFlushClose /\ c = f)
  PROVE  Loses(c)
<1>1. /\ fd'[c] = "closed" /\ UNCHANGED <<at, got>>
      /\ \E t \in Seq(OutTok) : Stream(c) = Stream(c)' \o t
  <2>1. CASE Gone(c)
    BY <2>1, DropShape DEF Gone
  <2>2. CASE ServeFlushClose /\ c = f
    <3>1. Stream(c)' = Stream(c) /\ fd'[c] = "closed" /\ UNCHANGED <<at, got>>
      BY <2>2, FlushCloseShape DEF ServeFlushClose
    <3>2. <<>> \in Seq(OutTok) /\ Stream(c) \o <<>> = Stream(c)
      BY StreamType, ConcatEmptySeq
    <3> QED BY <3>1, <3>2
  <2> QED BY <2>1, <2>2
<1>2. Over(c)'
  BY <1>1 DEF Over
<1> QED BY <1>1, <1>2, CutLoses

\* accept_new_clients gives a connection that has been given nothing.
LEMMA AcceptSame ==
  ASSUME TypeOK, NEW c \in Clients, ClientSound(c), Accept, c = Head(backlog), fd[c] = "none"
  PROVE  Same(c)
<1> DEFINE d == ConnReset([BlankConn EXCEPT !.last_activity = now], NextId)
<1>1. /\ conn \in [Clients -> Conn] /\ fd \in [Clients -> {"none", "open", "closed"}]
  BY DEF TypeOK, NetTypeOK
<1>2. /\ conn'[c] = d /\ fd'[c] = "open"
      /\ UNCHANGED <<rx, tx, got, peer, at, script>>
  BY <1>1 DEF Accept
<1>3. d.out = <<>> /\ d.out_off = 0
  BY DEF ConnReset, BlankConn
<1>4. conn[c].out = <<>> /\ conn[c].out_off = 0
  BY DEF ClientSound, StreamSound, BlankConn
<1> HIDE DEF d
<1>5. Stream(c)' = Stream(c)
  BY <1>2, <1>3, <1>4 DEF Stream, Unsent
<1> QED BY <1>2, <1>5 DEF Same, Asked, Given, Seen, Over

\* What is sent has been given before.
LEMMA FlushSame ==
  ASSUME TypeOK, NEW c \in Clients, c = f, FlushStays
  PROVE  Same(c)
<1>1. Stream(c)' = Stream(c) /\ UNCHANGED <<fd, peer, at>>
  BY FlushShape
<1>2. UNCHANGED got
  BY DEF FlushStays, ServeFlushPart, ServeFlushContinue, ServeFlushKeepAlive, Flush
<1> QED BY <1>1, <1>2 DEF Same, Asked, Given, Seen, Over

\* A client connects, gives up a body, or half-closes.
LEMMA QuietClientSame ==
  ASSUME TypeOK, NEW c \in Clients, UNCHANGED conn, Connect(c) \/ SkipBody(c) \/ LeaveEof(c)
  PROVE  Same(c)
<1>1. /\ UNCHANGED <<fd, tx, got>> /\ peer'[c] # "rst" /\ peer[c] # "rst"
      /\ Asked(c)' = Asked(c)
  <2>1. at[c] \in Cursor /\ at \in [Clients -> Cursor]
        /\ peer \in [Clients -> {"absent", "connected", "eof", "rst"}]
    BY DEF TypeOK, NetTypeOK
  <2> QED BY <2>1 DEF Connect, SkipBody, LeaveEof, Cursor, Asked
<1>2. Stream(c)' = Stream(c)
  BY <1>1 DEF Stream, Unsent
<1> QED BY <1>1, <1>2 DEF Same, Given, Seen, Over

\* The first token of a request puts it, the others do not.
LEMMA SendAsks ==
  ASSUME TypeOK, NEW c \in Clients, UNCHANGED conn, Send(c)
  PROVE  Same(c) \/ Asks(c)
<1>1. at \in [Clients -> Cursor] /\ at[c].req \in Nat \ {0} /\ at[c].pos \in Nat \ {0}
  BY DEF TypeOK, NetTypeOK, Cursor
<1>2. at'[c] = Beyond(at[c], Sending(c)) /\ UNCHANGED <<fd, tx, got, peer>>
  BY <1>1 DEF Send
<1>3. Asked(c)' = Asked(c) \/ Asked(c)' = Asked(c) + 1
  <2>1. Sending(c) \in Request
    <3>1. script[c] \in Seq(Request)
      BY StreamType
    <3>2. at[c].req \in 1 .. Len(script[c])
      BY <1>1, <3>1 DEF Send, Done
    <3> QED BY <3>1, <3>2 DEF Sending
  <2>2. LastPos(Sending(c)) \in Nat /\ LastPos(Sending(c)) >= 2
    BY <2>1, LastPlace
  <2>3. Asked(c)' = at[c].req
    BY <1>1, <1>2, <2>2 DEF Beyond, Asked
  <2> QED BY <1>1, <2>3 DEF Asked
<1>4. Stream(c)' = Stream(c)
  BY <1>2 DEF Stream, Unsent
<1> QED BY <1>2, <1>3, <1>4 DEF Same, Asks, Given, Seen, Over

\* Reading shows a client answers that it has been given.
LEMMA ReceiveSees ==
  ASSUME TypeOK, NEW c \in Clients, UNCHANGED conn, Receive(c)
  PROVE  Same(c) \/ Sees(c)
<1>1. Stream(c)' = Stream(c) /\ UNCHANGED <<fd, peer, at>>
  BY ReceiveShape
<1>2. got \in [Clients -> Seq(OutTok)] /\ got'[c] = got[c] \o tx[c]
  BY DEF TypeOK, NetTypeOK, Receive
<1> DEFINE s == got[c]
           t == tx[c]
           u == Unsent(c)
<1>3. s \in Seq(OutTok) /\ t \in Seq(OutTok) /\ u \in Seq(OutTok)
  BY StreamType
<1>4. Stream(c) = s \o t \o u /\ Seen(c) = Len(Finals(s)) /\ Seen(c)' = Len(Finals(s \o t))
  BY <1>2 DEF Stream, Seen
<1> HIDE DEF s, t, u
<1>5. /\ Len(Finals(s)) \in Nat /\ Len(Finals(s \o t)) \in Nat
      /\ Len(Finals(s)) <= Len(Finals(s \o t))
      /\ Len(Finals(s \o t)) <= Len(Finals(s \o t \o u))
  BY <1>3, SeenOfGiven
<1>6. Len(Given(c)) \in Nat
  BY StreamType, FinalsElements DEF Given
<1>7. Given(c) = Finals(s \o t \o u)
  BY <1>4 DEF Given
<1>8. Seen(c)' = Seen(c) \/ Seen(c)' \in (Seen(c) + 1) .. Len(Given(c))
  BY <1>4, <1>5, <1>6, <1>7
<1>9. Asked(c)' = Asked(c) /\ Given(c)' = Given(c) /\ Over(c)' = Over(c)
  BY <1>1 DEF Asked, Given, Over
<1> QED BY <1>8, <1>9 DEF Same, Sees

\* RST, or a reset after close, loses what the client has not read.
LEMMA ResetLoses ==
  ASSUME TypeOK, TypeOK', NEW c \in Clients, fd[c] # "open" => conn[c] = BlankConn,
         LeaveRst(c) \/ ResetAfterClose(c), UNCHANGED conn
  PROVE  Loses(c)
<1>1. /\ UNCHANGED <<fd, at>> /\ (peer'[c] = "rst" \/ fd[c] = "closed")
      /\ \E t \in Seq(OutTok) : Stream(c) = Stream(c)' \o t
  BY LostShape
<1>2. UNCHANGED got
  BY DEF LeaveRst, ResetAfterClose
<1>3. Over(c)'
  BY <1>1 DEF Over
<1> QED BY <1>1, <1>2, <1>3, CutLoses

\* http_read_step queues no end of an answer, or a whole answer.
LEMMA ReadQueues ==
  ASSUME TypeOK, ContinueSound, NEW c \in Clients, c = f, ClientSound(c), fd[c] = "open",
         ReadOn, peer[c] # "rst"
  PROVE  \E toks \in Seq(OutTok) :
           /\ Stream(c)' = Stream(c) \o toks
           /\ \/ \A j \in 1 .. Len(toks) : ~toks[j].eom
              \/ /\ conn'[c].state = "WRITE" /\ ~conn'[c].want_continue
                 /\ \E n \in Nat : \E code : Whole(toks, n, code)
<1> DEFINE cn == conn[c]
           r == Received
           d == ReadStep(r)
<1>1. /\ cn \in Conn /\ conn \in [Clients -> Conn]
  BY DEF TypeOK, NetTypeOK
<1>2. conn'[c] = d
  BY <1>1 DEF ReadOn
<1>3. /\ r \in Conn /\ r.state = cn.state /\ r.out = cn.out /\ r.out_off = cn.out_off
      /\ r.want_continue = cn.want_continue
  BY ReceivedType
<1>4. r.keep_alive = cn.keep_alive /\ r.streamed = cn.streamed
  BY <1>1 DEF Received, Conn
<1>5. r.out \in Seq(OutTok) /\ r.num \in Nat /\ r.in \in Seq(InTok)
  BY <1>3 DEF Conn
<1> HIDE DEF r
<1>6. IF r.state = "WRITE" THEN d = r ELSE Step(r, d)
  BY <1>3, ReadStepEffect
<1>7. d.out_off = cn.out_off
  BY <1>3, <1>6 DEF Step, Answers, Continues, Waits
<1>8. r.state # "WRITE" => Fresh(r)
  <2>1. cn.streamed \/ cn.keep_alive => Queued(cn)
    BY DEF ClientSound, StreamSound
  <2> QED BY <1>3, <1>4, <2>1 DEF Fresh, Queued, ContinueSound
<1>9. ASSUME NEW toks \in Seq(OutTok), d.out = r.out \o toks
      PROVE  Stream(c)' = Stream(c) \o toks
  BY <1>3, <1>7, <1>9, ReadStream DEF d, r
<1> DEFINE Quietly == \E toks \in Seq(OutTok) :
                        d.out = r.out \o toks /\ \A j \in 1 .. Len(toks) : ~toks[j].eom
           Answering == /\ d.state = "WRITE" /\ ~d.want_continue
                        /\ \E toks \in Seq(OutTok), n \in Nat : \E code :
                             d.out = r.out \o toks /\ Whole(toks, n, code)
<1>10. d.out = r.out => Quietly
  <2> DEFINE none == <<>>
  <2>1. none \in Seq(OutTok) /\ r.out \o none = r.out /\ Len(none) = 0
    BY <1>5, ConcatEmptySeq
  <2> HIDE DEF none
  <2>2. \A j \in 1 .. Len(none) : ~none[j].eom
    BY <2>1
  <2> HIDE DEF d
  <2> QED BY <2>1, <2>2
<1> HIDE DEF d
<1>11. ASSUME NEW p, p.out = r.out, p.num \in Nat
       PROVE  /\ Reading(p, d) => Quietly
              /\ Inviting(p, d) => Quietly
              /\ RespondsTo(p, d) => Answering
  <2>1. Reading(p, d) => Quietly
    BY <1>10, <1>11 DEF Reading
  <2>2. Inviting(p, d) => Quietly
    <3> SUFFICES ASSUME Inviting(p, d)
                 PROVE  Quietly
      OBVIOUS
    <3>1. PICK tok \in OutTok : ~tok.eom /\ d.out = r.out \o <<tok>>
      BY <1>11 DEF Inviting
    <3>2. <<tok>> \in Seq(OutTok) /\ Len(<<tok>>) = 1 /\ <<tok>>[1] = tok
      OBVIOUS
    <3>3. \A j \in 1 .. Len(<<tok>>) : ~<<tok>>[j].eom
      BY <3>1, <3>2
    <3> QED BY <3>1, <3>2, <3>3
  <2>3. RespondsTo(p, d) => Answering
    BY <1>11 DEF RespondsTo
  <2> QED BY <2>1, <2>2, <2>3
<1>12. Quietly \/ Answering
  <2>1. CASE r.state = "WRITE"
    BY <1>6, <1>10, <2>1
  <2>2. CASE r.state # "WRITE"
    <3>1. \/ d = r
          \/ HasBlock(r.in) /\ HeadersOutcome(r, d)
          \/ BodyOutcome(r, d)
      BY <1>3, <1>8, <2>2, ReadStepOutcome DEF d
    <3>2. CASE d = r
      BY <1>10, <3>2
    <3>3. CASE BodyOutcome(r, d)
      BY <1>5, <1>11, <3>3 DEF BodyOutcome
    <3>4. CASE HasBlock(r.in) /\ HeadersOutcome(r, d)
      <4> DEFINE e == BlockEnd(r.in)
                 p == [num |-> BlockToken(r.in, e).r, req |-> BlockToken(r.in, e).q, out |-> r.out]
      <4>1. Reading(p, d) \/ Inviting(p, d) \/ RespondsTo(p, d)
        BY <3>4 DEF HeadersOutcome
      <4>2. p.out = r.out /\ p.num \in Nat
        <5>1. e \in 1 .. Len(r.in)
          BY <1>5, <3>4, BlockEndFirst
        <5>2. BlockToken(r.in, e) \in InTok
          BY <1>5, <5>1, BlockTokenPlace
        <5> QED BY <5>2 DEF InTok
      <4> HIDE DEF p
      <4> QED BY <1>11, <4>1, <4>2
    <3> QED BY <3>1, <3>2, <3>3, <3>4
  <2> QED BY <2>1, <2>2
<1>13. CASE Quietly
  BY <1>9, <1>13
<1>14. CASE Answering
  <2>1. PICK toks \in Seq(OutTok), n \in Nat :
               \E code : d.out = r.out \o toks /\ Whole(toks, n, code)
    BY <1>14
  <2> QED BY <1>2, <1>9, <1>14, <2>1
<1> QED BY <1>12, <1>13, <1>14

\* The answers of a well-framed stream are to requests no later than its last.
LEMMA GivenRises ==
  ASSUME NEW s \in Seq(OutTok), NEW t \in Seq(OutTok), NEW n \in Nat, NEW code,
         Whole(t, n, code), Framed(s \o t)
  PROVE  /\ s \o t # <<>> /\ (s \o t)[Len(s \o t)].r = n
         /\ \A k \in 1 .. Len(Finals(s)) : Finals(s)[k] <= n
<1> DEFINE u == s \o t
           l == Len(u)
           E == Ends(s)
<1>1. Len(t) >= 1 /\ \A j \in 1 .. Len(t) : t[j].r = n
  BY DEF Whole
<1>2. /\ u \in Seq(OutTok) /\ l = Len(s) + Len(t) /\ Len(s) \in Nat /\ Len(t) \in Nat
      /\ \A j \in 1 .. Len(s) + Len(t) : u[j] = IF j <= Len(s) THEN s[j] ELSE t[j - Len(s)]
  BY ConcatProperties
<1> HIDE DEF u, l
<1>3. l \in 1 .. l /\ u[l].r = n /\ u # <<>>
  <2>1. l \in 1 .. Len(s) + Len(t) /\ ~(l <= Len(s)) /\ l - Len(s) = Len(t) /\ Len(t) \in 1 .. Len(t)
    BY <1>1, <1>2
  <2>2. u[l] = t[Len(t)]
    BY <1>2, <2>1
  <2>3. u # <<>>
    BY <1>2, <2>1 DEF l
  <2> QED BY <1>1, <1>2, <2>1, <2>2, <2>3
<1>4. \A j \in 1 .. l : u[j].r <= u[l].r
  <2>1. Framed(u)
    BY DEF u
  <2>2. \A j, k \in 1 .. Len(u) : j <= k => u[j].r <= u[k].r
    BY <1>2, <2>1, FramedRises
  <2>3. \A j \in 1 .. l : j <= l
    BY <1>2
  <2> QED BY <1>3, <2>2, <2>3 DEF l
<1>5. /\ E \in SUBSET (1 .. Len(s)) /\ Len(Finals(s)) = Cardinality(E)
      /\ \A j \in E : Finals(s)[Rank(E, j)] = s[j].r
  BY FinalsElements
<1> HIDE DEF E
<1>6. \A k \in 1 .. Cardinality(E) : \E j \in E : Rank(E, j) = k
  BY <1>2, <1>5, Ranking
<1>7. ASSUME NEW k \in 1 .. Len(Finals(s))
      PROVE  Finals(s)[k] <= n
  <2>1. PICK j \in E : Rank(E, j) = k
    BY <1>5, <1>6
  <2>2. j \in 1 .. l /\ u[j] = s[j]
    BY <1>2, <1>5
  <2> QED BY <1>3, <1>4, <1>5, <2>1, <2>2
<1> QED BY <1>3, <1>7 DEF u, l

\* The answer queued is to the request at hand, which a careful client has
\* put and which has not been answered.
LEMMA ReadGives ==
  ASSUME TypeOK, TypeOK', ContinueSound, NEW c \in Clients, c = f, ClientSound(c),
         ClientSound(c)', Faultless(c)' => ExactSound(c)', fd[c] = "open", ReadOn
  PROVE  Same(c) \/ Gives(c)
<1> DEFINE d == conn'[c]
           s == Stream(c)
<1>1. UNCHANGED <<fd, tx, got, peer, at, script>>
  BY DEF ReadOn
<1>2. Asked(c)' = Asked(c) /\ Seen(c)' = Seen(c) /\ Over(c)' = Over(c)
  BY <1>1 DEF Asked, Seen, Over
<1>3. CASE peer[c] = "rst"
  <2>1. Stream(c)' = Stream(c)
    BY <1>1, <1>3 DEF Stream, Unsent
  <2> QED BY <1>2, <2>1 DEF Same, Given
<1>4. CASE peer[c] # "rst"
  <2>1. PICK toks \in Seq(OutTok) :
          /\ Stream(c)' = s \o toks
          /\ \/ \A j \in 1 .. Len(toks) : ~toks[j].eom
             \/ /\ d.state = "WRITE" /\ ~d.want_continue
                /\ \E n \in Nat : \E code : Whole(toks, n, code)
    BY <1>4, ReadQueues
  <2>2. s \in Seq(OutTok)
    BY StreamType
  <2>3. CASE \A j \in 1 .. Len(toks) : ~toks[j].eom
    <3>1. Finals(s \o toks) = Finals(s)
      BY <2>2, <2>3, FinalsKept
    <3> QED BY <1>2, <2>1, <3>1 DEF Same, Given
  <2>4. CASE d.state = "WRITE" /\ ~d.want_continue /\ \E n \in Nat : \E code : Whole(toks, n, code)
    <3> DEFINE u == s \o toks
    <3>0. PICK n \in Nat : \E code : Whole(toks, n, code)
      BY <2>4
    <3>1. PICK code : Whole(toks, n, code)
      BY <3>0
    <3>2. Framed(u)
      BY <2>1 DEF ClientSound
    <3> HIDE DEF s
    <3>3. u \in Seq(OutTok) /\ Finals(u) = Append(Finals(s), n)
      BY <2>2, <3>1, FinalsAppend, ConcatProperties
    <3>4. u # <<>> /\ u[Len(u)].r = n /\ \A k \in 1 .. Len(Finals(s)) : Finals(s)[k] <= n
      BY <2>2, <3>1, <3>2, GivenRises
    <3>5. Stream(c)' = u
      BY <2>1
    <3> HIDE DEF u
    <3>6. ~ReadsBody(d) /\ Floor(d, u) = n
      BY <2>4, <3>4 DEF ReadsBody, Floor
    <3>7. Floor(d, u) <= Asked(c)'
      <4>1. fd'[c] = "open" /\ peer'[c] # "rst"
        BY <1>1, <1>4
      <4>2. Floor(conn'[c], Stream(c)') <= Asked(c)'
        BY <4>1 DEF ClientSound, StreamSound, NumbersAhead
      <4> QED BY <3>5, <4>2
    <3>8. n \in 0 .. Asked(c) /\ Asked(c) \in Nat
      BY <1>2, <3>6, <3>7, StreamType
    <3>9. ASSUME Faultless(c)
          PROVE  n = Len(Finals(s)) + 1
      <4>1. Faultless(c)' /\ fd'[c] # "closed" /\ peer'[c] # "rst"
        BY <1>1, <1>4, <3>9 DEF Faultless
      <4>2. ExactSound(c)'
        BY <4>1
      <4>3. Settled(Stream(c)', Input(c)') /\ Awaits(conn'[c], Stream(c)', Input(c)', at'[c])
        BY <4>1, <4>2 DEF ExactSound
      <4>4. Tallied(u) /\ TalliedTo(u, NextAnswer(d, u) - 1)
        BY <3>5, <4>3 DEF Settled, Awaits
      <4>5. NextAnswer(d, u) - 1 = n
        BY <3>6 DEF NextAnswer
      <4>6. Len(Finals(u)) = n
        BY <3>3, <4>4, <4>5, TalliedCount
      <4>7. Finals(s) \in Seq(Nat)
        BY <2>2, FinalsElements
      <4>8. Len(Append(Finals(s), n)) = Len(Finals(s)) + 1
        BY <4>7
      <4> QED BY <3>3, <4>6, <4>8
    <3>10. ~Over(c)
      BY <1>4 DEF Over
    <3>11. Given(c) = Finals(s) /\ Given(c)' = Append(Finals(s), n)
      BY <3>3, <3>5 DEF Given, s
    <3> QED BY <1>2, <3>4, <3>8, <3>9, <3>10, <3>11 DEF Gives
  <2> QED BY <2>1, <2>3, <2>4
<1> QED BY <1>3, <1>4

\* Every step is, to each client, a step of the service or none.
LEMMA EachServed ==
  ASSUME IndInv, IndInv', StreamInv, StreamInv', [Next]_vars, NEW e \in Clients
  PROVE  ServiceStep(e)
<1>1. /\ TypeOK /\ TypeOK' /\ ContinueSound /\ ClientSound(e)
      /\ (fd[e] # "open" => conn[e] = BlankConn)
  BY FlowInvParts DEF IndInv, StreamInv, ClientSound, StreamSound
<1>2. ClientSound(e)' /\ (Faultless(e)' => ExactSound(e)')
  <2>1. FlowInv' => ClientSound(e)'
    BY DEF FlowInv, StreamWellFramed, NothingAfterClose, ClientSound
  <2>2. Faultless(e)' => ~Overrun(e)'
    BY DEF Faultless, Overrun, SendsHuge
  <2> QED BY <2>1, <2>2 DEF StreamInv, WireInv
<1>3. CASE Unmoved(e)
  BY <1>3, UnmovedSame DEF ServiceStep
<1>4. CASE Gone(e) \/ (ServeFlushClose /\ e = f)
  BY <1>1, <1>4, GoneLoses DEF ServiceStep
<1>5. CASE Accept /\ e = Head(backlog) /\ fd[e] = "none"
  BY <1>1, <1>5, AcceptSame DEF ServiceStep
<1>6. CASE Reads /\ e = f /\ fd[e] = "open"
  BY <1>1, <1>2, <1>6, ReadGives DEF ServiceStep, Reads, ServeRead, ServeReadHangs
<1>7. CASE FlushStays /\ e = f /\ fd[e] = "open"
  BY <1>1, <1>7, FlushSame DEF ServiceStep
<1>8. CASE NetStep(e) /\ UNCHANGED serverVars
  <2>1. UNCHANGED conn
    BY <1>8 DEF serverVars
  <2>2. CASE Connect(e) \/ SkipBody(e) \/ LeaveEof(e)
    BY <1>1, <2>1, <2>2, QuietClientSame DEF ServiceStep
  <2>3. CASE Send(e)
    BY <1>1, <2>1, <2>3, SendAsks DEF ServiceStep
  <2>4. CASE Receive(e)
    BY <1>1, <2>1, <2>4, ReceiveSees DEF ServiceStep
  <2>5. CASE LeaveRst(e) \/ ResetAfterClose(e)
    BY <1>1, <2>1, <2>5, ResetLoses DEF ServiceStep
  <2> QED BY <1>8, <2>2, <2>3, <2>4, <2>5 DEF NetStep
<1> QED BY <1>3, <1>4, <1>5, <1>6, <1>7, <1>8, ClientCases

\* A step concerns one client at most, and no step changes a script.
LEMMA OneConcerned ==
  ASSUME IndInv, [Next]_vars
  PROVE  /\ UNCHANGED script
         /\ \/ \A e \in Clients : Unmoved(e)
            \/ \E c \in Clients : \A e \in Clients : e # c => Unmoved(e)
<1>1. TypeOK /\ LoopBounds /\ TableSound
  BY DEF IndInv
<1>2. CASE Listen \/ Free \/ Quiet \/ UNCHANGED vars
  <2>1. UNCHANGED netVars /\ UNCHANGED conn
    BY <1>1, <1>2, QuietTable DEF Listen, Free, vars, serverVars
  <2> QED BY <2>1 DEF netVars, Unmoved
<1>3. CASE Accept
  <2> DEFINE c == Head(backlog)
  <2>1. c \in Clients
    <3>1. backlog \in Seq(Clients) /\ backlog # <<>>
      BY <1>1, <1>3 DEF Accept, TypeOK, NetTypeOK
    <3> QED BY <3>1
  <2>2. ASSUME NEW e \in Clients, e # c
        PROVE  Unmoved(e)
    <3>1. /\ UNCHANGED <<rx, tx, got, peer, at, script>>
          /\ fd'[e] = fd[e] /\ conn'[e] = conn[e]
      BY <1>1, <1>3, <2>2 DEF Accept, TypeOK, NetTypeOK
    <3> QED BY <3>1 DEF Unmoved
  <2>3. UNCHANGED script
    BY <1>3 DEF Accept
  <2> HIDE DEF c
  <2> QED BY <2>1, <2>2, <2>3
<1>4. CASE Serve /\ ~ServeDone
  <2>1. f \in Clients
    BY <1>1, <1>4, ServedSlotTable
  <2>2. \A e \in Clients : e # f => Unmoved(e)
    BY <1>1, <1>4, ServeOthers
  <2>3. UNCHANGED script
    BY <1>4 DEF Serve, ServeIdle, ServeHangup, ServeReadEnd, ServeFlushFails, Dropped, ConnClose,
       ServeRead, ServeReadHangs, ReadOn, ServeFlushPart, ServeFlushContinue,
       ServeFlushKeepAlive, Flush, ServeFlushClose, netVars
  <2> QED BY <2>1, <2>2, <2>3
<1>5. CASE ReapSlot
  <2>1. UNCHANGED <<netVars, conn>> \/ ConnClose(i, pfds)
    BY <1>5 DEF ReapSlot
  <2>2. CASE UNCHANGED <<netVars, conn>>
    BY <2>2 DEF netVars, Unmoved
  <2>3. CASE ConnClose(i, pfds)
    <3>1. \A e \in Clients : e # conns[i] => Unmoved(e)
      BY <1>1, <2>3, ConnCloseShape
    <3>2. UNCHANGED script
      BY <2>3 DEF ConnClose
    <3> QED BY <3>1, <3>2
  <2> QED BY <2>1, <2>2, <2>3
<1>6. CASE \E c \in Clients : NetStep(c) /\ UNCHANGED serverVars
  <2>1. PICK c \in Clients : NetStep(c) /\ UNCHANGED serverVars
    BY <1>6
  <2>2. \A e \in Clients : e # c => Unmoved(e)
    BY <1>1, <2>1, WorldOthers
  <2>3. UNCHANGED script
    BY <2>1 DEF NetStep, Connect, Send, SkipBody, Receive, LeaveEof, LeaveRst, ResetAfterClose
  <2> QED BY <2>2, <2>3
<1> QED BY <1>2, <1>3, <1>4, <1>5, <1>6, NextCases

\* Initially nothing has been asked and nothing given.
LEMMA InitService == Init => Service!Init
<1> SUFFICES ASSUME Init
             PROVE  Service!Init
  OBVIOUS
<1>1. Finals(<<>>) = <<>>
  <2>1. Ends(<<>>) = {} /\ <<>> \in Seq(OutTok)
    BY DEF Ends
  <2>2. Finals(<<>>) \in Seq(Nat) /\ Len(Finals(<<>>)) = 0
    BY <2>1, FinalsElements, FS_EmptySet
  <2> QED BY <2>2
<1>2. ASSUME NEW c \in Clients
      PROVE  Asked(c) = 0 /\ Given(c) = <<>> /\ Seen(c) = 0 /\ Over(c) = FALSE
  <2>1. /\ fd[c] = "none" /\ tx[c] = <<>> /\ got[c] = <<>> /\ peer[c] = "absent"
        /\ conn[c] = BlankConn /\ at[c] = [req |-> 1, pos |-> 1]
    BY DEF Init, NetInit
  <2>2. Stream(c) = <<>>
    <3>1. Consume(<<>>, 0) = <<>>
      BY SubSeqEmpty DEF Consume
    <3> QED BY <2>1, <3>1 DEF Stream, Unsent, BlankConn
  <2> QED BY <1>1, <2>1, <2>2 DEF Asked, Given, Seen, Over
<1>3. /\ [c \in Clients |-> Asked(c)] = [c \in Clients |-> 0]
      /\ [c \in Clients |-> Given(c)] = [c \in Clients |-> <<>>]
      /\ [c \in Clients |-> Seen(c)] = [c \in Clients |-> 0]
      /\ [c \in Clients |-> Over(c)] = [c \in Clients |-> FALSE]
  BY <1>2
<1>4. {c \in Clients : Faultless(c)} \subseteq Clients
  OBVIOUS
<1> QED BY <1>3, <1>4 DEF Service!Init

\* Every step of the loop, of the kernel and of the clients is a step of the
\* ordered service, or none: the server implements it.
THEOREM ServerImplementsService == Spec => ImplementsService
<1>1. Init => Service!Init
  BY InitService
<1>2. IndInv /\ IndInv' /\ StreamInv /\ StreamInv' /\ [Next]_vars => [Service!Next]_(Service!vars)
  <2> SUFFICES ASSUME IndInv, IndInv', StreamInv, StreamInv', [Next]_vars
               PROVE  [Service!Next]_(Service!vars)
    OBVIOUS
  <2>1. /\ UNCHANGED script
        /\ \/ \A e \in Clients : Unmoved(e)
           \/ \E c \in Clients : \A e \in Clients : e # c => Unmoved(e)
    BY OneConcerned
  <2>2. CASE \A e \in Clients : Unmoved(e)
    <3>1. \A e \in Clients : Same(e)
      BY <2>2, UnmovedSame
    <3> QED BY <2>1, <3>1, NoneServed
  <2>3. CASE \E c \in Clients : \A e \in Clients : e # c => Unmoved(e)
    <3>1. PICK c \in Clients : \A e \in Clients : e # c => Unmoved(e)
      BY <2>3
    <3>2. \A e \in Clients : e # c => Same(e)
      BY <3>1, UnmovedSame
    <3> QED BY <2>1, <3>2, EachServed, OneServed
  <2> QED BY <2>1, <2>2, <2>3
<1> QED BY <1>1, <1>2, Invariance, StreamInvariance, PTL DEF Spec, ImplementsService, Service!Spec

=============================================================================
