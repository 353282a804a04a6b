--------------------------- MODULE AccessorsProofs ---------------------------
(***************************************************************************)
(* What a handler reads of a request, for any texts, keys, bounds and      *)
(* contents of memory: the strings of cttp_query and cttp_form live        *)
(* through the next call; cttp_url_decode undoes cttp_url_encode, so that  *)
(* a segment and the pairs of a query or form are read as they were sent;  *)
(* cookies are those of the request at hand; and json_quote writes what a  *)
(* JSON reader takes back.                                                 *)
(***************************************************************************)
EXTENDS Accessors, SequenceTheorems, WellFoundedInduction, TLAPS

\* The last call of f that found something wrote the buffer used last, the
\* one before it the other buffer.
Written(f) ==
  /\ slot[f] \in 1 .. 2
  /\ DOMAIN out[f] = 1 .. 2
  /\ held[f][2] # NotFound =>
       held[f][2].at = slot[f] /\ out[f][slot[f]] = held[f][2].value
  /\ held[f][1] # NotFound =>
       held[f][1].at = 3 - slot[f] /\ out[f][3 - slot[f]] = held[f][1].value

BuffersInv ==
  /\ DOMAIN slot = Rotating /\ DOMAIN out = Rotating /\ DOMAIN held = Rotating
  /\ \A f \in Rotating : Written(f)

(***************************************************************************)
(* Both buffers are as the invariant says before the first request.        *)
(***************************************************************************)
LEMMA BuffersInit == Init => BuffersInv
  BY DEF Init, BuffersInv, Written, NotFound

(***************************************************************************)
(* A search of f by cttp_query or cttp_form keeps them so: it leaves the   *)
(* buffer used last alone.                                                 *)
(***************************************************************************)
LEMMA SearchKeeps ==
  ASSUME BuffersInv, NEW f \in Rotating, NEW text, Search(f, text)
  PROVE  BuffersInv'
<1> DEFINE now == NextSlot(f)
<1>1. PICK value :
        /\ slot' = [slot EXCEPT ![f] = now]
        /\ out' = IF value = NULL THEN out ELSE [out EXCEPT ![f][now] = value]
        /\ held' = [held EXCEPT ![f] =
             <<@[2], IF value = NULL THEN NotFound ELSE [at |-> now, value |-> value]>>]
  BY DEF Search
<1>2. slot[f] \in 1 .. 2 /\ now = 3 - slot[f] /\ now \in 1 .. 2
  BY DEF BuffersInv, Written, NextSlot, Other
<1>3. slot'[f] = now /\ 3 - now = slot[f] /\ now # slot[f]
  BY <1>1, <1>2 DEF BuffersInv
<1>4. DOMAIN slot' = Rotating /\ DOMAIN out' = Rotating /\ DOMAIN held' = Rotating
  BY <1>1 DEF BuffersInv
<1>5. DOMAIN out'[f] = 1 .. 2 /\ out'[f][slot[f]] = out[f][slot[f]]
  BY <1>1, <1>2, <1>3 DEF BuffersInv, Written
<1>6. value # NULL => out'[f][now] = value
  BY <1>1, <1>2 DEF BuffersInv, Written
<1>7. /\ held'[f][1] = held[f][2]
      /\ held'[f][2] = IF value = NULL THEN NotFound ELSE [at |-> now, value |-> value]
  BY <1>1 DEF BuffersInv
<1>8. Written(f)'
  <2>1. held'[f][2] # NotFound => held'[f][2].at = slot'[f] /\ out'[f][slot'[f]] = held'[f][2].value
    BY <1>3, <1>6, <1>7
  <2>2. held'[f][1] # NotFound =>
          held'[f][1].at = 3 - slot'[f] /\ out'[f][3 - slot'[f]] = held'[f][1].value
    BY <1>3, <1>5, <1>7 DEF BuffersInv, Written
  <2> QED
    BY <2>1, <2>2, <1>2, <1>3, <1>5 DEF Written
<1>9. ASSUME NEW g \in Rotating, g # f PROVE Written(g)'
  <2>1. slot'[g] = slot[g] /\ out'[g] = out[g] /\ held'[g] = held[g]
    BY <1>1, <1>9 DEF BuffersInv
  <2> QED
    BY <2>1 DEF BuffersInv, Written
<1> QED
  BY <1>4, <1>8, <1>9 DEF BuffersInv

(***************************************************************************)
(* So does every step: requests, cttp_cookie and cttp_param do not touch   *)
(* the buffers.                                                            *)
(***************************************************************************)
LEMMA BuffersStep == BuffersInv /\ [Next]_vars => BuffersInv'
<1> SUFFICES ASSUME BuffersInv, [Next]_vars PROVE BuffersInv'
  OBVIOUS
<1>1. ASSUME UNCHANGED <<out, slot, held>> PROVE BuffersInv'
  BY <1>1 DEF BuffersInv, Written
<1>2. CASE Request
  BY <1>1, <1>2 DEF Request, Arrive
<1>3. CASE Query
  <2>1. "query" \in Rotating
    BY DEF Rotating
  <2> QED
    BY <1>3, <2>1, SearchKeeps DEF Query
<1>4. CASE Form
  <2>1. "form" \in Rotating
    BY DEF Rotating
  <2> QED
    BY <1>4, <2>1, SearchKeeps DEF Form
<1>5. CASE FormOfNone
  BY <1>1, <1>5 DEF FormOfNone
<1>6. CASE Cookie
  BY <1>1, <1>6 DEF Cookie
<1>7. CASE Param
  BY <1>1, <1>7 DEF Param
<1>8. CASE UNCHANGED vars
  BY <1>1, <1>8 DEF vars
<1> QED
  BY <1>2, <1>3, <1>4, <1>5, <1>6, <1>7, <1>8 DEF Next

(***************************************************************************)
(* A string that cttp_query or cttp_form returned stays what it was until  *)
(* the second next call.                                                   *)
(***************************************************************************)
THEOREM ValuesAreHeld == Spec => []TwoValuesHeld
<1>1. BuffersInv => TwoValuesHeld
  <2> SUFFICES ASSUME BuffersInv, NEW f \in Rotating, NEW k \in 1 .. 2, held[f][k] # NotFound
               PROVE  out[f][held[f][k].at] = held[f][k].value
    BY DEF TwoValuesHeld
  <2>1. k = 1 \/ k = 2
    OBVIOUS
  <2> QED
    BY <2>1 DEF BuffersInv, Written
<1> QED
  BY <1>1, BuffersInit, BuffersStep, PTL DEF Spec

-----------------------------------------------------------------------------
(* Induction over numbers up to a bound, in terms of sets.                 *)

\* Every set of numbers that is not empty has its least.
LEMMA LeastNumber ==
  ASSUME NEW S \in SUBSET Nat, S # {}
  PROVE  \E m \in S : \A n \in S : m <= n
<1> DEFINE R == OpToRel(<, Nat)
<1>1. IsWellFoundedOn(R, Nat)
  BY NatLessThanWellFounded, Zenon
<1> HIDE DEF R
<1>2. PICK m \in S : \A n \in S : ~ (<<n, m>> \in R)
  BY <1>1, WFMin
<1>3. ASSUME NEW n \in S
      PROVE  m <= n
  <2>1. ~(n < m)
    BY <1>2 DEF R, OpToRel
  <2> QED BY <2>1
<1> QED BY <1>3

\* Upwards from 0.
LEMMA Upwards ==
  ASSUME NEW n \in Nat, NEW B, 0 \in B, \A k \in 1 .. n : k - 1 \in B => k \in B
  PROVE  \A k \in 0 .. n : k \in B
<1> DEFINE Out == {k \in 0 .. n : k \notin B}
<1>1. CASE Out = {}
  BY <1>1
<1>2. CASE Out # {}
  <2>1. PICK m \in Out : \A k \in Out : m <= k
    <3>1. Out \in SUBSET Nat
      OBVIOUS
    <3> HIDE DEF Out
    <3> QED BY <1>2, <3>1, LeastNumber
  <2>2. m \in 1 .. n /\ m \notin B
    BY <2>1
  <2>3. m - 1 \in B
    BY <2>1, <2>2
  <2> QED BY <2>2, <2>3
<1> QED BY <1>1, <1>2

\* Downwards from n + 1.
LEMMA Downwards ==
  ASSUME NEW n \in Nat, NEW B, n + 1 \in B, \A k \in 1 .. n : k + 1 \in B => k \in B
  PROVE  \A k \in 1 .. n + 1 : k \in B
<1> DEFINE C == {j \in 0 .. n : n + 1 - j \in B}
<1>1. 0 \in C
  OBVIOUS
<1>2. ASSUME NEW j \in 1 .. n, j - 1 \in C
      PROVE  j \in C
  <2>1. n + 1 - j \in 1 .. n /\ (n + 1 - j) + 1 = n + 1 - (j - 1)
    OBVIOUS
  <2>2. n + 1 - (j - 1) \in B
    BY <1>2
  <2>3. n + 1 - j \in B
    BY <2>1, <2>2
  <2> QED BY <2>3
<1>3. \A j \in 0 .. n : j \in C
  <2> HIDE DEF C
  <2> QED BY <1>1, <1>2, Upwards
<1>4. ASSUME NEW k \in 1 .. n + 1
      PROVE  k \in B
  <2>1. n + 1 - k \in 0 .. n /\ n + 1 - (n + 1 - k) = k
    OBVIOUS
  <2> QED BY <1>3, <2>1
<1> QED BY <1>4

\* Downwards, from all that is above.
LEMMA FromAbove ==
  ASSUME NEW n \in Nat, NEW B,
         \A k \in 1 .. n : (\A j \in k + 1 .. n : j \in B) => k \in B
  PROVE  \A k \in 1 .. n : k \in B
<1> DEFINE A == {k \in 1 .. n + 1 : \A j \in k .. n : j \in B}
<1>1. n + 1 \in A
  OBVIOUS
<1>2. ASSUME NEW k \in 1 .. n, k + 1 \in A
      PROVE  k \in A
  <2>1. k \in B
    BY <1>2
  <2>2. \A j \in k .. n : j = k \/ j \in k + 1 .. n
    OBVIOUS
  <2> QED BY <1>2, <2>1, <2>2
<1>3. \A k \in 1 .. n + 1 : k \in A
  <2> HIDE DEF A
  <2> QED BY <1>1, <1>2, Downwards
<1> QED BY <1>3

\* A function whose values are e beyond n and what H makes of it up to there.
Defined(n, N, U, e, H) ==
  \E f \in [1 .. N -> U] : \A i \in 1 .. N : f[i] = IF i > n THEN e ELSE H[i][f]

\* It can be defined from above if H uses only the values behind.
LEMMA DefinedFromAbove ==
  ASSUME NEW n \in Nat, NEW N \in Nat, n <= N, NEW U, NEW e \in U, NEW H,
         \A i \in 1 .. n : \A f \in [1 .. N -> U] : H[i][f] \in U,
         \A i \in 1 .. n : \A f \in [1 .. N -> U], g \in [1 .. N -> U] :
           (\A j \in i + 1 .. N : f[j] = g[j]) => H[i][f] = H[i][g]
  PROVE  Defined(n, N, U, e, H)
<1> DEFINE Right(f, k) == \A i \in k .. N : f[i] = IF i > n THEN e ELSE H[i][f]
           B == {k \in 1 .. n + 1 : \E f \in [1 .. N -> U] : Right(f, k)}
<1>1. n + 1 \in B
  <2> DEFINE f == [i \in 1 .. N |-> e]
  <2>1. f \in [1 .. N -> U] /\ Right(f, n + 1)
    OBVIOUS
  <2> QED BY <2>1
<1>2. ASSUME NEW k \in 1 .. n, k + 1 \in B
      PROVE  k \in B
  <2>1. PICK g \in [1 .. N -> U] : Right(g, k + 1)
    BY <1>2
  <2>2. PICK v \in U : v = H[k][g]
    OBVIOUS
  <2> DEFINE f == [g EXCEPT ![k] = v]
  <2>3. f \in [1 .. N -> U] /\ f[k] = v /\ \A j \in k + 1 .. N : f[j] = g[j]
    OBVIOUS
  <2> HIDE DEF f
  <2>4. ASSUME NEW i \in k .. n
        PROVE  H[i][f] = H[i][g]
    <3>1. i \in 1 .. n /\ \A j \in i + 1 .. N : j \in k + 1 .. N
      OBVIOUS
    <3>2. \A j \in i + 1 .. N : f[j] = g[j]
      BY <2>3, <3>1
    <3> QED BY <2>3, <3>1, <3>2
  <2>5. ASSUME NEW i \in k .. N
        PROVE  f[i] = IF i > n THEN e ELSE H[i][f]
    <3>1. CASE i = k
      BY <2>2, <2>3, <2>4, <3>1
    <3>2. CASE i # k
      <4>1. i \in k + 1 .. N
        BY <3>2
      <4>2. f[i] = IF i > n THEN e ELSE H[i][g]
        BY <2>1, <2>3, <4>1
      <4>3. ~(i > n) => i \in k .. n
        OBVIOUS
      <4> QED BY <2>4, <4>2, <4>3
    <3> QED BY <3>1, <3>2
  <2> QED BY <2>3, <2>5
<1>3. 1 \in B
  <2>1. 1 \in 1 .. n + 1
    OBVIOUS
  <2> HIDE DEF B
  <2> QED BY <1>1, <1>2, <2>1, Downwards
<1> QED BY <1>3 DEF Defined

-----------------------------------------------------------------------------
(* Joined pieces.                                                          *)

\* What two sequences are joined.
LEMMA JoinIs ==
  ASSUME NEW S, NEW s \in Seq(S), NEW t \in Seq(S), NEW p \in Nat, p = Len(s),
         NEW q \in Nat, q = Len(t)
  PROVE  /\ s \o t \in Seq(S) /\ Len(s \o t) = p + q
         /\ \A k \in 1 .. p : (s \o t)[k] = s[k]
         /\ \A k \in 1 .. q : (s \o t)[p + k] = t[k]
<1>1. s \o t \in Seq(S) /\ Len(s \o t) = p + q
  BY ConcatProperties
<1>2. \A k \in 1 .. p + q : (s \o t)[k] = IF k <= p THEN s[k] ELSE t[k - p]
  BY ConcatProperties
<1>3. ASSUME NEW k \in 1 .. q
      PROVE  (s \o t)[p + k] = t[k]
  <2>1. p + k \in 1 .. p + q /\ ~(p + k <= p) /\ (p + k) - p = k
    OBVIOUS
  <2> QED BY <1>2, <2>1
<1>4. ASSUME NEW k \in 1 .. p
      PROVE  (s \o t)[k] = s[k]
  <2>1. k \in 1 .. p + q /\ k <= p
    OBVIOUS
  <2> QED BY <1>2, <2>1
<1> QED BY <1>1, <1>3, <1>4

\* What FlattenSeq goes through.
Joins(f, pieces, n) ==
  \A i \in 1 .. n : f[i] = IF i = 1 THEN pieces[i] ELSE f[i - 1] \o pieces[i]

\* Pieces can be joined.
LEMMA JoinsExists ==
  ASSUME NEW pieces, NEW n \in Nat
  PROVE  \E f : Joins(f, pieces, n)
<1> DEFINE Has(k) == \E f : Joins(f, pieces, k)
           B == {k \in 0 .. n : Has(k)}
<1>1. 0 \in B
  BY DEF Joins
<1>2. ASSUME NEW k \in 1 .. n, k - 1 \in B
      PROVE  k \in B
  <2>1. PICK g : Joins(g, pieces, k - 1)
    BY <1>2
  <2>2. PICK v : v = IF k = 1 THEN pieces[k] ELSE g[k - 1] \o pieces[k]
    OBVIOUS
  <2> DEFINE f == [i \in 1 .. k |-> IF i = k THEN v ELSE g[i]]
  <2>3. f[k] = v /\ \A i \in 1 .. k - 1 : f[i] = g[i]
    OBVIOUS
  <2> HIDE DEF f
  <2>4. ASSUME NEW i \in 1 .. k
        PROVE  f[i] = IF i = 1 THEN pieces[i] ELSE f[i - 1] \o pieces[i]
    <3>1. i # 1 => f[i - 1] = g[i - 1]
      BY <2>3
    <3>2. CASE i = k
      BY <2>2, <2>3, <3>1, <3>2
    <3>3. CASE i # k
      <4>1. i \in 1 .. k - 1
        BY <3>3
      <4> QED BY <2>1, <2>3, <3>1, <4>1 DEF Joins
    <3> QED BY <3>2, <3>3
  <2>5. Joins(f, pieces, k)
    BY <2>4, Zenon DEF Joins
  <2> QED BY <2>5
<1>3. \A k \in 0 .. n : k \in B
  <2> HIDE DEF B
  <2> QED BY <1>1, <1>2, Upwards
<1> QED BY <1>3

\* What FlattenSeq is.
LEMMA FlattenIs ==
  ASSUME NEW pieces, NEW n \in Nat \ {0}, n = Len(pieces)
  PROVE  \E f : Joins(f, pieces, n) /\ FlattenSeq(pieces) = f[n]
<1> DEFINE P(f) == f = [i \in 1 .. Len(pieces) |->
                          IF i = 1 THEN pieces[i] ELSE f[i - 1] \o pieces[i]]
<1>1. PICK g : Joins(g, pieces, n)
  BY JoinsExists
<1> DEFINE f == [i \in 1 .. n |-> g[i]]
<1>2. P(f)
  <2>1. ASSUME NEW i \in 1 .. n
        PROVE  f[i] = IF i = 1 THEN pieces[i] ELSE f[i - 1] \o pieces[i]
    <3>1. f[i] = g[i] /\ (i # 1 => f[i - 1] = g[i - 1])
      OBVIOUS
    <3> HIDE DEF f
    <3> QED BY <1>1, <3>1 DEF Joins
  <2>2. f = [i \in 1 .. n |-> f[i]]
    OBVIOUS
  <2> HIDE DEF f
  <2> QED BY <2>1, <2>2
<1> HIDE DEF f
<1> DEFINE c == CHOOSE h : P(h)
<1>3. P(c)
  <2> HIDE DEF P
  <2> QED BY <1>2
<1>4. FlattenSeq(pieces) = c[n]
  BY DEF FlattenSeq
<1> HIDE DEF c
<1>5. \A i \in 1 .. n : c[i] = IF i = 1 THEN pieces[i] ELSE c[i - 1] \o pieces[i]
  BY <1>3
<1> QED BY <1>4, <1>5, Zenon DEF Joins

\* Each piece stands in t behind position o[k - 1].
Laid(t, pieces, n, o) ==
  /\ o[0] = 0 /\ o[n] = Len(t)
  /\ \A k \in 1 .. n :
       /\ o[k - 1] \in Nat /\ o[k] = o[k - 1] + Len(pieces[k]) /\ o[k] <= Len(t)
       /\ \A j \in 1 .. Len(pieces[k]) : t[o[k - 1] + j] = pieces[k][j]

\* Flattened pieces lie one behind the other.
LEMMA FlattenLaid ==
  ASSUME NEW S, NEW pieces \in Seq(Seq(S)), NEW n \in Nat, n = Len(pieces)
  PROVE  /\ FlattenSeq(pieces) \in Seq(S)
         /\ \E o \in [0 .. n -> Nat] : Laid(FlattenSeq(pieces), pieces, n, o)
<1>1. CASE n = 0
  <2>1. pieces = <<>> /\ FlattenSeq(pieces) = <<>>
    <3>1. pieces = <<>> /\ Len(pieces) = 0
      BY <1>1, EmptySeq
    <3>2. FlattenSeq(pieces) = pieces
      BY <3>1, Zenon DEF FlattenSeq
    <3> QED BY <3>1, <3>2
  <2> DEFINE o == [k \in 0 .. 0 |-> 0]
  <2>2. Laid(<<>>, pieces, n, o)
    BY <1>1 DEF Laid
  <2>3. o \in [0 .. n -> Nat]
    BY <1>1
  <2> HIDE DEF o
  <2> QED BY <2>1, <2>2, <2>3
<1>2. CASE n # 0
  <2>1. PICK f : Joins(f, pieces, n) /\ FlattenSeq(pieces) = f[n]
    BY <1>2, FlattenIs
  <2>2. \A k \in 1 .. n : pieces[k] \in Seq(S) /\ Len(pieces[k]) \in Nat
    OBVIOUS
  <2>3. \A k \in 0 .. n : k \in {0} \cup {m \in 1 .. n : f[m] \in Seq(S)}
    <3> DEFINE B == {0} \cup {m \in 1 .. n : f[m] \in Seq(S)}
    <3>1. ASSUME NEW k \in 1 .. n, k - 1 \in B
          PROVE  k \in B
      <4>1. CASE k = 1
        BY <2>1, <2>2, <4>1 DEF Joins
      <4>2. CASE k # 1
        <5>1. f[k - 1] \in Seq(S) /\ pieces[k] \in Seq(S)
          BY <2>2, <3>1, <4>2
        <5>2. f[k] = f[k - 1] \o pieces[k]
          BY <2>1, <4>2 DEF Joins
        <5>3. f[k - 1] \o pieces[k] \in Seq(S)
          BY <5>1, ConcatProperties
        <5> QED BY <5>2, <5>3
      <4> QED BY <4>1, <4>2
    <3>2. 0 \in B
      OBVIOUS
    <3> HIDE DEF B
    <3>3. \A k \in 0 .. n : k \in B
      BY <3>1, <3>2, Upwards
    <3> QED BY <3>3 DEF B
  <2>4. \A k \in 1 .. n : f[k] \in Seq(S) /\ Len(f[k]) \in Nat
    BY <2>3
  <2> DEFINE o == [k \in 0 .. n |-> IF k = 0 THEN 0 ELSE Len(f[k])]
  <2>5. o \in [0 .. n -> Nat] /\ o[0] = 0 /\ \A k \in 1 .. n : o[k] = Len(f[k])
    BY <2>4
  <2> HIDE DEF o
  <2>6. ASSUME NEW k \in 1 .. n
        PROVE  /\ o[k] = o[k - 1] + Len(pieces[k])
               /\ k # 1 => \A x \in 1 .. o[k - 1] : f[k][x] = f[k - 1][x]
               /\ \A j \in 1 .. Len(pieces[k]) : f[k][o[k - 1] + j] = pieces[k][j]
    <3>1. PICK q \in Nat : q = Len(pieces[k])
      BY <2>2
    <3>2. CASE k = 1
      <4>1. f[k] = pieces[k] /\ o[k - 1] = 0 /\ o[k] = q
        BY <2>1, <2>5, <3>1, <3>2 DEF Joins
      <4> QED BY <3>1, <3>2, <4>1
    <3>3. CASE k # 1
      <4>1. k - 1 \in 1 .. n
        BY <3>3
      <4>2. PICK p \in Nat : p = Len(f[k - 1]) /\ p = o[k - 1]
        BY <2>4, <2>5, <4>1
      <4>3. f[k] = f[k - 1] \o pieces[k]
        BY <2>1, <3>3 DEF Joins
      <4>4. f[k - 1] \in Seq(S) /\ pieces[k] \in Seq(S)
        BY <2>2, <2>4, <4>1
      <4>5. /\ Len(f[k]) = p + q
            /\ \A x \in 1 .. p : f[k][x] = f[k - 1][x]
            /\ \A j \in 1 .. q : f[k][p + j] = pieces[k][j]
        <5>1. PICK a \in Seq(S), b \in Seq(S) : a = f[k - 1] /\ b = pieces[k]
          BY <4>4
        <5>2. p = Len(a) /\ q = Len(b)
          BY <3>1, <4>2, <5>1
        <5>3. /\ Len(a \o b) = p + q
              /\ \A x \in 1 .. p : (a \o b)[x] = a[x]
              /\ \A j \in 1 .. q : (a \o b)[p + j] = b[j]
          BY <5>2, JoinIs
        <5> QED BY <4>3, <5>1, <5>3, Zenon
      <4> QED BY <2>5, <3>1, <4>2, <4>5
    <3> QED BY <3>2, <3>3
  <2> DEFINE Kept(m) == \A k \in 1 .. m : o[k] <= o[m] /\ \A x \in 1 .. o[k] : f[m][x] = f[k][x]
             B == {m \in 0 .. n : Kept(m)}
  <2>7. \A m \in 0 .. n : m \in B
    <3>1. 0 \in B
      OBVIOUS
    <3>2. ASSUME NEW m \in 1 .. n, m - 1 \in B
          PROVE  m \in B
      <4>1. ASSUME NEW k \in 1 .. m
            PROVE  o[k] <= o[m] /\ \A x \in 1 .. o[k] : f[m][x] = f[k][x]
        <5>1. o[k] \in Nat /\ o[m] \in Nat /\ o[m - 1] \in Nat /\ Len(pieces[m]) \in Nat
          <6>1. k \in 0 .. n /\ m \in 0 .. n /\ m - 1 \in 0 .. n
            OBVIOUS
          <6> QED BY <2>2, <2>5, <6>1
        <5>2. CASE k = m
          BY <5>1, <5>2
        <5>3. CASE k # m
          <6>1. k \in 1 .. m - 1 /\ m # 1
            BY <5>3
          <6>2. o[k] <= o[m - 1] /\ \A x \in 1 .. o[k] : f[m - 1][x] = f[k][x]
            BY <3>2, <6>1
          <6>3. o[m] = o[m - 1] + Len(pieces[m]) /\ \A x \in 1 .. o[m - 1] : f[m][x] = f[m - 1][x]
            BY <2>6, <6>1
          <6>4. \A x \in 1 .. o[k] : x \in 1 .. o[m - 1]
            BY <5>1, <6>2
          <6> QED BY <5>1, <6>2, <6>3, <6>4
        <5> QED BY <5>2, <5>3
      <4> QED BY <4>1
    <3> HIDE DEF B
    <3> QED BY <3>1, <3>2, Upwards
  <2>8. Kept(n)
    BY <2>7
  <2>9. ASSUME NEW k \in 1 .. n
        PROVE  /\ o[k - 1] \in Nat /\ o[k] = o[k - 1] + Len(pieces[k]) /\ o[k] <= o[n]
               /\ \A j \in 1 .. Len(pieces[k]) : f[n][o[k - 1] + j] = pieces[k][j]
    <3>1. o[k - 1] \in Nat /\ o[k] = o[k - 1] + Len(pieces[k]) /\ o[k] <= o[n]
      <4>1. k - 1 \in 0 .. n
        OBVIOUS
      <4>2. o[k] <= o[n]
        BY <2>8
      <4> QED BY <2>5, <2>6, <4>1, <4>2
    <3>2. ASSUME NEW j \in 1 .. Len(pieces[k])
          PROVE  f[n][o[k - 1] + j] = pieces[k][j]
      <4>1. o[k - 1] + j \in 1 .. o[k]
        BY <2>2, <3>1
      <4>2. f[n][o[k - 1] + j] = f[k][o[k - 1] + j]
        BY <2>8, <4>1
      <4> QED BY <2>6, <4>2
    <3> QED BY <3>1, <3>2
  <2>10. o[n] = Len(f[n]) /\ f[n] \in Seq(S)
    BY <1>2, <2>4, <2>5
  <2>11. Laid(f[n], pieces, n, o)
    BY <2>5, <2>9, <2>10 DEF Laid
  <2> QED BY <2>1, <2>5, <2>10, <2>11
<1> QED BY <1>1, <1>2

\* An element in front of what follows it.
LEMMA InFront ==
  ASSUME NEW S, NEW s \in Seq(S), NEW n \in Nat, n = Len(s), NEW k \in 1 .. n
  PROVE  <<s[k]>> \o SubSeq(s, k + 1, n) = SubSeq(s, k, n)
<1>1. k \in 1 .. Len(s) /\ n \in k .. Len(s)
  OBVIOUS
<1> QED BY <1>1, SubSeqRecursiveFirst

\* At each of the positions o, g has an element of s in front.
Yields(g, o, s, n) ==
  g[o[n]] = <<>> /\ \A k \in 1 .. n : g[o[k - 1]] = <<s[k]>> \o g[o[k]]

\* So s is read off element by element.
LEMMA ReadOff ==
  ASSUME NEW S, NEW s \in Seq(S), NEW n \in Nat, n = Len(s), NEW g, NEW o, Yields(g, o, s, n)
  PROVE  g[o[0]] = s
<1> DEFINE B == {k \in 1 .. n + 1 : g[o[k - 1]] = SubSeq(s, k, n)}
<1>1. n + 1 \in B
  <2>1. n < n + 1 /\ (n + 1) - 1 = n
    OBVIOUS
  <2>2. SubSeq(s, n + 1, n) = <<>>
    BY <2>1, SubSeqEmpty
  <2>3. n + 1 \in 1 .. n + 1 /\ g[o[(n + 1) - 1]] = g[o[n]]
    BY <2>1
  <2>4. g[o[(n + 1) - 1]] = SubSeq(s, n + 1, n)
    BY <2>2, <2>3 DEF Yields
  <2> QED BY <2>3, <2>4, Zenon
<1>2. ASSUME NEW k \in 1 .. n, k + 1 \in B
      PROVE  k \in B
  <2>1. g[o[k]] = SubSeq(s, k + 1, n)
    BY <1>2
  <2>2. g[o[k - 1]] = SubSeq(s, k, n)
    BY <2>1, InFront DEF Yields
  <2> QED BY <2>2
<1>3. 1 \in B
  <2>1. 1 \in 1 .. n + 1
    OBVIOUS
  <2> HIDE DEF B
  <2> QED BY <1>1, <1>2, <2>1, Downwards
<1>4. SubSeq(s, 1, n) = s
  BY SubSeqFull
<1> QED BY <1>3, <1>4

-----------------------------------------------------------------------------
(* Decoding escapes.                                                       *)

Unit == Byte \cup {Bad}
Bytes == Seq(Byte)

\* What decoding yields from position i on, if it yields one and three from
\* the positions behind a character and behind an escape.
UnitAt(src, i, plus, one, three) ==
  IF i > Len(src) THEN <<>>
  ELSE IF StartsEscape(src, i)
    THEN LET v == Escaped(src[i + 1], src[i + 2])
         IN  IF v = Bad THEN <<Bad>> ELSE <<v>> \o three
  ELSE <<IF src[i] = Plus /\ plus THEN Blank ELSE src[i]>> \o one

\* The value of a hexadecimal digit.
LEMMA HexValueType ==
  ASSUME NEW c \in Byte
  PROVE  HexValue(c) \in (0 .. 15) \cup {Bad}
BY DEF HexValue, Byte, Bad

\* An escape is a byte, or bad.
LEMMA EscapedType ==
  ASSUME NEW c \in Byte, NEW d \in Byte
  PROVE  Escaped(c, d) \in Unit
<1>1. PICK x : x = HexValue(c)
  OBVIOUS
<1>2. PICK y : y = HexValue(d)
  OBVIOUS
<1>3. x \in (0 .. 15) \cup {Bad} /\ y \in (0 .. 15) \cup {Bad}
  BY <1>1, <1>2, HexValueType
<1>4. CASE y = Bad
  BY <1>2, <1>4 DEF Escaped, Unit
<1>5. CASE y # Bad /\ x # Bad
  <2>1. Escaped(c, d) = 16 * x + y
    BY <1>1, <1>2, <1>5, Zenon DEF Escaped
  <2> QED BY <1>3, <1>5, <2>1 DEF Unit, Byte
<1>6. CASE y # Bad /\ x = Bad
  <2>1. Escaped(c, d) \in {y, (256 - y) % 256, Bad}
    BY <1>1, <1>2, <1>6 DEF Escaped
  <2>2. y \in Byte /\ (256 - y) % 256 \in Byte
    BY <1>3, <1>6 DEF Byte
  <2> QED BY <2>1, <2>2 DEF Unit
<1> QED BY <1>4, <1>5, <1>6

\* Decoding yields bytes, up to a bad escape.
LEMMA UnitAtType ==
  ASSUME NEW src \in Bytes, NEW l \in Nat, l = Len(src), NEW i \in Nat \ {0}, NEW plus,
         NEW one \in Seq(Unit), NEW three \in Seq(Unit)
  PROVE  UnitAt(src, i, plus, one, three) \in Seq(Unit)
<1>1. CASE i > l
  BY <1>1 DEF UnitAt
<1>2. CASE ~(i > l) /\ StartsEscape(src, i)
  <2>1. i + 1 \in 1 .. l /\ i + 2 \in 1 .. l
    BY <1>2 DEF StartsEscape
  <2>2. src[i + 1] \in Byte /\ src[i + 2] \in Byte
    BY <2>1 DEF Bytes
  <2>3. PICK v \in Unit : v = Escaped(src[i + 1], src[i + 2])
    BY <2>2, EscapedType
  <2>4. UnitAt(src, i, plus, one, three) = IF v = Bad THEN <<Bad>> ELSE <<v>> \o three
    BY <1>2, <2>3 DEF UnitAt
  <2>5. <<Bad>> \in Seq(Unit) /\ <<v>> \in Seq(Unit)
    BY DEF Unit
  <2>6. <<v>> \o three \in Seq(Unit)
    BY <2>5, ConcatProperties
  <2> QED BY <2>4, <2>5, <2>6
<1>3. CASE ~(i > l) /\ ~StartsEscape(src, i)
  <2>1. src[i] \in Byte
    BY <1>3 DEF Bytes
  <2>2. PICK v \in Unit : v = IF src[i] = Plus /\ plus THEN Blank ELSE src[i]
    BY <2>1 DEF Unit, Byte, Blank
  <2>3. UnitAt(src, i, plus, one, three) = <<v>> \o one
    BY <1>3, <2>2 DEF UnitAt
  <2>4. <<v>> \in Seq(Unit)
    OBVIOUS
  <2>5. <<v>> \o one \in Seq(Unit)
    BY <2>4, ConcatProperties
  <2> QED BY <2>3, <2>5
<1> QED BY <1>1, <1>2, <1>3

\* The positions, with what decoding yields from each on.
Decodes(g, src, plus, l) ==
  \A i \in 1 .. l + 3 : g[i] = UnitAt(src, i, plus, g[i + 1], g[i + 3])

\* What Units is.
LEMMA UnitsIs ==
  ASSUME NEW src \in Bytes, NEW plus, NEW l \in Nat, l = Len(src)
  PROVE  \E g \in [1 .. l + 3 -> Seq(Unit)] :
           Decodes(g, src, plus, l) /\ Units(src, plus) = g[1]
<1> DEFINE N == l + 3
           F == [1 .. N -> Seq(Unit)]
           H == [i \in 1 .. l |-> [f \in F |-> UnitAt(src, i, plus, f[i + 1], f[i + 3])]]
           P(f) == f = [i \in 1 .. Len(src) + 3 |-> UnitAt(src, i, plus, f[i + 1], f[i + 3])]
<1>1. N \in Nat /\ l <= N /\ <<>> \in Seq(Unit)
  OBVIOUS
<1>2. ASSUME NEW i \in 1 .. l, NEW f \in F
      PROVE  H[i][f] \in Seq(Unit)
  <2>1. f[i + 1] \in Seq(Unit) /\ f[i + 3] \in Seq(Unit)
    OBVIOUS
  <2> QED BY <2>1, UnitAtType
<1>3. ASSUME NEW i \in 1 .. l, NEW f \in F, NEW g \in F, \A j \in i + 1 .. N : f[j] = g[j]
      PROVE  H[i][f] = H[i][g]
  <2>1. f[i + 1] = g[i + 1] /\ f[i + 3] = g[i + 3]
    BY <1>3
  <2> QED BY <2>1
<1>4. \A i \in 1 .. l, f \in F : H[i][f] = UnitAt(src, i, plus, f[i + 1], f[i + 3])
  OBVIOUS
<1>5. PICK f \in F : \A i \in 1 .. N : f[i] = IF i > l THEN <<>> ELSE H[i][f]
  <2>1. \A i \in 1 .. l : \A f \in F : H[i][f] \in Seq(Unit)
    BY <1>2
  <2>2. \A i \in 1 .. l : \A f \in F, g \in F :
          (\A j \in i + 1 .. N : f[j] = g[j]) => H[i][f] = H[i][g]
    BY <1>3
  <2>3. Defined(l, N, Seq(Unit), <<>>, H)
    <3> HIDE DEF H, N
    <3> QED BY <1>1, <2>1, <2>2, DefinedFromAbove
  <2> HIDE DEF H
  <2> QED BY <2>3 DEF Defined
<1>6. P(f)
  <2>1. ASSUME NEW i \in 1 .. N
        PROVE  f[i] = UnitAt(src, i, plus, f[i + 1], f[i + 3])
    <3> HIDE DEF H
    <3>1. CASE i > l
      BY <1>5, <3>1 DEF UnitAt
    <3>2. CASE ~(i > l)
      <4>1. i \in 1 .. l
        BY <3>2
      <4> QED BY <1>4, <1>5, <3>2, <4>1
    <3> QED BY <3>1, <3>2
  <2>2. f = [i \in 1 .. N |-> f[i]]
    OBVIOUS
  <2> HIDE DEF F, H
  <2> QED BY <2>1, <2>2
<1> HIDE DEF H
<1> DEFINE c == CHOOSE h : P(h)
<1>7. P(c)
  <2> HIDE DEF P
  <2> QED BY <1>6
<1>8. Units(src, plus) = c[1]
  BY DEF Units, UnitAt
<1> HIDE DEF c
<1>9. \A i \in 1 .. N : c[i] = UnitAt(src, i, plus, c[i + 1], c[i + 3])
  BY <1>7
<1>10. \A i \in 1 .. N : c[i] \in Seq(Unit)
  <2> DEFINE B == {i \in 1 .. N : c[i] \in Seq(Unit)}
  <2>1. ASSUME NEW i \in 1 .. N, \A j \in i + 1 .. N : j \in B
        PROVE  i \in B
    <3>1. CASE i > l
      <4>1. UnitAt(src, i, plus, c[i + 1], c[i + 3]) = <<>>
        BY <3>1, Zenon DEF UnitAt
      <4> QED BY <1>1, <1>9, <4>1
    <3>2. CASE ~(i > l)
      <4>1. i + 1 \in i + 1 .. N /\ i + 3 \in i + 1 .. N
        BY <3>2
      <4>2. c[i + 1] \in Seq(Unit) /\ c[i + 3] \in Seq(Unit)
        BY <2>1, <4>1
      <4> QED BY <1>9, <4>2, UnitAtType
    <3> QED BY <3>1, <3>2
  <2>2. \A i \in 1 .. N : i \in B
    <3> HIDE DEF B
    <3> QED BY <1>1, <2>1, FromAbove
  <2> QED BY <2>2
<1>11. c \in F
  <2>1. c = [i \in 1 .. N |-> UnitAt(src, i, plus, c[i + 1], c[i + 3])]
    BY <1>7
  <2>2. c = [i \in 1 .. N |-> c[i]]
    BY <2>1
  <2> QED BY <1>10, <2>2
<1> QED BY <1>8, <1>9, <1>11, Zenon DEF Decodes

\* A text without escapes stands for itself.
LEMMA PlainDecodes ==
  ASSUME NEW s \in Bytes, NEW n \in Nat, n = Len(s), \A k \in 1 .. n : s[k] # Percent
  PROVE  Units(s, FALSE) = s
<1>1. PICK g : Decodes(g, s, FALSE, n) /\ Units(s, FALSE) = g[1]
  BY UnitsIs
<1> DEFINE o == [k \in 0 .. n |-> k + 1]
<1>2. o[0] = 1 /\ o[n] = n + 1 /\ \A k \in 1 .. n : o[k - 1] = k /\ o[k] = k + 1
  OBVIOUS
<1> HIDE DEF o
<1>3. g[n + 1] = <<>>
  <2>1. n + 1 \in 1 .. n + 3 /\ n + 1 > Len(s)
    OBVIOUS
  <2> QED BY <1>1, <2>1 DEF Decodes, UnitAt
<1>4. ASSUME NEW k \in 1 .. n
      PROVE  g[k] = <<s[k]>> \o g[k + 1]
  <2>1. k \in 1 .. n + 3 /\ ~(k > Len(s)) /\ ~StartsEscape(s, k)
    BY DEF StartsEscape
  <2> QED BY <1>1, <2>1 DEF Decodes, UnitAt
<1>5. g[o[0]] = s
  <2>1. Yields(g, o, s, n)
    BY <1>2, <1>3, <1>4 DEF Yields
  <2>2. s \in Seq(Byte)
    BY DEF Bytes
  <2> QED BY <2>1, <2>2, ReadOff
<1> QED BY <1>1, <1>2, <1>5

\* What one character is encoded to.
EncodedChar(c) ==
  IF Safe(c) THEN <<c>> ELSE <<Percent, CharOfHex(c \div 16), CharOfHex(c % 16)>>

\* The two digits of a byte.
LEMMA Digits16 ==
  ASSUME NEW c \in Byte
  PROVE  c \div 16 \in 0 .. 15 /\ c % 16 \in 0 .. 15 /\ 16 * (c \div 16) + (c % 16) = c
BY DEF Byte

\* A digit is read back.
LEMMA DigitReadsBack ==
  ASSUME NEW v \in 0 .. 15
  PROVE  CharOfHex(v) \in Byte /\ HexValue(CharOfHex(v)) = v
<1>1. CASE v < 10
  <2>1. CharOfHex(v) = 48 + v
    BY <1>1 DEF CharOfHex
  <2>2. 48 + v \in 48 .. 57
    BY <1>1
  <2> QED BY <2>1, <2>2 DEF HexValue, Byte
<1>2. CASE ~(v < 10)
  <2>1. CharOfHex(v) = 55 + v
    BY <1>2 DEF CharOfHex
  <2>2. 55 + v \in 65 .. 70 /\ 55 + v \notin 48 .. 57
    BY <1>2
  <2> QED BY <2>1, <2>2 DEF HexValue, Byte
<1> QED BY <1>1, <1>2

\* So is an encoded character.
LEMMA EscapeReadsBack ==
  ASSUME NEW c \in Byte
  PROVE  Escaped(CharOfHex(c \div 16), CharOfHex(c % 16)) = c
<1>1. PICK x \in 0 .. 15, y \in 0 .. 15 : x = c \div 16 /\ y = c % 16 /\ 16 * x + y = c
  BY Digits16
<1>2. HexValue(CharOfHex(x)) = x /\ HexValue(CharOfHex(y)) = y
  BY DigitReadsBack
<1>3. x # Bad /\ y # Bad
  BY DEF Bad
<1>4. Escaped(CharOfHex(x), CharOfHex(y)) = 16 * x + y
  BY <1>2, <1>3, Zenon DEF Escaped
<1> QED BY <1>1, <1>4

\* What an encoded character consists of.
LEMMA EncodedCharType ==
  ASSUME NEW c \in Byte
  PROVE  EncodedChar(c) \in Bytes /\ Len(EncodedChar(c)) = IF Safe(c) THEN 1 ELSE 3
<1>1. CharOfHex(c \div 16) \in Byte /\ CharOfHex(c % 16) \in Byte
  BY Digits16, DigitReadsBack
<1>2. Percent \in Byte
  BY DEF Percent, Byte
<1> QED BY <1>1, <1>2 DEF EncodedChar, Bytes

\* The encoded characters, one behind the other.
LEMMA EncodedLaid ==
  ASSUME NEW s \in Bytes, NEW n \in Nat, n = Len(s)
  PROVE  /\ Encode(s) \in Bytes
         /\ \E o \in [0 .. n -> Nat] :
              Laid(Encode(s), [k \in 1 .. n |-> EncodedChar(s[k])], n, o)
<1> DEFINE p == [k \in 1 .. n |-> EncodedChar(s[k])]
<1>1. \A k \in 1 .. n : s[k] \in Byte
  BY DEF Bytes
<1>2. p \in Seq(Bytes) /\ Len(p) = n
  BY <1>1, EncodedCharType
<1>3. Encode(s) = FlattenSeq(p)
  <2>1. DOMAIN s = 1 .. n
    BY DEF Bytes
  <2>2. p = [k \in DOMAIN s |-> EncodedChar(s[k])]
    BY <2>1
  <2> HIDE DEF p
  <2> QED BY <2>2, Zenon DEF Encode, EncodedChar
<1> HIDE DEF p
<1>4. FlattenSeq(p) \in Bytes /\ \E o \in [0 .. n -> Nat] : Laid(FlattenSeq(p), p, n, o)
  BY <1>2, FlattenLaid DEF Bytes
<1>5. Encode(s) \in Bytes /\ \E o \in [0 .. n -> Nat] : Laid(Encode(s), p, n, o)
  BY <1>3, <1>4
<1> QED BY <1>5 DEF p

\* What is encoded decodes to what it was.
LEMMA EncodeDecodes ==
  ASSUME NEW s \in Bytes, NEW n \in Nat, n = Len(s), NEW plus
  PROVE  Units(Encode(s), plus) = s /\ Len(Encode(s)) >= n
<1>1. PICK t \in Bytes : t = Encode(s)
  BY EncodedLaid
<1>2. PICK q \in [0 .. n -> Nat] : Laid(t, [k \in 1 .. n |-> EncodedChar(s[k])], n, q)
  BY <1>1, EncodedLaid
<1>3. PICK l \in Nat : l = Len(t)
  BY DEF Bytes
<1>4. PICK g : Decodes(g, t, plus, l) /\ Units(t, plus) = g[1]
  BY <1>3, UnitsIs
<1>5. q[0] = 0 /\ q[n] = l
  BY <1>2, <1>3 DEF Laid
<1>6. ASSUME NEW k \in 1 .. n
      PROVE  /\ s[k] \in Byte /\ q[k - 1] \in Nat /\ q[k] <= l
             /\ q[k] = q[k - 1] + Len(EncodedChar(s[k]))
             /\ \A j \in 1 .. Len(EncodedChar(s[k])) : t[q[k - 1] + j] = EncodedChar(s[k])[j]
  BY <1>2, <1>3 DEF Laid, Bytes
<1>7. g[l + 1] = <<>>
  <2>1. l + 1 \in 1 .. l + 3 /\ l + 1 > Len(t)
    BY <1>3
  <2> QED BY <1>4, <2>1 DEF Decodes, UnitAt
<1>8. ASSUME NEW k \in 1 .. n
      PROVE  g[q[k - 1] + 1] = <<s[k]>> \o g[q[k] + 1]
  <2>1. PICK p \in Nat, c \in Byte : p = q[k - 1] /\ c = s[k]
    BY <1>6
  <2>2. CASE Safe(c)
    <3>1. EncodedChar(c) = <<c>>
      BY <2>2, Zenon DEF EncodedChar
    <3>2. q[k] = p + 1 /\ p + 1 <= l /\ t[p + 1] = c
      <4>1. Len(<<c>>) = 1 /\ <<c>>[1] = c /\ 1 \in 1 .. 1
        OBVIOUS
      <4>2. q[k] = p + 1 /\ \A j \in 1 .. 1 : t[p + j] = <<c>>[j]
        BY <1>6, <2>1, <3>1, <4>1, Zenon
      <4> QED BY <1>6, <4>1, <4>2
    <3>3. c # Percent /\ c # Plus
      BY <2>2 DEF Safe, Percent, Plus, Minus
    <3>4. p + 1 \in 1 .. l + 3 /\ ~(p + 1 > Len(t)) /\ ~StartsEscape(t, p + 1)
      BY <1>3, <3>2, <3>3 DEF StartsEscape
    <3>5. g[p + 1] = <<c>> \o g[(p + 1) + 1]
      BY <1>4, <3>2, <3>3, <3>4 DEF Decodes, UnitAt
    <3> QED BY <2>1, <3>2, <3>5
  <2>3. CASE ~Safe(c)
    <3>1. EncodedChar(c) = <<Percent, CharOfHex(c \div 16), CharOfHex(c % 16)>>
      BY <2>3, Zenon DEF EncodedChar
    <3>2. PICK x, y : x = CharOfHex(c \div 16) /\ y = CharOfHex(c % 16)
      OBVIOUS
    <3>3. EncodedChar(c) = <<Percent, x, y>>
      BY <3>1, <3>2
    <3>4. q[k] = p + 3 /\ p + 3 <= l /\ t[p + 1] = Percent /\ t[p + 2] = x /\ t[p + 3] = y
      <4>1. PICK e : e = <<Percent, x, y>>
        OBVIOUS
      <4>2. Len(e) = 3 /\ e[1] = Percent /\ e[2] = x /\ e[3] = y
        BY <4>1
      <4>3. q[k] = p + 3 /\ \A j \in 1 .. 3 : t[p + j] = e[j]
        BY <1>6, <2>1, <3>3, <4>1, <4>2, Zenon
      <4>4. 1 \in 1 .. 3 /\ 2 \in 1 .. 3 /\ 3 \in 1 .. 3
        OBVIOUS
      <4> QED BY <1>6, <4>2, <4>3, <4>4
    <3>5. p + 1 \in 1 .. l + 3 /\ ~(p + 1 > Len(t)) /\ StartsEscape(t, p + 1)
      BY <1>3, <3>4 DEF StartsEscape
    <3>6. Escaped(x, y) = c /\ c # Bad
      <4>1. Escaped(x, y) = c
        BY <3>2, EscapeReadsBack, Zenon
      <4> QED BY <4>1 DEF Byte, Bad
    <3>7. (p + 1) + 1 = p + 2 /\ (p + 1) + 2 = p + 3 /\ (p + 1) + 3 = (p + 3) + 1
      OBVIOUS
    <3>8. g[p + 1] = UnitAt(t, p + 1, plus, g[(p + 1) + 1], g[(p + 1) + 3])
      BY <1>4, <3>5 DEF Decodes
    <3>9. g[p + 1] = <<c>> \o g[(p + 3) + 1]
      BY <3>4, <3>5, <3>6, <3>7, <3>8 DEF UnitAt
    <3> QED BY <2>1, <3>4, <3>9
  <2> QED BY <2>2, <2>3
<1>9. g[1] = s
  <2> DEFINE o == [k \in 0 .. n |-> q[k] + 1]
  <2>1. o[0] = 1 /\ o[n] = l + 1 /\ \A k \in 1 .. n : o[k - 1] = q[k - 1] + 1 /\ o[k] = q[k] + 1
    BY <1>5
  <2> HIDE DEF o
  <2>2. Yields(g, o, s, n)
    BY <1>7, <1>8, <2>1 DEF Yields
  <2>3. g[o[0]] = s
    <3>1. s \in Seq(Byte)
      BY DEF Bytes
    <3> QED BY <2>2, <3>1, ReadOff
  <2> QED BY <2>1, <2>3
<1>10. l >= n
  <2> DEFINE B == {k \in 0 .. n : q[k] >= k}
  <2>1. 0 \in B
    BY <1>5
  <2>2. ASSUME NEW k \in 1 .. n, k - 1 \in B
        PROVE  k \in B
    <3>1. q[k] = q[k - 1] + Len(EncodedChar(s[k])) /\ q[k - 1] \in Nat
      BY <1>6
    <3>2. Len(EncodedChar(s[k])) >= 1 /\ Len(EncodedChar(s[k])) \in Nat
      <4>1. Len(EncodedChar(s[k])) = IF Safe(s[k]) THEN 1 ELSE 3
        BY <1>6, EncodedCharType, Zenon
      <4> QED BY <4>1
    <3> QED BY <2>2, <3>1, <3>2
  <2>3. \A k \in 0 .. n : k \in B
    <3> HIDE DEF B
    <3> QED BY <2>1, <2>2, Upwards
  <2> QED BY <1>5, <2>3
<1> QED BY <1>1, <1>3, <1>4, <1>9, <1>10

\* No more than n elements are kept; if there are no more, all of them.
LEMMA ShorterAll ==
  ASSUME NEW S, NEW s \in Seq(S), NEW n \in Nat, Len(s) <= n
  PROVE  Shorter(s, n) = s
<1>1. SubSeq(s, 1, Len(s)) = s
  BY SubSeqFull
<1>2. (IF Len(s) < n THEN Len(s) ELSE n) = Len(s)
  OBVIOUS
<1> QED BY <1>1, <1>2, Zenon DEF Shorter

\* A C string is all of itself.
LEMMA NoNul ==
  ASSUME NEW s \in Seq(Char)
  PROVE  Upto0(s) = s
<1>1. {i \in 1 .. Len(s) : s[i] = 0} = {}
  BY DEF Char
<1>2. CString(s) = 0
  BY <1>1 DEF CString, SelectInSeq
<1> QED BY <1>2 DEF Upto0

\* What Decode does where there is no bad escape.
LEMMA DecodeGood ==
  ASSUME NEW src, NEW plus, NEW n, Units(src, plus) \in Bytes
  PROVE  Decode(src, n, plus) = [ok |-> Len(Units(src, plus)) < n,
                                 written |-> Shorter(Units(src, plus), n - 1)]
<1>1. PICK s \in Bytes : s = Units(src, plus)
  OBVIOUS
<1>2. Bad \notin ToSet(s)
  <2>1. \A k \in DOMAIN s : s[k] \in Byte
    BY DEF Bytes
  <2>2. Bad \notin Byte
    BY DEF Bad, Byte
  <2> QED BY <2>1, <2>2, Zenon DEF ToSet
<1>3. (IF Bad \in ToSet(s) THEN Front(s) ELSE s) = s
  BY <1>2
<1>4. Decode(src, n, plus) = [ok |-> Len(s) < n, written |-> Shorter(s, n - 1)]
  BY <1>1, <1>2, <1>3 DEF Decode
<1> QED BY <1>1, <1>4

-----------------------------------------------------------------------------
(* The captured segment.                                                   *)

\* What Arrive makes of a segment: the path is decoded, then what route_match
\* captures of it.
Captured(segment) ==
  LET path  == Decode(Encode(segment), Len(Encode(segment)) + 1, FALSE).written
      param == Decode(path, ValueCap, FALSE)
  IN  IF param.ok THEN Upto0(param.written) ELSE NULL

\* A text of characters is a text of bytes.
LEMMA CharsAreBytes ==
  Seq(Char) \subseteq Bytes
BY SeqMonotonic DEF Char, Bytes, Byte

\* A segment without a percent sign is captured as it was.
LEMMA CapturedIs ==
  ASSUME NEW segment \in Seq(Char), Percent \notin ToSet(segment), Len(segment) < ValueCap
  PROVE  Captured(segment) = segment
<1>1. segment \in Bytes
  BY CharsAreBytes
<1>2. PICK n \in Nat : n = Len(segment)
  OBVIOUS
<1>3. PICK l \in Nat : l = Len(Encode(segment))
  BY <1>1, <1>2, EncodedLaid DEF Bytes
<1>4. Units(Encode(segment), FALSE) = segment /\ l >= n
  BY <1>1, <1>2, <1>3, EncodeDecodes
<1>5. Shorter(segment, (l + 1) - 1) = segment
  BY <1>2, <1>4, ShorterAll
<1>6. Decode(Encode(segment), l + 1, FALSE).written = segment
  <2>1. PICK p : p = Decode(Encode(segment), l + 1, FALSE)
    OBVIOUS
  <2>2. p = [ok |-> Len(segment) < l + 1, written |-> Shorter(segment, (l + 1) - 1)]
    BY <1>1, <1>4, <2>1, DecodeGood, Zenon
  <2>3. p.written = segment
    BY <1>5, <2>2
  <2> QED BY <2>1, <2>3
<1>7. Units(segment, FALSE) = segment
  <2>1. \A k \in 1 .. n : segment[k] # Percent
    BY <1>2 DEF ToSet
  <2> QED BY <1>1, <1>2, <2>1, PlainDecodes
<1>8. ValueCap \in Nat \ {0}
  BY CodecAssumption
<1>9. Shorter(segment, ValueCap - 1) = segment
  BY <1>8, ShorterAll
<1>10. PICK d : d = Decode(segment, ValueCap, FALSE)
  OBVIOUS
<1>11. d.ok /\ d.written = segment
  <2>1. d = [ok |-> Len(segment) < ValueCap, written |-> Shorter(segment, ValueCap - 1)]
    BY <1>1, <1>7, <1>10, DecodeGood, Zenon
  <2> QED BY <1>9, <2>1
<1>12. Upto0(segment) = segment
  BY NoNul
<1> QED BY <1>3, <1>6, <1>10, <1>11, <1>12, Zenon DEF Captured

\* The capture of the request at hand, and what cttp_param has returned of it.
ParamInv ==
  /\ req.segment \in Seq(Char)
  /\ requests \in Nat
  /\ requests > 0 => req.param = Captured(req.segment)
  /\ last.call = "param" /\ last.key = ParamName => last.result = req.param

\* There is no request yet.
LEMMA ParamInit == Init => ParamInv
<1>1. <<>> \in Seq(Char)
  OBVIOUS
<1> QED BY <1>1 DEF Init, ParamInv, NoRequest, NoCall

\* A request is captured anew.
LEMMA ParamArrives ==
  ASSUME ParamInv, NEW source, NEW text, NEW pairs, NEW encoded, NEW segment \in Seq(Char),
         Arrive(source, text, pairs, encoded, segment)
  PROVE  ParamInv'
<1>1. /\ requests' = requests + 1 /\ last' = NoCall
      /\ req' = [source |-> source, text |-> text, pairs |-> pairs, encoded |-> encoded,
                 segment |-> segment, param |-> Captured(segment)]
  BY DEF Arrive, Captured
<1>2. req'.segment = segment /\ req'.param = Captured(segment)
  BY <1>1
<1> QED BY <1>1, <1>2 DEF ParamInv, NoCall

\* So it is kept by every step.
LEMMA ParamStep == ParamInv /\ [Next]_vars => ParamInv'
<1> SUFFICES ASSUME ParamInv, [Next]_vars PROVE ParamInv'
  OBVIOUS
<1>1. ASSUME UNCHANGED <<req, requests>>,
             last'.call = "param" /\ last'.key = ParamName => last'.result = req.param
      PROVE  ParamInv'
  BY <1>1 DEF ParamInv
<1>2. CASE Request
  <2>1. <<>> \in Seq(Char)
    OBVIOUS
  <2>2. \A segment \in Segments : segment \in Seq(Char)
    BY TextsAssumption, SeqMonotonic
  <2> QED BY <1>2, <2>1, <2>2, ParamArrives DEF Request
<1>3. CASE Query
  <2>1. UNCHANGED <<req, requests>> /\ last'.call = "query"
    BY <1>3 DEF Query, Search, Returns
  <2> QED BY <1>1, <2>1
<1>4. CASE Form
  <2>1. UNCHANGED <<req, requests>> /\ last'.call = "form"
    BY <1>4 DEF Form, Search, Returns
  <2> QED BY <1>1, <2>1
<1>5. CASE FormOfNone
  <2>1. UNCHANGED <<req, requests>> /\ last'.call = "form"
    BY <1>5 DEF FormOfNone, Returns
  <2> QED BY <1>1, <2>1
<1>6. CASE Cookie
  <2>1. UNCHANGED <<req, requests>> /\ last'.call = "cookie"
    BY <1>6 DEF Cookie, Returns
  <2> QED BY <1>1, <2>1
<1>7. CASE Param
  <2>1. PICK key \in Keys : Returns("param", key, IF key = ParamName THEN req.param ELSE NULL)
    BY <1>7 DEF Param
  <2>2. last'.key = key /\ last'.result = (IF key = ParamName THEN req.param ELSE NULL)
    BY <2>1 DEF Returns
  <2>3. UNCHANGED <<req, requests>>
    BY <1>7, <2>1 DEF Param, Returns
  <2> QED BY <1>1, <2>2, <2>3
<1>8. CASE UNCHANGED vars
  BY <1>8 DEF vars, ParamInv
<1> QED BY <1>2, <1>3, <1>4, <1>5, <1>6, <1>7, <1>8 DEF Next

(***************************************************************************)
(* A segment of the path that was encoded, without a percent sign in it,   *)
(* reaches the handler as it was, whatever else it consists of.            *)
(***************************************************************************)
THEOREM ParamsAreSent == Spec => []ParamAsSent
<1>1. ParamInv => ParamAsSent
  <2> SUFFICES ASSUME ParamInv, last.call = "param", last.key = ParamName, requests > 0,
                      Percent \notin ToSet(req.segment), Len(req.segment) < ValueCap
               PROVE  last.result = req.segment
    BY DEF ParamAsSent
  <2> QED BY CapturedIs DEF ParamInv
<1> QED BY <1>1, ParamInit, ParamStep, PTL DEF Spec

-----------------------------------------------------------------------------
(* Reading a JSON string back.                                             *)

\* The character with this short escape.
Unescaped(e) == CHOOSE c \in DOMAIN ShortEscapes : ShortEscapes[c] = e

\* What reading yields from position i on, if it yields one, two and six from
\* the positions behind a character and behind an escape.
ReadAt(text, i, one, two, six) ==
  IF i >= Len(text) THEN IF i = Len(text) /\ text[Len(text)] = Quote THEN <<>> ELSE <<Bad>>
  ELSE IF text[i] < Blank \/ text[i] = Quote THEN <<Bad>>
  ELSE IF text[i] # Backslash THEN <<text[i]>> \o one
  ELSE IF text[i + 1] = 117 /\ i + 5 < Len(text)
    THEN <<16 * HexValue(text[i + 4]) + HexValue(text[i + 5])>> \o six
  ELSE IF \E c \in DOMAIN ShortEscapes : ShortEscapes[c] = text[i + 1]
    THEN <<Unescaped(text[i + 1])>> \o two
  ELSE <<Bad>>

\* The positions, with what reading yields from each on.
Reads(g, text, l) ==
  \A i \in 1 .. l + 6 : g[i] = ReadAt(text, i, g[i + 1], g[i + 2], g[i + 6])

\* It is a sequence of numbers.
LEMMA ReadAtType ==
  ASSUME NEW text \in Bytes, NEW l \in Nat, l = Len(text), NEW i \in Nat \ {0},
         NEW one \in Seq(Int), NEW two \in Seq(Int), NEW six \in Seq(Int)
  PROVE  ReadAt(text, i, one, two, six) \in Seq(Int)
<1>1. <<Bad>> \in Seq(Int) /\ <<>> \in Seq(Int)
  BY DEF Bad
<1>2. CASE i >= l
  BY <1>1, <1>2 DEF ReadAt
<1>3. CASE ~(i >= l)
  <2>1. \A j \in 1 .. l : text[j] \in Byte
    BY DEF Bytes
  <2>2. \A j \in 1 .. l : HexValue(text[j]) \in Int
    <3>1. ASSUME NEW c \in Byte
          PROVE  HexValue(c) \in Int
      <4>1. HexValue(c) \in (0 .. 15) \cup {Bad}
        BY HexValueType
      <4> QED BY <4>1 DEF Bad
    <3> QED BY <2>1, <3>1
  <2>3. <<text[i]>> \o one \in Seq(Int)
    <3>1. i \in 1 .. l
      BY <1>3
    <3>2. text[i] \in Int
      <4>1. text[i] \in Byte
        BY <2>1, <3>1
      <4>2. Byte \subseteq Int
        BY DEF Byte
      <4> QED BY <4>1, <4>2
    <3>3. <<text[i]>> \in Seq(Int)
      BY <3>2
    <3> QED BY <3>3, ConcatProperties
  <2>4. i + 5 < l => <<16 * HexValue(text[i + 4]) + HexValue(text[i + 5])>> \o six \in Seq(Int)
    <3> SUFFICES ASSUME i + 5 < l
                 PROVE  <<16 * HexValue(text[i + 4]) + HexValue(text[i + 5])>> \o six \in Seq(Int)
      OBVIOUS
    <3>1. PICK x \in Int, y \in Int : x = HexValue(text[i + 4]) /\ y = HexValue(text[i + 5])
      <4>1. i + 4 \in 1 .. l /\ i + 5 \in 1 .. l
        OBVIOUS
      <4> QED BY <2>2, <4>1
    <3>2. <<16 * x + y>> \in Seq(Int)
      OBVIOUS
    <3>3. <<16 * x + y>> \o six \in Seq(Int)
      BY <3>2, ConcatProperties
    <3> QED BY <3>1, <3>3
  <2>5. ASSUME \E c \in DOMAIN ShortEscapes : ShortEscapes[c] = text[i + 1]
        PROVE  <<Unescaped(text[i + 1])>> \o two \in Seq(Int)
    <3>1. PICK d : d = Unescaped(text[i + 1])
      OBVIOUS
    <3>2. d \in DOMAIN ShortEscapes
      BY <2>5, <3>1 DEF Unescaped
    <3>3. d \in Int
      BY <3>2 DEF ShortEscapes, Quote, Backslash
    <3>4. <<d>> \in Seq(Int)
      BY <3>3
    <3>5. <<d>> \o two \in Seq(Int)
      BY <3>4, ConcatProperties
    <3> QED BY <3>1, <3>5
  <2>6. ~(i >= Len(text))
    BY <1>3
  <2>7. CASE text[i] < Blank \/ text[i] = Quote \/ text[i] # Backslash
    BY <1>1, <2>3, <2>6, <2>7 DEF ReadAt
  <2>8. CASE ~(text[i] < Blank \/ text[i] = Quote \/ text[i] # Backslash)
    BY <1>1, <2>4, <2>5, <2>6, <2>8 DEF ReadAt
  <2> QED BY <2>7, <2>8
<1> QED BY <1>2, <1>3

\* What JsonRead is.
LEMMA JsonReadIs ==
  ASSUME NEW text \in Bytes, NEW l \in Nat, l = Len(text)
  PROVE  \E g \in [1 .. l + 6 -> Seq(Int)] : Reads(g, text, l) /\ JsonRead(text) = g[2]
<1> DEFINE N == l + 6
           F == [1 .. N -> Seq(Int)]
           H == [i \in 1 .. l |-> [f \in F |-> ReadAt(text, i, f[i + 1], f[i + 2], f[i + 6])]]
           P(f) == f = [i \in 1 .. Len(text) + 6 |-> ReadAt(text, i, f[i + 1], f[i + 2], f[i + 6])]
<1>1. N \in Nat /\ l <= N /\ <<Bad>> \in Seq(Int)
  BY DEF Bad
<1>2. ASSUME NEW i \in 1 .. l, NEW f \in F
      PROVE  H[i][f] \in Seq(Int)
  <2>1. i + 1 \in 1 .. N /\ i + 2 \in 1 .. N /\ i + 6 \in 1 .. N
    OBVIOUS
  <2>2. f[i + 1] \in Seq(Int) /\ f[i + 2] \in Seq(Int) /\ f[i + 6] \in Seq(Int)
    BY <2>1
  <2>3. i \in Nat \ {0}
    OBVIOUS
  <2>4. ReadAt(text, i, f[i + 1], f[i + 2], f[i + 6]) \in Seq(Int)
    BY <2>2, <2>3, ReadAtType, Zenon
  <2> QED BY <2>4
<1>3. ASSUME NEW i \in 1 .. l, NEW f \in F, NEW g \in F, \A j \in i + 1 .. N : f[j] = g[j]
      PROVE  H[i][f] = H[i][g]
  <2>1. f[i + 1] = g[i + 1] /\ f[i + 2] = g[i + 2] /\ f[i + 6] = g[i + 6]
    BY <1>3
  <2> QED BY <2>1
<1>4. \A i \in 1 .. l, f \in F : H[i][f] = ReadAt(text, i, f[i + 1], f[i + 2], f[i + 6])
  OBVIOUS
<1>5. PICK f \in F : \A i \in 1 .. N : f[i] = IF i > l THEN <<Bad>> ELSE H[i][f]
  <2>1. \A i \in 1 .. l : \A f \in F : H[i][f] \in Seq(Int)
    BY <1>2
  <2>2. \A i \in 1 .. l : \A f \in F, g \in F :
          (\A j \in i + 1 .. N : f[j] = g[j]) => H[i][f] = H[i][g]
    BY <1>3
  <2>3. Defined(l, N, Seq(Int), <<Bad>>, H)
    <3> HIDE DEF H, N
    <3> QED BY <1>1, <2>1, <2>2, DefinedFromAbove
  <2> HIDE DEF H
  <2> QED BY <2>3 DEF Defined
<1>6. P(f)
  <2>1. ASSUME NEW i \in 1 .. N
        PROVE  f[i] = ReadAt(text, i, f[i + 1], f[i + 2], f[i + 6])
    <3> HIDE DEF H
    <3>1. CASE i > l
      BY <1>5, <3>1 DEF ReadAt
    <3>2. CASE ~(i > l)
      <4>1. i \in 1 .. l
        BY <3>2
      <4> QED BY <1>4, <1>5, <3>2, <4>1
    <3> QED BY <3>1, <3>2
  <2>2. f = [i \in 1 .. N |-> f[i]]
    OBVIOUS
  <2> HIDE DEF F, H
  <2> QED BY <2>1, <2>2
<1> HIDE DEF H
<1> DEFINE c == CHOOSE h : P(h)
<1>7. P(c)
  <2> HIDE DEF P
  <2> QED BY <1>6
<1>8. JsonRead(text) = c[2]
  BY DEF JsonRead, ReadAt, Unescaped
<1> HIDE DEF c
<1>9. \A i \in 1 .. N : c[i] = ReadAt(text, i, c[i + 1], c[i + 2], c[i + 6])
  BY <1>7
<1>10. \A i \in 1 .. N : c[i] \in Seq(Int)
  <2> DEFINE B == {i \in 1 .. N : c[i] \in Seq(Int)}
  <2>1. ASSUME NEW i \in 1 .. N, \A j \in i + 1 .. N : j \in B
        PROVE  i \in B
    <3>1. CASE i > l
      <4>1. ReadAt(text, i, c[i + 1], c[i + 2], c[i + 6]) = <<Bad>>
        BY <3>1 DEF ReadAt
      <4> QED BY <1>1, <1>9, <4>1
    <3>2. CASE ~(i > l)
      <4>1. i + 1 \in i + 1 .. N /\ i + 2 \in i + 1 .. N /\ i + 6 \in i + 1 .. N
        BY <3>2
      <4>2. c[i + 1] \in Seq(Int) /\ c[i + 2] \in Seq(Int) /\ c[i + 6] \in Seq(Int)
        BY <2>1, <4>1
      <4>3. i \in Nat \ {0}
        OBVIOUS
      <4>4. ReadAt(text, i, c[i + 1], c[i + 2], c[i + 6]) \in Seq(Int)
        BY <4>2, <4>3, ReadAtType
      <4> QED BY <1>9, <4>4
    <3> QED BY <3>1, <3>2
  <2>2. \A i \in 1 .. N : i \in B
    <3> HIDE DEF B
    <3> QED BY <1>1, <2>1, FromAbove
  <2> QED BY <2>2
<1>11. c \in F
  <2>1. c = [i \in 1 .. N |-> ReadAt(text, i, c[i + 1], c[i + 2], c[i + 6])]
    BY <1>7
  <2>2. c = [i \in 1 .. N |-> c[i]]
    BY <2>1
  <2> QED BY <1>10, <2>2
<1> QED BY <1>8, <1>9, <1>11, Zenon DEF Reads

\* No two characters have the same short escape, and none has the letter u.
LEMMA ShortEscapeReadsBack ==
  ASSUME NEW c \in DOMAIN ShortEscapes
  PROVE  /\ ShortEscapes[c] \in Byte /\ ShortEscapes[c] # 117
         /\ Unescaped(ShortEscapes[c]) = c
<1> DEFINE D == {Quote, Backslash, 10, 9, 13, 8, 12}
           e(d) == CASE d = 10 -> 110 [] d = 9 -> 116 [] d = 13 -> 114 [] d = 8 -> 98
                     [] d = 12 -> 102 [] OTHER -> d
<1>1. DOMAIN ShortEscapes = D /\ \A d \in D : ShortEscapes[d] = e(d)
  BY DEF ShortEscapes
<1>2. D = {34, 92, 10, 9, 13, 8, 12}
  BY DEF Quote, Backslash
<1>3. /\ e(34) = 34 /\ e(92) = 92 /\ e(10) = 110 /\ e(9) = 116 /\ e(13) = 114 /\ e(8) = 98
      /\ e(12) = 102
  OBVIOUS
<1> HIDE DEF e
<1>4. \A d \in D : e(d) \in {34, 92, 110, 116, 114, 98, 102}
  BY <1>2, <1>3
<1>5. \A d \in D : e(d) = e(c) => d = c
  <2>1. c \in {34, 92, 10, 9, 13, 8, 12}
    BY <1>1, <1>2
  <2> QED BY <1>2, <1>3, <2>1
<1>6. c \in D
  BY <1>1
<1> HIDE DEF D
<1>7. ShortEscapes[c] \in Byte /\ ShortEscapes[c] # 117
  BY <1>1, <1>4, <1>6 DEF Byte
<1>8. \A d \in DOMAIN ShortEscapes : ShortEscapes[d] = ShortEscapes[c] => d = c
  BY <1>1, <1>5, <1>6
<1>9. Unescaped(ShortEscapes[c]) = c
  <2>1. PICK x : x = Unescaped(ShortEscapes[c])
    OBVIOUS
  <2>2. x \in DOMAIN ShortEscapes /\ ShortEscapes[x] = ShortEscapes[c]
    BY <2>1 DEF Unescaped
  <2> QED BY <1>8, <2>1, <2>2
<1> QED BY <1>7, <1>9

\* A digit in lower case is read back too.
LEMMA LowerDigitReadsBack ==
  ASSUME NEW v \in 0 .. 15
  PROVE  LowerHex(v) \in Byte /\ HexValue(LowerHex(v)) = v
<1>1. CASE v < 10
  <2>1. LowerHex(v) = 48 + v
    BY <1>1 DEF LowerHex
  <2>2. 48 + v \in 48 .. 57
    BY <1>1
  <2> QED BY <2>1, <2>2 DEF HexValue, Byte
<1>2. CASE ~(v < 10)
  <2>1. LowerHex(v) = 87 + v
    BY <1>2 DEF LowerHex
  <2>2. 87 + v \in 97 .. 102 /\ 87 + v \notin 48 .. 57 /\ 87 + v \notin 65 .. 70
    BY <1>2
  <2> QED BY <2>1, <2>2 DEF HexValue, Byte
<1> QED BY <1>1, <1>2

\* In t, q is read as c from behind p on, if g is what is read from each place.
ReadAs(c, q, t, p, g) ==
  ReadAt(t, p + 1, g[(p + 1) + 1], g[(p + 1) + 2], g[(p + 1) + 6]) = <<c>> \o g[(p + 1) + Len(q)]

\* What a quoted character is read as, wherever it stands.
LEMMA QuotedCharReadsBack ==
  ASSUME NEW c \in Byte, NEW q \in Bytes, q = QuotedChar(c), NEW t \in Bytes, NEW p \in Nat,
         p + Len(q) < Len(t), \A j \in 1 .. Len(q) : t[p + j] = q[j], NEW g
  PROVE  ReadAs(c, q, t, p, g)
<1> DEFINE one == g[(p + 1) + 1]
           two == g[(p + 1) + 2]
           six == g[(p + 1) + 6]
<1> HIDE DEF one, two, six
<1>1. 10 \in DOMAIN ShortEscapes /\ Quote \in DOMAIN ShortEscapes
      /\ Backslash \in DOMAIN ShortEscapes
  BY DEF ShortEscapes
<1>2. PICK l \in Nat : l = Len(t)
  BY DEF Bytes
<1>3. ~(Backslash < Blank \/ Backslash = Quote)
  BY DEF Backslash, Blank, Quote
<1>4. CASE c \in DOMAIN ShortEscapes
  <2>1. PICK e : e = ShortEscapes[c]
    OBVIOUS
  <2>2. q = <<Backslash, e>>
    BY <1>4, <2>1, Zenon DEF QuotedChar
  <2>3. Len(q) = 2 /\ t[p + 1] = Backslash /\ t[p + 2] = e
    <3>1. Len(q) = 2 /\ q[1] = Backslash /\ q[2] = e
      BY <2>2
    <3>2. 1 \in 1 .. Len(q) /\ 2 \in 1 .. Len(q)
      BY <3>1
    <3> QED BY <3>1, <3>2
  <2>4. ~(p + 1 >= Len(t)) /\ t[(p + 1) + 1] = e
    <3>1. (p + 1) + 1 = p + 2
      OBVIOUS
    <3> QED BY <1>2, <2>3, <3>1
  <2>5. e # 117 /\ Unescaped(e) = c
    BY <1>4, <2>1, ShortEscapeReadsBack
  <2>6. \E d \in DOMAIN ShortEscapes : ShortEscapes[d] = e
    BY <1>4, <2>1
  <2>7. ReadAt(t, p + 1, one, two, six) = <<c>> \o two
    BY <1>3, <2>3, <2>4, <2>5, <2>6, Zenon DEF ReadAt
  <2> QED BY <2>3, <2>7 DEF ReadAs, one, two, six
<1>5. CASE c \notin DOMAIN ShortEscapes /\ c < Blank
  <2>1. PICK x \in 0 .. 15, y \in 0 .. 15 : x = c \div 16 /\ y = c % 16 /\ 16 * x + y = c
    BY Digits16
  <2>2. PICK a, b : a = LowerHex(x) /\ b = LowerHex(y)
    OBVIOUS
  <2>3. HexValue(a) = x /\ HexValue(b) = y
    BY <2>2, LowerDigitReadsBack
  <2>4. q = <<Backslash, 117, 48, 48, a, b>>
    BY <1>5, <2>1, <2>2, Zenon DEF QuotedChar
  <2>5. Len(q) = 6 /\ t[p + 1] = Backslash /\ t[p + 2] = 117 /\ t[p + 5] = a /\ t[p + 6] = b
    <3>1. Len(q) = 6 /\ q[1] = Backslash /\ q[2] = 117 /\ q[5] = a /\ q[6] = b
      BY <2>4
    <3>2. 1 \in 1 .. Len(q) /\ 2 \in 1 .. Len(q) /\ 5 \in 1 .. Len(q) /\ 6 \in 1 .. Len(q)
      BY <3>1
    <3> QED BY <3>1, <3>2
  <2>6. /\ ~(p + 1 >= Len(t)) /\ (p + 1) + 1 = p + 2 /\ (p + 1) + 5 < Len(t)
        /\ (p + 1) + 4 = p + 5 /\ (p + 1) + 5 = p + 6
    BY <1>2, <2>5
  <2>7. ReadAt(t, p + 1, one, two, six) = <<16 * x + y>> \o six
    BY <1>3, <2>3, <2>5, <2>6, Zenon DEF ReadAt
  <2>8. ReadAt(t, p + 1, one, two, six) = <<c>> \o six
    BY <2>1, <2>7
  <2> QED BY <2>5, <2>8 DEF ReadAs, one, two, six
<1>6. CASE c \notin DOMAIN ShortEscapes /\ ~(c < Blank)
  <2>1. q = <<c>>
    BY <1>6, Zenon DEF QuotedChar
  <2>2. Len(q) = 1 /\ t[p + 1] = c
    <3>1. Len(q) = 1 /\ q[1] = c
      BY <2>1
    <3>2. 1 \in 1 .. Len(q)
      BY <3>1
    <3> QED BY <3>1, <3>2
  <2>3. ~(p + 1 >= Len(t))
    BY <1>2, <2>2
  <2>4. c # Quote /\ c # Backslash
    BY <1>1, <1>6
  <2>5. ReadAt(t, p + 1, one, two, six) = <<c>> \o one
    BY <1>6, <2>2, <2>3, <2>4, Zenon DEF ReadAt
  <2> QED BY <2>2, <2>5 DEF ReadAs, one, two, six
<1> QED BY <1>4, <1>5, <1>6

\* What a quoted character consists of.
LEMMA QuotedCharType ==
  ASSUME NEW c \in Byte
  PROVE  QuotedChar(c) \in Bytes
<1>1. LowerHex(c \div 16) \in Byte /\ LowerHex(c % 16) \in Byte
  BY Digits16, LowerDigitReadsBack
<1>2. Backslash \in Byte /\ 117 \in Byte /\ 48 \in Byte
  BY DEF Backslash, Byte
<1>3. c \in DOMAIN ShortEscapes => ShortEscapes[c] \in Byte
  BY ShortEscapeReadsBack
<1> QED BY <1>1, <1>2, <1>3 DEF QuotedChar, Bytes

\* What is quoted is read back, whatever it consists of.
LEMMA QuoteReadsBack ==
  ASSUME NEW s \in Bytes
  PROVE  JsonRead(JsonQuote(s)) = s
<1>1. PICK n \in Nat : n = Len(s)
  BY DEF Bytes
<1> DEFINE p == [k \in 1 .. n |-> QuotedChar(s[k])]
<1>2. \A k \in 1 .. n : s[k] \in Byte /\ p[k] = QuotedChar(s[k]) /\ p[k] \in Bytes
  BY <1>1, QuotedCharType DEF Bytes
<1>3. p \in Seq(Bytes) /\ Len(p) = n
  BY <1>2
<1>4. JsonQuote(s) = <<Quote>> \o FlattenSeq(p) \o <<Quote>>
  <2>1. DOMAIN s = 1 .. n
    BY <1>1 DEF Bytes
  <2>2. p = [k \in DOMAIN s |-> QuotedChar(s[k])]
    BY <2>1
  <2> HIDE DEF p
  <2> QED BY <2>2, Zenon DEF JsonQuote
<1> HIDE DEF p
<1>5. PICK m \in Bytes, o \in [0 .. n -> Nat] : m = FlattenSeq(p) /\ Laid(m, p, n, o)
  BY <1>3, FlattenLaid DEF Bytes
<1>6. PICK z \in Nat : z = Len(m)
  BY DEF Bytes
<1>7. PICK t \in Bytes : /\ t = <<Quote>> \o m \o <<Quote>> /\ Len(t) = z + 2
                         /\ t[z + 2] = Quote /\ \A j \in 1 .. z : t[1 + j] = m[j]
  <2>1. PICK a \in Seq(Byte) : a = <<Quote>> /\ Len(a) = 1
    BY DEF Quote, Byte
  <2>2. PICK b \in Seq(Byte) : b = a \o m
    BY ConcatProperties DEF Bytes
  <2>3. Len(b) = 1 + z /\ \A j \in 1 .. z : b[1 + j] = m[j]
    BY <1>6, <2>1, <2>2, JoinIs DEF Bytes
  <2>4. PICK c \in Seq(Byte) : c = b \o a
    BY ConcatProperties
  <2>5. Len(c) = (1 + z) + 1 /\ (\A j \in 1 .. 1 + z : c[j] = b[j]) /\ c[(1 + z) + 1] = a[1]
    <3>1. 1 + z \in Nat /\ 1 \in 1 .. 1
      OBVIOUS
    <3>2. /\ Len(b \o a) = (1 + z) + 1 /\ \A j \in 1 .. 1 + z : (b \o a)[j] = b[j]
          /\ \A j \in 1 .. 1 : (b \o a)[(1 + z) + j] = a[j]
      BY <2>1, <2>3, <3>1, JoinIs
    <3> QED BY <2>4, <3>1, <3>2
  <2>6. \A j \in 1 .. z : 1 + j \in 1 .. 1 + z
    OBVIOUS
  <2>7. c = <<Quote>> \o m \o <<Quote>>
    BY <2>1, <2>2, <2>4
  <2>8. a[1] = Quote
    BY <2>1
  <2>9. c \in Bytes /\ Len(c) = z + 2 /\ c[z + 2] = Quote /\ \A j \in 1 .. z : c[1 + j] = m[j]
    <3>1. (1 + z) + 1 = z + 2
      OBVIOUS
    <3> QED BY <2>3, <2>5, <2>6, <2>8, <3>1 DEF Bytes
  <2> QED BY <2>7, <2>9
<1>8. PICK g : Reads(g, t, z + 2) /\ JsonRead(t) = g[2]
  <2>1. z + 2 \in Nat /\ z + 2 = Len(t)
    BY <1>7
  <2> QED BY <2>1, JsonReadIs
<1>9. g[z + 2] = <<>>
  <2>1. z + 2 \in 1 .. (z + 2) + 6 /\ z + 2 = Len(t) /\ z + 2 >= Len(t)
    BY <1>7
  <2>2. g[z + 2] = ReadAt(t, z + 2, g[(z + 2) + 1], g[(z + 2) + 2], g[(z + 2) + 6])
    BY <1>8, <2>1, Zenon DEF Reads
  <2> QED BY <1>7, <2>1, <2>2 DEF ReadAt
<1>10. ASSUME NEW k \in 1 .. n
       PROVE  g[o[k - 1] + 2] = <<s[k]>> \o g[o[k] + 2]
  <2>1. PICK u \in Nat, q \in Bytes, w \in Nat : u = o[k - 1] + 1 /\ q = QuotedChar(s[k]) /\ w = Len(q)
    <3>1. o[k - 1] \in Nat
      BY <1>5 DEF Laid
    <3>2. QuotedChar(s[k]) \in Bytes
      BY <1>2
    <3> QED BY <3>1, <3>2 DEF Bytes
  <2>2. o[k] + 1 = u + w /\ o[k] <= z /\ \A j \in 1 .. w : t[u + j] = q[j]
    <3>1. o[k] = o[k - 1] + w /\ o[k] <= z /\ \A j \in 1 .. w : m[o[k - 1] + j] = q[j]
      BY <1>2, <1>5, <1>6, <2>1 DEF Laid
    <3>2. o[k - 1] \in Nat
      BY <1>5 DEF Laid
    <3>3. \A j \in 1 .. w : o[k - 1] + j \in 1 .. z /\ u + j = 1 + (o[k - 1] + j)
      <4>1. PICK v \in Nat : v = o[k - 1]
        BY <3>2
      <4>2. v + w <= z /\ u = v + 1
        BY <2>1, <3>1, <4>1, Zenon
      <4>3. \A j \in 1 .. w : v + j \in 1 .. z /\ u + j = 1 + (v + j)
        BY <4>2
      <4> QED BY <4>1, <4>3
    <3>4. o[k] + 1 = u + w
      BY <2>1, <3>1, <3>2
    <3> QED BY <1>7, <3>1, <3>3, <3>4
  <2>3. g[u + 1] = ReadAt(t, u + 1, g[(u + 1) + 1], g[(u + 1) + 2], g[(u + 1) + 6])
    <3>1. o[k] \in Nat
      OBVIOUS
    <3>2. u + 1 \in 1 .. (z + 2) + 6
      BY <2>2, <3>1
    <3> QED BY <1>8, <3>2 DEF Reads
  <2>4. s[k] \in Byte /\ u + Len(q) < Len(t)
    <3>1. o[k] \in Nat
      OBVIOUS
    <3> QED BY <1>2, <1>7, <2>1, <2>2, <3>1
  <2>5. g[u + 1] = <<s[k]>> \o g[(u + 1) + w]
    <3>1. PICK c \in Byte : c = s[k]
      BY <2>4
    <3>2. q = QuotedChar(c)
      BY <2>1, <3>1
    <3>3. \A j \in 1 .. Len(q) : t[u + j] = q[j]
      BY <2>1, <2>2
    <3>4. ReadAs(c, q, t, u, g)
      BY <2>4, <3>2, <3>3, QuotedCharReadsBack
    <3> QED BY <2>1, <2>3, <3>1, <3>4, Zenon DEF ReadAs
  <2>6. (u + 1) + w = (u + w) + 1
    OBVIOUS
  <2>7. u + 1 = o[k - 1] + 2 /\ (u + w) + 1 = o[k] + 2
    <3>1. o[k - 1] \in Nat /\ o[k] \in Nat
      BY <1>5 DEF Laid
    <3>2. PICK v \in Nat, x \in Nat : v = o[k - 1] /\ x = o[k]
      BY <3>1
    <3>3. u = v + 1 /\ x + 1 = u + w
      BY <2>1, <2>2, <3>2, Zenon
    <3>4. u + 1 = v + 2 /\ (u + w) + 1 = x + 2
      BY <3>3
    <3> QED BY <3>2, <3>4
  <2> QED BY <2>5, <2>6, <2>7
<1>11. g[2] = s
  <2> DEFINE at == [k \in 0 .. n |-> o[k] + 2]
  <2>1. o[0] = 0 /\ o[n] = z
    BY <1>5, <1>6 DEF Laid
  <2>2. at[0] = 2 /\ at[n] = z + 2 /\ \A k \in 1 .. n : at[k - 1] = o[k - 1] + 2 /\ at[k] = o[k] + 2
    BY <2>1
  <2> HIDE DEF at
  <2>3. Yields(g, at, s, n)
    BY <1>9, <1>10, <2>2 DEF Yields
  <2>4. s \in Seq(Byte)
    BY DEF Bytes
  <2>5. g[at[0]] = s
    BY <1>1, <2>3, <2>4, ReadOff
  <2> QED BY <2>2, <2>5
<1> QED BY <1>4, <1>5, <1>7, <1>8, <1>11

-----------------------------------------------------------------------------
(* Texts stay texts.                                                       *)

\* The first and the last of some positions.
LEMMA MinIs ==
  ASSUME NEW S \in SUBSET Nat, S # {}
  PROVE  Min(S) \in S /\ \A n \in S : Min(S) <= n
<1>1. \E m \in S : \A n \in S : m <= n
  BY LeastNumber
<1> QED BY <1>1 DEF Min

\* The largest element.
LEMMA MaxIs ==
  ASSUME NEW n \in Nat, NEW S \in SUBSET (1 .. n), S # {}
  PROVE  Max(S) \in S /\ \A k \in S : k <= Max(S)
<1> DEFINE D == {d \in 0 .. n : n - d \in S}
<1>1. PICK d \in D : \A e \in D : d <= e
  <2>1. D \in SUBSET Nat /\ D # {}
    <3>1. PICK k \in S : TRUE
      OBVIOUS
    <3>2. k \in 1 .. n
      OBVIOUS
    <3>3. n - k \in 0 .. n /\ n - (n - k) = k
      BY <3>2
    <3>4. n - k \in D
      BY <3>3
    <3>5. D \in SUBSET Nat
      OBVIOUS
    <3> HIDE DEF D
    <3> QED BY <3>4, <3>5
  <2> HIDE DEF D
  <2> QED BY <2>1, LeastNumber
<1>2. PICK m \in S : d = n - m
  <2>1. n - d \in S /\ d = n - (n - d)
    OBVIOUS
  <2> QED BY <2>1
<1>3. \A k \in S : m >= k
  <2> SUFFICES ASSUME NEW k \in S PROVE m >= k
    OBVIOUS
  <2>1. n - k \in 0 .. n /\ n - (n - k) = k
    OBVIOUS
  <2>2. n - m <= n - k
    BY <1>1, <1>2, <2>1
  <2> QED BY <2>2
<1>4. Max(S) \in S /\ \A k \in S : Max(S) >= k
  BY <1>2, <1>3 DEF Max
<1> QED BY <1>4

\* What is left of a sequence that is cut short.
LEMMA CutIs ==
  ASSUME NEW S, NEW s \in Seq(S), NEW n \in Nat, n <= Len(s)
  PROVE  /\ SubSeq(s, 1, n) \in Seq(S) /\ Len(SubSeq(s, 1, n)) = n
         /\ \A i \in 1 .. n : SubSeq(s, 1, n)[i] = s[i]
OBVIOUS

\* A sequence is cut to length n, or left as it is.
LEMMA ShorterIs ==
  ASSUME NEW S, NEW s \in Seq(S), NEW n \in Nat
  PROVE  /\ Shorter(s, n) \in Seq(S) /\ Len(Shorter(s, n)) <= n /\ Len(Shorter(s, n)) <= Len(s)
         /\ \A i \in 1 .. Len(Shorter(s, n)) : Shorter(s, n)[i] = s[i]
<1>1. PICK m \in Nat : m = (IF Len(s) < n THEN Len(s) ELSE n) /\ m <= n /\ m <= Len(s)
  OBVIOUS
<1>2. Shorter(s, n) = SubSeq(s, 1, m)
  BY <1>1, Zenon DEF Shorter
<1>3. /\ SubSeq(s, 1, m) \in Seq(S) /\ Len(SubSeq(s, 1, m)) = m
      /\ \A i \in 1 .. m : SubSeq(s, 1, m)[i] = s[i]
  BY <1>1, CutIs
<1> QED BY <1>1, <1>2, <1>3

\* A C string is a text.
LEMMA Upto0Type ==
  ASSUME NEW S, NEW s \in Seq(S)
  PROVE  Upto0(s) \in Seq(S)
<1> DEFINE I == {i \in 1 .. Len(s) : s[i] = 0}
<1>1. CString(s) = IF I # {} THEN Min(I) ELSE 0
  BY Zenon DEF CString, SelectInSeq
<1>2. CASE I = {}
  BY <1>1, <1>2 DEF Upto0
<1>3. CASE I # {}
  <2>1. Min(I) \in I
    <3>1. I \in SUBSET Nat
      OBVIOUS
    <3> HIDE DEF I
    <3> QED BY <1>3, <3>1, MinIs
  <2>2. PICK m \in 1 .. Len(s) : m = CString(s)
    BY <1>1, <1>3, <2>1
  <2>3. SubSeq(s, 1, m - 1) \in Seq(S)
    BY CutIs
  <2> QED BY <2>2, <2>3 DEF Upto0
<1> QED BY <1>2, <1>3

\* So is what is left of one that was trimmed.
LEMMA TrimmedType ==
  ASSUME NEW S, NEW s \in Seq(S)
  PROVE  TrimmedInPlace(s) \in Seq(S)
<1> DEFINE I == {i \in 1 .. Len(s) : s[i] \notin Whitespace}
           last_ == SelectLastInSeq(s, LAMBDA c : c \notin Whitespace)
<1>1. last_ = IF I # {} THEN Max(I) ELSE 0
  BY Zenon DEF SelectLastInSeq
<1>2. TrimmedInPlace(s) = IF last_ = 0 THEN s ELSE SubSeq(s, 1, last_)
  BY DEF TrimmedInPlace
<1> HIDE DEF last_
<1>3. CASE I = {}
  BY <1>1, <1>2, <1>3
<1>4. CASE I # {}
  <2>1. Max(I) \in I
    <3>1. I \in SUBSET (1 .. Len(s)) /\ Len(s) \in Nat
      OBVIOUS
    <3> HIDE DEF I
    <3> QED BY <1>4, <3>1, MaxIs
  <2>2. PICK m \in 1 .. Len(s) : m = last_
    BY <1>1, <1>4, <2>1
  <2>3. SubSeq(s, 1, m) \in Seq(S)
    BY CutIs
  <2> QED BY <1>2, <2>2, <2>3
<1> QED BY <1>3, <1>4

\* Decoding does not make a text longer, and stops at a bad escape.
Runs(n) == {u \in Seq(Unit) : Len(u) <= n /\ \A i \in 1 .. Len(u) - 1 : u[i] # Bad}

\* A byte in front of a run makes a longer one.
LEMMA InFrontOfRun ==
  ASSUME NEW n \in Nat, NEW m \in Nat, m < n, NEW v \in Byte, NEW u \in Runs(m)
  PROVE  <<v>> \o u \in Runs(n)
<1>1. <<v>> \in Seq(Unit) /\ Len(<<v>>) = 1 /\ <<v>>[1] = v /\ v # Bad
  BY DEF Unit, Byte, Bad
<1>2. PICK a \in Seq(Unit) : a = <<v>>
  BY <1>1
<1>3. u \in Seq(Unit) /\ Len(u) \in Nat /\ Len(u) <= m
  BY DEF Runs
<1>4. /\ a \o u \in Seq(Unit) /\ Len(a \o u) = 1 + Len(u)
      /\ \A k \in 1 .. 1 : (a \o u)[k] = a[k]
      /\ \A k \in 1 .. Len(u) : (a \o u)[1 + k] = u[k]
  BY <1>1, <1>2, <1>3, JoinIs
<1>5. ASSUME NEW i \in 1 .. Len(a \o u) - 1
      PROVE  (a \o u)[i] # Bad
  <2>1. CASE i = 1
    BY <1>1, <1>2, <1>4, <2>1
  <2>2. CASE i # 1
    <3>1. i - 1 \in 1 .. Len(u) - 1 /\ i - 1 \in 1 .. Len(u) /\ 1 + (i - 1) = i
      BY <1>3, <1>4, <2>2
    <3>2. (a \o u)[i] = u[i - 1]
      BY <1>4, <3>1
    <3> QED BY <3>1, <3>2 DEF Runs
  <2> QED BY <2>1, <2>2
<1>6. a \o u \in Runs(n)
  <2>1. PICK w \in Seq(Unit) : w = a \o u
    BY <1>4
  <2>2. Len(w) <= n /\ \A i \in 1 .. Len(w) - 1 : w[i] # Bad
    BY <1>3, <1>4, <1>5, <2>1
  <2> QED BY <2>1, <2>2 DEF Runs
<1> QED BY <1>2, <1>6

\* Decoding stops at the first bad escape and makes nothing longer.
LEMMA UnitsRun ==
  ASSUME NEW src \in Bytes, NEW plus
  PROVE  Units(src, plus) \in Runs(Len(src))
<1>1. PICK l \in Nat : l = Len(src)
  BY DEF Bytes
<1>2. PICK g : Decodes(g, src, plus, l) /\ Units(src, plus) = g[1]
  BY <1>1, UnitsIs
<1> DEFINE R(i) == IF i > l THEN 0 ELSE l + 1 - i
           B == {i \in 1 .. l + 3 : g[i] \in Runs(R(i))}
<1>3. ASSUME NEW i \in 1 .. l + 3, \A j \in i + 1 .. l + 3 : j \in B
      PROVE  i \in B
  <2>1. g[i] = UnitAt(src, i, plus, g[i + 1], g[i + 3])
    BY <1>2 DEF Decodes
  <2>2. CASE i > l
    <3>1. g[i] = <<>>
      BY <1>1, <2>1, <2>2 DEF UnitAt
    <3>2. <<>> \in Runs(0)
      BY DEF Runs
    <3> QED BY <2>2, <3>1, <3>2
  <2>3. CASE ~(i > l)
    <3>1. i + 1 \in B /\ i + 3 \in B
      BY <1>3, <2>3
    <3>2. g[i + 1] \in Runs(R(i + 1)) /\ g[i + 3] \in Runs(R(i + 3))
      BY <3>1
    <3>3. /\ R(i) \in Nat /\ R(i + 1) \in Nat /\ R(i + 3) \in Nat
          /\ R(i + 1) < R(i) /\ R(i + 3) < R(i)
      BY <2>3
    <3> HIDE DEF R
    <3>4. CASE StartsEscape(src, i)
      <4>1. i + 1 \in 1 .. l /\ i + 2 \in 1 .. l
        BY <1>1, <2>3, <3>4 DEF StartsEscape
      <4>2. src[i + 1] \in Byte /\ src[i + 2] \in Byte
        BY <1>1, <4>1 DEF Bytes
      <4>3. PICK v \in Unit : v = Escaped(src[i + 1], src[i + 2])
        BY <4>2, EscapedType
      <4>4. g[i] = IF v = Bad THEN <<Bad>> ELSE <<v>> \o g[i + 3]
        BY <1>1, <2>1, <2>3, <3>4, <4>3 DEF UnitAt
      <4>5. <<Bad>> \in Runs(R(i))
        <5>1. <<Bad>> \in Seq(Unit) /\ Len(<<Bad>>) = 1
          BY DEF Unit
        <5>2. 1 <= R(i) /\ 1 .. 1 - 1 = {}
          BY <3>3
        <5> QED BY <5>1, <5>2 DEF Runs
      <4>6. v # Bad => <<v>> \o g[i + 3] \in Runs(R(i))
        <5>1. v # Bad => v \in Byte
          BY DEF Unit
        <5> QED BY <3>2, <3>3, <5>1, InFrontOfRun
      <4> QED BY <4>4, <4>5, <4>6
    <3>5. CASE ~StartsEscape(src, i)
      <4>1. i \in 1 .. l
        BY <2>3
      <4>2. src[i] \in Byte
        BY <1>1, <4>1 DEF Bytes
      <4>3. PICK v \in Byte : v = IF src[i] = Plus /\ plus THEN Blank ELSE src[i]
        BY <4>2 DEF Byte, Blank
      <4>4. g[i] = <<v>> \o g[i + 1]
        BY <1>1, <2>1, <2>3, <3>5, <4>3 DEF UnitAt
      <4>5. <<v>> \o g[i + 1] \in Runs(R(i))
        BY <3>2, <3>3, InFrontOfRun
      <4> QED BY <4>4, <4>5
    <3> QED BY <3>4, <3>5
  <2> QED BY <2>2, <2>3
<1>4. \A i \in 1 .. l + 3 : i \in B
  <2> HIDE DEF B
  <2>1. l + 3 \in Nat
    OBVIOUS
  <2> QED BY <1>3, <2>1, FromAbove
<1>5. g[1] \in Runs(R(1)) /\ R(1) = l
  <2>1. 1 \in 1 .. l + 3
    OBVIOUS
  <2> QED BY <1>4, <2>1
<1> QED BY <1>1, <1>2, <1>5

\* What is decoded is a text, whether it is all of it or not.
LEMMA DecodeType ==
  ASSUME NEW src \in Bytes, NEW n \in Nat \ {0}, NEW plus
  PROVE  Decode(src, n, plus).ok \in BOOLEAN /\ Decode(src, n, plus).written \in Bytes
<1>1. PICK u : u = Units(src, plus)
  OBVIOUS
<1>2. u \in Seq(Unit) /\ \A i \in 1 .. Len(u) - 1 : u[i] # Bad
  BY <1>1, UnitsRun DEF Runs
<1>3. PICK w : w = IF Bad \in ToSet(u) THEN Front(u) ELSE u
  OBVIOUS
<1>4. w \in Bytes
  <2>1. CASE Bad \in ToSet(u)
    <3>1. Len(u) # 0
      BY <2>1 DEF ToSet
    <3>2. PICK m \in Nat : m = Len(u) - 1 /\ m <= Len(u)
      <4>1. Len(u) \in Nat
        BY <1>2
      <4>2. Len(u) - 1 \in Nat /\ Len(u) - 1 <= Len(u)
        BY <3>1, <4>1
      <4> QED BY <4>2
    <3>3. w = SubSeq(u, 1, m)
      BY <1>3, <2>1, <3>2 DEF Front
    <3>4. w \in Seq(Unit) /\ Len(w) = m /\ \A i \in 1 .. m : w[i] = u[i]
      BY <1>2, <3>2, <3>3, CutIs
    <3>5. \A i \in 1 .. m : w[i] \in Byte
      <4> SUFFICES ASSUME NEW i \in 1 .. m PROVE w[i] \in Byte
        OBVIOUS
      <4>1. w[i] \in Unit
        BY <3>4
      <4>2. w[i] # Bad
        BY <1>2, <3>2, <3>4
      <4> QED BY <4>1, <4>2 DEF Unit
    <3> QED BY <3>4, <3>5 DEF Bytes
  <2>2. CASE Bad \notin ToSet(u)
    <3>1. \A i \in 1 .. Len(u) : u[i] \in Unit /\ u[i] # Bad
      BY <1>2, <2>2 DEF ToSet
    <3>2. \A i \in 1 .. Len(u) : u[i] \in Byte
      BY <3>1 DEF Unit
    <3> QED BY <1>2, <1>3, <2>2, <3>2 DEF Bytes
  <2> QED BY <2>1, <2>2
<1>5. Shorter(w, n - 1) \in Bytes
  BY <1>4, ShorterIs DEF Bytes
<1>6. PICK d : d = Decode(src, n, plus)
  OBVIOUS
<1>7. d = [ok |-> ~(Bad \in ToSet(u)) /\ Len(w) < n, written |-> Shorter(w, n - 1)]
  BY <1>1, <1>3, <1>6, Zenon DEF Decode
<1>8. d.written = Shorter(w, n - 1) /\ d.ok \in BOOLEAN
  BY <1>7
<1> QED BY <1>5, <1>6, <1>8

\* So is what lies in the buffer then.
LEMMA DecodedType ==
  ASSUME NEW d, d.written \in Bytes, NEW before \in Bytes, NEW garbage \in Bytes
  PROVE  Decoded(d, before, garbage) \in Bytes
<1>1. PICK w \in Bytes : w = d.written
  OBVIOUS
<1>2. Upto0(w) \in Bytes
  BY Upto0Type DEF Bytes
<1>3. w \o garbage \in Bytes /\ Upto0(w \o garbage) \in Bytes
  <2>1. w \o garbage \in Seq(Byte)
    BY ConcatProperties DEF Bytes
  <2> QED BY <2>1, Upto0Type DEF Bytes
<1>4. Len(w) <= Len(before) => Upto0(w \o SubSeq(before, Len(w) + 1, Len(before))) \in Bytes
  <2> SUFFICES ASSUME Len(w) <= Len(before)
               PROVE  Upto0(w \o SubSeq(before, Len(w) + 1, Len(before))) \in Bytes
    OBVIOUS
  <2>1. PICK m \in Nat : m = Len(w)
    BY DEF Bytes
  <2>2. SubSeq(before, m + 1, Len(before)) \in Seq(Byte)
    BY <2>1 DEF Bytes
  <2>3. w \o SubSeq(before, m + 1, Len(before)) \in Seq(Byte)
    BY <2>2, ConcatProperties DEF Bytes
  <2> QED BY <2>1, <2>3, Upto0Type DEF Bytes
<1> QED BY <1>1, <1>2, <1>3, <1>4 DEF Decoded

\* Where the key of a section ends, 0 if it has no value.
EqualsAt(section) == SelectInSeq(section, LAMBDA c : c = Equals)

\* It is the first equals sign.
LEMMA EqualsAtIs ==
  ASSUME NEW S, NEW section \in Seq(S), NEW e, e = EqualsAt(section)
  PROVE  /\ e \in 0 .. Len(section)
         /\ \A i \in 1 .. Len(section) : section[i] = Equals => e # 0 /\ e <= i
         /\ e # 0 => section[e] = Equals
<1> DEFINE I == {i \in 1 .. Len(section) : section[i] = Equals}
<1>1. e = IF I # {} THEN Min(I) ELSE 0
  BY Zenon DEF SelectInSeq, EqualsAt
<1>2. Len(section) \in Nat /\ I \in SUBSET Nat
  OBVIOUS
<1>3. CASE I = {}
  BY <1>1, <1>2, <1>3
<1>4. CASE I # {}
  <2>1. e \in I /\ \A i \in I : e <= i
    <3> HIDE DEF I
    <3> QED BY <1>1, <1>2, <1>4, MinIs
  <2> QED BY <2>1
<1> QED BY <1>3, <1>4

\* What the buffers of the scanner hold.
Pair == [key : Bytes, val : Bytes]

\* A section is read as a pair of texts, whatever lies in the buffers.
LEMMA PairOfType ==
  ASSUME NEW section \in Bytes, NEW before \in Pair, NEW garbage \in Bytes, NEW plus
  PROVE  PairOf(section, before, garbage, plus) \in Pair
<1> DEFINE eq   == EqualsAt(section)
           rawK == Shorter(IF eq = 0 THEN section ELSE SubSeq(section, 1, eq - 1), KeyCap - 1)
           rawV == Shorter(SubSeq(section, eq + 1, Len(section)), ValueCap - 1)
           k    == Decode(rawK, KeyCap, plus)
           v    == Decode(rawV, ValueCap, plus)
<1>1. PICK e \in 0 .. Len(section) : e = eq
  BY EqualsAtIs DEF Bytes
<1>2. PairOf(section, before, garbage, plus) =
        IF eq = 0 THEN [key |-> TrimmedInPlace(Decoded(k, rawK, garbage)), val |-> <<>>]
        ELSE [key |-> Decoded(k, before.key, garbage), val |-> Decoded(v, before.val, garbage)]
  BY DEF PairOf, EqualsAt
<1> HIDE DEF eq
<1>3. KeyCap - 1 \in Nat /\ ValueCap - 1 \in Nat /\ KeyCap \in Nat \ {0} /\ ValueCap \in Nat \ {0}
  BY CodecAssumption
<1>4. rawK \in Bytes
  <2>1. PICK a : a = IF eq = 0 THEN section ELSE SubSeq(section, 1, eq - 1)
    OBVIOUS
  <2>2. a \in Seq(Byte)
    <3>1. section \in Seq(Byte)
      BY DEF Bytes
    <3>2. e # 0 => SubSeq(section, 1, e - 1) \in Seq(Byte)
      BY <3>1, CutIs
    <3> QED BY <1>1, <2>1, <3>1, <3>2
  <2> QED BY <1>3, <2>1, <2>2, ShorterIs DEF Bytes
<1>5. rawV \in Bytes
  <2>1. SubSeq(section, e + 1, Len(section)) \in Seq(Byte)
    BY DEF Bytes
  <2> QED BY <1>1, <1>3, <2>1, ShorterIs DEF Bytes
<1> HIDE DEF rawK, rawV
<1>6. k.written \in Bytes /\ v.written \in Bytes
  BY <1>3, <1>4, <1>5, DecodeType
<1> HIDE DEF k, v
<1>7. before.key \in Bytes /\ before.val \in Bytes
  BY DEF Pair
<1>8. Decoded(k, rawK, garbage) \in Bytes /\ Decoded(k, before.key, garbage) \in Bytes
      /\ Decoded(v, before.val, garbage) \in Bytes
  BY <1>4, <1>6, <1>7, DecodedType
<1>9. TrimmedInPlace(Decoded(k, rawK, garbage)) \in Bytes
  BY <1>8, TrimmedType DEF Bytes
<1>10. <<>> \in Bytes
  BY DEF Bytes
<1> QED BY <1>2, <1>8, <1>9, <1>10 DEF Pair

\* Where the section ends that begins at i.
EndOf(text, sep, i) ==
  LET ends == {e \in i .. Len(text) : text[e] = sep} \cup {Len(text) + 1}
  IN  CHOOSE e \in ends : \A f \in ends : e <= f

\* It is the next separator, or the end of the text.
LEMMA EndOfIs ==
  ASSUME NEW text \in Bytes, NEW sep, NEW i \in 1 .. Len(text) + 1, NEW e, e = EndOf(text, sep, i)
  PROVE  /\ e \in i .. Len(text) + 1
         /\ e = Len(text) + 1 \/ text[e] = sep
         /\ \A j \in i .. e - 1 : text[j] # sep
<1> DEFINE ends == {x \in i .. Len(text) : text[x] = sep} \cup {Len(text) + 1}
<1>1. Len(text) \in Nat
  BY DEF Bytes
<1>2. \E x \in ends : \A f \in ends : x <= f
  <2>1. ends \in SUBSET Nat /\ ends # {}
    BY <1>1
  <2> HIDE DEF ends
  <2> QED BY <2>1, LeastNumber
<1>3. e \in ends /\ \A f \in ends : e <= f
  BY <1>2 DEF EndOf
<1>4. ASSUME NEW j \in i .. e - 1
      PROVE  text[j] # sep
  BY <1>1, <1>3
<1> QED BY <1>1, <1>3, <1>4

\* The sections from position i on, if there are one from behind it and beyond
\* from the end of its section.
SectionAt(text, sep, i, one, beyond) ==
  IF i > Len(text) THEN <<>>
  ELSE IF text[i] = sep THEN one
  ELSE <<SubSeq(text, i, EndOf(text, sep, i) - 1)>> \o beyond

\* The positions, with the sections from each on.
Divides(g, text, sep, l) ==
  \A i \in 1 .. l + 2 : g[i] = SectionAt(text, sep, i, g[i + 1], g[EndOf(text, sep, i)])

\* They are texts.
LEMMA SectionAtType ==
  ASSUME NEW text \in Bytes, NEW sep, NEW i \in Nat \ {0},
         NEW one \in Seq(Bytes), NEW beyond \in Seq(Bytes)
  PROVE  SectionAt(text, sep, i, one, beyond) \in Seq(Bytes)
<1>1. Len(text) \in Nat
  BY DEF Bytes
<1>2. CASE i > Len(text) \/ text[i] = sep
  BY <1>2 DEF SectionAt
<1>3. CASE ~(i > Len(text) \/ text[i] = sep)
  <2>1. PICK e \in i .. Len(text) + 1 : e = EndOf(text, sep, i)
    BY <1>1, <1>3, EndOfIs
  <2>2. SubSeq(text, i, e - 1) \in Bytes
    BY <1>3, <2>1 DEF Bytes
  <2>3. <<SubSeq(text, i, e - 1)>> \in Seq(Bytes)
    BY <2>2
  <2>4. <<SubSeq(text, i, e - 1)>> \o beyond \in Seq(Bytes)
    BY <2>3, ConcatProperties
  <2> QED BY <1>3, <2>1, <2>4 DEF SectionAt
<1> QED BY <1>2, <1>3

\* What Sections is.
LEMMA SectionsIs ==
  ASSUME NEW text \in Bytes, NEW sep, NEW l \in Nat, l = Len(text)
  PROVE  \E g \in [1 .. l + 2 -> Seq(Bytes)] :
           Divides(g, text, sep, l) /\ Sections(text, sep) = g[1]
<1> DEFINE N == l + 2
           E(i) == EndOf(text, sep, i)
           F == [1 .. N -> Seq(Bytes)]
           H == [i \in 1 .. l |-> [f \in F |->
                   IF text[i] = sep THEN f[i + 1] ELSE SectionAt(text, sep, i, <<>>, f[E(i)])]]
           P(f) == f = [i \in 1 .. Len(text) + 2 |-> SectionAt(text, sep, i, f[i + 1], f[E(i)])]
<1>1. N \in Nat /\ l <= N /\ <<>> \in Seq(Bytes)
  OBVIOUS
<1>2. \A i \in 1 .. l : i + 1 \in i + 1 .. N /\ (text[i] # sep => E(i) \in i + 1 .. N)
  <2> SUFFICES ASSUME NEW i \in 1 .. l
               PROVE  i + 1 \in i + 1 .. N /\ (text[i] # sep => E(i) \in i + 1 .. N)
    OBVIOUS
  <2>1. i \in 1 .. Len(text) + 1
    OBVIOUS
  <2>2. PICK e : e = E(i)
    OBVIOUS
  <2>3. e \in i .. l + 1 /\ (e = l + 1 \/ text[e] = sep)
    BY <2>1, <2>2, EndOfIs
  <2> QED BY <2>2, <2>3
<1> HIDE DEF E
<1>3. ASSUME NEW i \in 1 .. l, NEW f \in F
      PROVE  H[i][f] \in Seq(Bytes)
  <2>1. f[i + 1] \in Seq(Bytes) /\ (text[i] # sep => f[E(i)] \in Seq(Bytes))
    BY <1>2
  <2>2. text[i] # sep => SectionAt(text, sep, i, <<>>, f[E(i)]) \in Seq(Bytes)
    <3>1. i \in Nat \ {0}
      OBVIOUS
    <3> QED BY <1>1, <2>1, <3>1, SectionAtType
  <2> QED BY <2>1, <2>2
<1>4. ASSUME NEW i \in 1 .. l, NEW f \in F, NEW g \in F, \A j \in i + 1 .. N : f[j] = g[j]
      PROVE  H[i][f] = H[i][g]
  <2>1. f[i + 1] = g[i + 1] /\ (text[i] # sep => f[E(i)] = g[E(i)])
    BY <1>2, <1>4
  <2> QED BY <2>1
<1>5. \A i \in 1 .. l, f \in F : H[i][f] = SectionAt(text, sep, i, f[i + 1], f[E(i)])
  BY DEF SectionAt
<1>6. PICK f \in F : \A i \in 1 .. N : f[i] = IF i > l THEN <<>> ELSE H[i][f]
  <2>1. \A i \in 1 .. l : \A f \in F : H[i][f] \in Seq(Bytes)
    BY <1>3
  <2>2. \A i \in 1 .. l : \A f \in F, g \in F :
          (\A j \in i + 1 .. N : f[j] = g[j]) => H[i][f] = H[i][g]
    BY <1>4
  <2>3. Defined(l, N, Seq(Bytes), <<>>, H)
    <3> HIDE DEF H, N
    <3> QED BY <1>1, <2>1, <2>2, DefinedFromAbove
  <2> HIDE DEF H
  <2> QED BY <2>3 DEF Defined
<1>7. P(f)
  <2>1. ASSUME NEW i \in 1 .. N
        PROVE  f[i] = SectionAt(text, sep, i, f[i + 1], f[E(i)])
    <3> HIDE DEF H
    <3>1. CASE i > l
      BY <1>6, <3>1 DEF SectionAt
    <3>2. CASE ~(i > l)
      <4>1. i \in 1 .. l
        BY <3>2
      <4> QED BY <1>5, <1>6, <3>2, <4>1
    <3> QED BY <3>1, <3>2
  <2>2. f = [i \in 1 .. N |-> f[i]]
    OBVIOUS
  <2> HIDE DEF F, H
  <2> QED BY <2>1, <2>2
<1> HIDE DEF H
<1> DEFINE c == CHOOSE h : P(h)
<1>8. P(c)
  <2> HIDE DEF P
  <2> QED BY <1>7
<1>9. Sections(text, sep) = c[1]
  BY DEF Sections, SectionAt, EndOf, E
<1> HIDE DEF c
<1>10. \A i \in 1 .. N : c[i] = SectionAt(text, sep, i, c[i + 1], c[E(i)])
  BY <1>8
<1>11. \A i \in 1 .. N : c[i] \in Seq(Bytes)
  <2> DEFINE B == {i \in 1 .. N : c[i] \in Seq(Bytes)}
  <2>1. ASSUME NEW i \in 1 .. N, \A j \in i + 1 .. N : j \in B
        PROVE  i \in B
    <3>1. CASE i > l
      <4>1. SectionAt(text, sep, i, c[i + 1], c[E(i)]) = <<>>
        BY <3>1 DEF SectionAt
      <4> QED BY <1>1, <1>10, <4>1
    <3>2. CASE ~(i > l) /\ text[i] = sep
      <4>1. c[i] = c[i + 1]
        BY <1>10, <3>2 DEF SectionAt
      <4>2. i + 1 \in B
        BY <2>1, <3>2
      <4> QED BY <4>1, <4>2
    <3>3. CASE ~(i > l) /\ text[i] # sep
      <4>1. i \in 1 .. l /\ i \in Nat \ {0}
        BY <3>3
      <4>2. i + 1 \in B /\ E(i) \in B
        BY <1>2, <2>1, <3>3, <4>1
      <4>3. SectionAt(text, sep, i, c[i + 1], c[E(i)]) \in Seq(Bytes)
        BY <4>1, <4>2, SectionAtType
      <4> QED BY <1>10, <4>3
    <3> QED BY <3>1, <3>2, <3>3
  <2>2. \A i \in 1 .. N : i \in B
    <3> HIDE DEF B
    <3> QED BY <1>1, <2>1, FromAbove
  <2> QED BY <2>2
<1>12. c \in F
  <2>1. c = [i \in 1 .. N |-> SectionAt(text, sep, i, c[i + 1], c[E(i)])]
    BY <1>8
  <2>2. c = [i \in 1 .. N |-> c[i]]
    BY <2>1
  <2> QED BY <1>11, <2>2
<1> QED BY <1>9, <1>10, <1>12, Zenon DEF Divides, E

\* What PairsOf goes through.
Scans(f, start, sections, garbage, plus, n) ==
  /\ f[0] = <<start>>
  /\ \A i \in 1 .. n : f[i] = Append(f[i - 1], PairOf(sections[i], f[i - 1][i], garbage, plus))

\* There is such a sequence of steps.
LEMMA ScansExists ==
  ASSUME NEW start, NEW sections, NEW garbage, NEW plus, NEW n \in Nat
  PROVE  \E f : Scans(f, start, sections, garbage, plus, n)
<1> DEFINE Has(k) == \E f : Scans(f, start, sections, garbage, plus, k)
           B == {k \in 0 .. n : Has(k)}
<1>1. 0 \in B
  <2> DEFINE f == [i \in {0} |-> <<start>>]
  <2>1. f[0] = <<start>>
    OBVIOUS
  <2> HIDE DEF f
  <2>2. Scans(f, start, sections, garbage, plus, 0)
    BY <2>1 DEF Scans
  <2> QED BY <2>2
<1>2. ASSUME NEW k \in 1 .. n, k - 1 \in B
      PROVE  k \in B
  <2>1. PICK g : Scans(g, start, sections, garbage, plus, k - 1)
    BY <1>2
  <2>2. PICK v : v = Append(g[k - 1], PairOf(sections[k], g[k - 1][k], garbage, plus))
    OBVIOUS
  <2> DEFINE f == [i \in 0 .. k |-> IF i = k THEN v ELSE g[i]]
  <2>3. f[k] = v /\ \A i \in 0 .. k - 1 : f[i] = g[i]
    OBVIOUS
  <2> HIDE DEF f
  <2>4. ASSUME NEW i \in 1 .. k
        PROVE  f[i] = Append(f[i - 1], PairOf(sections[i], f[i - 1][i], garbage, plus))
    <3>1. f[i - 1] = g[i - 1]
      <4>1. i - 1 \in 0 .. k - 1
        OBVIOUS
      <4> QED BY <2>3, <4>1
    <3>2. CASE i = k
      BY <2>2, <2>3, <3>1, <3>2
    <3>3. CASE i # k
      <4>1. i \in 1 .. k - 1 /\ i \in 0 .. k - 1
        BY <3>3
      <4>2. g[i] = Append(g[i - 1], PairOf(sections[i], g[i - 1][i], garbage, plus))
        BY <2>1, <4>1, Zenon DEF Scans
      <4> QED BY <2>3, <3>1, <4>1, <4>2
    <3> QED BY <3>2, <3>3
  <2>5. f[0] = <<start>>
    <3>1. 0 \in 0 .. k - 1
      OBVIOUS
    <3> QED BY <2>1, <2>3, <3>1 DEF Scans
  <2>6. Scans(f, start, sections, garbage, plus, k)
    BY <2>4, <2>5, Zenon DEF Scans
  <2> QED BY <2>6
<1>3. \A k \in 0 .. n : k \in B
  <2> HIDE DEF B
  <2> QED BY <1>1, <1>2, Upwards
<1> QED BY <1>3

\* The buffers after each section; the first element is what was in them.
Buffers(b, sections, garbage, plus, n) ==
  /\ b \in Seq(Pair) /\ Len(b) = n + 1
  /\ \A i \in 1 .. n : b[i + 1] = PairOf(sections[i], b[i], garbage, plus)

\* What PairsOf is.
LEMMA PairsAre ==
  ASSUME NEW text \in Bytes, NEW sep, NEW plus, NEW garbage \in Bytes,
         NEW n \in Nat, n = Len(Sections(text, sep))
  PROVE  \E b : Buffers(b, Sections(text, sep), garbage, plus, n)
                /\ PairsOf(text, sep, plus, garbage) = Tail(b)
<1>1. PICK ss : ss = Sections(text, sep)
  OBVIOUS
<1>2. ss \in Seq(Bytes) /\ n = Len(ss)
  <2>1. Len(text) \in Nat
    BY DEF Bytes
  <2>2. PICK g \in [1 .. Len(text) + 2 -> Seq(Bytes)] : Sections(text, sep) = g[1]
    BY <2>1, SectionsIs
  <2>3. 1 \in 1 .. Len(text) + 2
    BY <2>1
  <2> QED BY <1>1, <2>2, <2>3
<1>3. PICK start \in Pair : start = [key |-> garbage, val |-> garbage]
  BY DEF Pair
<1> DEFINE Step(f, i) == Append(f[i - 1], PairOf(ss[i], f[i - 1][i], garbage, plus))
           P(f) == f = [i \in 0 .. Len(ss) |-> IF i = 0 THEN <<start>> ELSE Step(f, i)]
<1>4. \E f : P(f)
  <2>1. PICK g : Scans(g, start, ss, garbage, plus, n)
    BY ScansExists
  <2> DEFINE f == [i \in 0 .. n |-> g[i]]
  <2>2. ASSUME NEW i \in 0 .. n
        PROVE  f[i] = IF i = 0 THEN <<start>> ELSE Step(f, i)
    <3>1. f[i] = g[i] /\ (i # 0 => f[i - 1] = g[i - 1])
      OBVIOUS
    <3> HIDE DEF f
    <3>2. CASE i = 0
      BY <2>1, <3>1, <3>2 DEF Scans
    <3>3. CASE i # 0
      <4>1. i \in 1 .. n
        BY <3>3
      <4>2. g[i] = Append(g[i - 1], PairOf(ss[i], g[i - 1][i], garbage, plus))
        BY <2>1, <4>1, Zenon DEF Scans
      <4> QED BY <3>1, <3>3, <4>2
    <3> QED BY <3>2, <3>3
  <2>3. f = [i \in 0 .. n |-> f[i]]
    OBVIOUS
  <2> HIDE DEF f, Step
  <2>4. f = [i \in 0 .. n |-> IF i = 0 THEN <<start>> ELSE Step(f, i)]
    BY <2>2, <2>3
  <2> QED BY <1>2, <2>4
<1> DEFINE c == CHOOSE f : P(f)
<1>5. P(c)
  <2> HIDE DEF P
  <2> QED BY <1>4
<1>6. PairsOf(text, sep, plus, garbage) = Tail(c[n])
  BY <1>1, <1>2, <1>3, Zenon DEF PairsOf
<1> HIDE DEF c
<1>7. c[0] = <<start>> /\ \A i \in 1 .. n : c[i] = Step(c, i)
  <2>1. \A i \in 0 .. n : c[i] = IF i = 0 THEN <<start>> ELSE Step(c, i)
    <3> HIDE DEF Step
    <3> QED BY <1>2, <1>5
  <2>2. 0 \in 0 .. n /\ \A i \in 1 .. n : i \in 0 .. n /\ i # 0
    OBVIOUS
  <2> HIDE DEF Step
  <2> QED BY <2>1, <2>2
<1> DEFINE B == {i \in 0 .. n : Buffers(c[i], ss, garbage, plus, i)}
<1>8. 0 \in B
  <2>1. <<start>> \in Seq(Pair) /\ Len(<<start>>) = 0 + 1 /\ 1 .. 0 = {}
    OBVIOUS
  <2>2. Buffers(c[0], ss, garbage, plus, 0)
    BY <1>7, <2>1 DEF Buffers
  <2> QED BY <2>2
<1>9. ASSUME NEW i \in 1 .. n, i - 1 \in B
      PROVE  i \in B
  <2>1. PICK b : b = c[i - 1]
    OBVIOUS
  <2>2. /\ b \in Seq(Pair) /\ Len(b) = i
        /\ \A j \in 1 .. i - 1 : b[j + 1] = PairOf(ss[j], b[j], garbage, plus)
    BY <1>9, <2>1 DEF Buffers
  <2>3. PICK p \in Pair : p = PairOf(ss[i], b[i], garbage, plus)
    <3>1. b[i] \in Pair /\ ss[i] \in Bytes
      BY <1>2, <2>2
    <3> QED BY <3>1, PairOfType
  <2>4. PICK d \in Seq(Pair) : /\ d = Append(b, p) /\ Len(d) = i + 1 /\ d[i + 1] = p
                               /\ \A j \in 1 .. i : d[j] = b[j]
    <3>1. /\ Append(b, p) \in Seq(Pair) /\ Len(Append(b, p)) = Len(b) + 1
          /\ \A j \in 1 .. Len(b) : Append(b, p)[j] = b[j]
          /\ Append(b, p)[Len(b) + 1] = p
      BY <2>2, AppendProperties
    <3> QED BY <2>2, <3>1
  <2>5. c[i] = d
    BY <1>7, <2>1, <2>3, <2>4
  <2>6. ASSUME NEW j \in 1 .. i
        PROVE  d[j + 1] = PairOf(ss[j], d[j], garbage, plus)
    <3>1. CASE j = i
      BY <2>3, <2>4, <3>1
    <3>2. CASE j # i
      <4>1. j \in 1 .. i - 1 /\ j + 1 \in 1 .. i
        BY <3>2
      <4> QED BY <2>2, <2>4, <4>1
    <3> QED BY <3>1, <3>2
  <2>7. Buffers(d, ss, garbage, plus, i)
    BY <2>4, <2>6, Zenon DEF Buffers
  <2> QED BY <2>5, <2>7
<1>10. \A i \in 0 .. n : i \in B
  <2> HIDE DEF B
  <2> QED BY <1>8, <1>9, Upwards
<1>11. Buffers(c[n], ss, garbage, plus, n)
  BY <1>10
<1> QED BY <1>1, <1>6, <1>11

\* The pairs themselves.
LEMMA PairsOfIs ==
  ASSUME NEW text \in Bytes, NEW sep, NEW plus, NEW garbage \in Bytes
  PROVE  /\ PairsOf(text, sep, plus, garbage) \in Seq(Pair)
         /\ Len(PairsOf(text, sep, plus, garbage)) = Len(Sections(text, sep))
         /\ \A i \in 1 .. Len(Sections(text, sep)) : \E before \in Pair :
              PairsOf(text, sep, plus, garbage)[i] =
                PairOf(Sections(text, sep)[i], before, garbage, plus)
<1>1. PICK ss \in Seq(Bytes) : ss = Sections(text, sep)
  <2>1. Len(text) \in Nat
    BY DEF Bytes
  <2>2. PICK g \in [1 .. Len(text) + 2 -> Seq(Bytes)] : Sections(text, sep) = g[1]
    BY <2>1, SectionsIs
  <2>3. 1 \in 1 .. Len(text) + 2
    BY <2>1
  <2> QED BY <2>2, <2>3
<1>2. PICK n \in Nat : n = Len(ss)
  OBVIOUS
<1>3. PICK b : Buffers(b, ss, garbage, plus, n) /\ PairsOf(text, sep, plus, garbage) = Tail(b)
  BY <1>1, <1>2, PairsAre
<1>4. /\ b \in Seq(Pair) /\ Len(b) = n + 1
      /\ \A i \in 1 .. n : b[i + 1] = PairOf(ss[i], b[i], garbage, plus)
  BY <1>3 DEF Buffers
<1>5. Tail(b) \in Seq(Pair) /\ Len(Tail(b)) = n /\ \A i \in 1 .. n : Tail(b)[i] = b[i + 1]
  BY <1>4
<1>6. \A i \in 1 .. n : b[i] \in Pair /\ Tail(b)[i] = PairOf(ss[i], b[i], garbage, plus)
  BY <1>4, <1>5
<1> QED BY <1>1, <1>2, <1>3, <1>5, <1>6

\* What is found is a text.
LEMMA FindType ==
  ASSUME NEW pairs \in Seq(Pair), NEW key
  PROVE  Find(pairs, key) \in Bytes \cup {NULL}
<1> DEFINE I  == {i \in 1 .. Len(pairs) : pairs[i].key = key}
           at == SelectInSeq(pairs, LAMBDA p : p.key = key)
<1>1. at = IF I # {} THEN Min(I) ELSE 0
  BY Zenon DEF SelectInSeq
<1>2. Find(pairs, key) = IF at = 0 THEN NULL ELSE pairs[at].val
  BY DEF Find
<1> HIDE DEF at
<1>3. CASE I = {}
  BY <1>1, <1>2, <1>3
<1>4. CASE I # {}
  <2>1. Min(I) \in I
    <3>1. I \in SUBSET Nat
      OBVIOUS
    <3> HIDE DEF I
    <3> QED BY <1>4, <3>1, MinIs
  <2>2. PICK m \in 1 .. Len(pairs) : m = at
    BY <1>1, <1>4, <2>1
  <2>3. pairs[m].val \in Bytes
    <3>1. pairs[m] \in Pair
      OBVIOUS
    <3> QED BY <3>1 DEF Pair
  <2> QED BY <1>2, <2>2, <2>3
<1> QED BY <1>3, <1>4

-----------------------------------------------------------------------------
(* What an accessor returned can be put into JSON.                         *)

\* Everything a handler reads is a text, or missing.
TextInv ==
  /\ req.text \in Bytes /\ req.param \in Bytes \cup {NULL}
  /\ cookies \in Seq(Pair)
  /\ last.result \in Bytes \cup {NULL}

\* What lies in memory, and what clients send, are texts.
LEMMA TextsAreBytes ==
  /\ Garbage \subseteq Bytes /\ RawTexts \subseteq Bytes /\ Segments \subseteq Bytes
  /\ \A pairs \in PairLists :
       \A i \in 1 .. Len(pairs) : pairs[i].key \in Seq(Char) /\ pairs[i].val \in Seq(Char)
<1>1. Garbage \subseteq Bytes /\ RawTexts \subseteq Bytes
  BY TextsAssumption, CharsAreBytes
<1>2. Segments \subseteq Bytes
  <2>1. \A s \in Segments : s \in Seq(Char)
    BY TextsAssumption, SeqMonotonic
  <2> QED BY <2>1, CharsAreBytes
<1>3. ASSUME NEW pairs \in PairLists, NEW i \in 1 .. Len(pairs)
      PROVE  pairs[i].key \in Seq(Char) /\ pairs[i].val \in Seq(Char)
  <2>1. pairs \in Seq([key : Seq(Char), val : Seq(Char)])
    BY TextsAssumption
  <2>2. pairs[i] \in [key : Seq(Char), val : Seq(Char)]
    <3>1. PICK S : S = [key : Seq(Char), val : Seq(Char)]
      OBVIOUS
    <3>2. pairs \in Seq(S) /\ i \in 1 .. Len(pairs)
      BY <2>1, <3>1
    <3>3. pairs[i] \in S
      BY <3>2, ElementOfSeq
    <3> QED BY <3>1, <3>3
  <2> QED BY <2>2
<1> QED BY <1>1, <1>2, <1>3

\* Characters that separate nothing.
Inner == Byte \ {Amp, Equals, Semi}

\* What is encoded consists of those.
LEMMA EncodedIsInner ==
  ASSUME NEW s \in Bytes
  PROVE  Encode(s) \in Seq(Inner) /\ Encode(s) \in Bytes
<1>1. PICK n \in Nat : n = Len(s)
  BY DEF Bytes
<1> DEFINE p == [k \in 1 .. n |-> EncodedChar(s[k])]
<1>2. ASSUME NEW c \in Byte
      PROVE  EncodedChar(c) \in Seq(Inner)
  <2>1. ASSUME NEW v \in 0 .. 15
        PROVE  CharOfHex(v) \in Inner
    BY DEF CharOfHex, Inner, Byte, Amp, Equals, Semi
  <2>2. CharOfHex(c \div 16) \in Inner /\ CharOfHex(c % 16) \in Inner
    BY <2>1, Digits16
  <2>3. Percent \in Inner /\ (Safe(c) => c \in Inner)
    BY DEF Percent, Inner, Byte, Amp, Equals, Semi, Safe, Minus
  <2> QED BY <2>2, <2>3 DEF EncodedChar
<1>3. p \in Seq(Seq(Inner)) /\ Len(p) = n
  <2>1. \A k \in 1 .. n : s[k] \in Byte
    BY <1>1 DEF Bytes
  <2> QED BY <1>2, <2>1
<1>4. Encode(s) = FlattenSeq(p)
  <2>1. DOMAIN s = 1 .. n
    BY <1>1 DEF Bytes
  <2>2. p = [k \in DOMAIN s |-> EncodedChar(s[k])]
    BY <2>1
  <2> HIDE DEF p
  <2> QED BY <2>2, Zenon DEF Encode, EncodedChar
<1> HIDE DEF p
<1>5. FlattenSeq(p) \in Seq(Inner)
  BY <1>3, FlattenLaid
<1>6. Encode(s) \in Seq(Inner)
  BY <1>4, <1>5
<1>7. Encode(s) \in Bytes
  BY <1>1, EncodedLaid
<1> QED BY <1>6, <1>7

\* A pair as it is sent, without and with what separates it from the one before.
Sent(pair) == Encode(pair.key) \o <<Equals>> \o Encode(pair.val)
Piece(source, pairs, i) == (IF i = 1 THEN <<>> ELSE Between(source)) \o Sent(pairs[i])

\* It is a text.
LEMMA SentType ==
  ASSUME NEW pair, pair.key \in Bytes, pair.val \in Bytes
  PROVE  Sent(pair) \in Bytes
<1>1. Encode(pair.key) \in Bytes /\ Encode(pair.val) \in Bytes /\ <<Equals>> \in Bytes
  BY EncodedIsInner DEF Bytes, Byte, Equals
<1>2. Encode(pair.key) \o <<Equals>> \in Seq(Byte)
  BY <1>1, ConcatProperties DEF Bytes
<1>3. Encode(pair.key) \o <<Equals>> \o Encode(pair.val) \in Seq(Byte)
  BY <1>1, <1>2, ConcatProperties DEF Bytes
<1> QED BY <1>3 DEF Sent, Bytes

\* Joining is associative.
LEMMA Regrouped ==
  ASSUME NEW s \in Bytes, NEW t \in Bytes, NEW u \in Bytes
  PROVE  (s \o t) \o u = s \o (t \o u)
<1>1. s \in Seq(Byte) /\ t \in Seq(Byte) /\ u \in Seq(Byte)
  BY DEF Bytes
<1> QED BY <1>1, ConcatAssociative

\* The order in which four texts are joined makes no difference.
Joined(a, b, c, d) == a \o (b \o c \o d) = a \o b \o c \o d

\* Four texts may be joined from either end.
LEMMA JoinFour ==
  ASSUME NEW a \in Bytes, NEW b \in Bytes, NEW c \in Bytes, NEW d \in Bytes
  PROVE  Joined(a, b, c, d)
<1>1. PICK x \in Bytes : x = b \o c
  BY ConcatProperties DEF Bytes
<1>2. (a \o x) \o d = a \o (x \o d)
  BY Regrouped, Zenon
<1>3. (a \o b) \o c = a \o (b \o c)
  BY Regrouped, Zenon
<1> QED BY <1>1, <1>2, <1>3, Zenon DEF Joined

\* The pairs that are sent, one behind the other.
LEMMA TextLaid ==
  ASSUME NEW source, NEW pairs, NEW n \in Nat, n = Len(pairs), DOMAIN pairs = 1 .. n,
         \A i \in 1 .. n : pairs[i].key \in Bytes /\ pairs[i].val \in Bytes
  PROVE  /\ Text(source, pairs) \in Bytes
         /\ \E o \in [0 .. n -> Nat] :
              Laid(Text(source, pairs), [i \in 1 .. n |-> Piece(source, pairs, i)], n, o)
<1> DEFINE p == [i \in 1 .. n |-> Piece(source, pairs, i)]
<1>1. ASSUME NEW i \in 1 .. n
      PROVE  Piece(source, pairs, i) \in Bytes
  <2>1. PICK a : a = IF i = 1 THEN <<>> ELSE Between(source)
    OBVIOUS
  <2>2. a \in Seq(Byte)
    <3>1. <<>> \in Seq(Byte) /\ <<Semi, Blank>> \in Seq(Byte) /\ <<Amp>> \in Seq(Byte)
      BY DEF Semi, Blank, Amp, Byte
    <3> QED BY <2>1, <3>1 DEF Between
  <2>3. Sent(pairs[i]) \in Seq(Byte)
    BY SentType DEF Bytes
  <2>4. a \o Sent(pairs[i]) \in Seq(Byte)
    BY <2>2, <2>3, ConcatProperties
  <2> QED BY <2>1, <2>4 DEF Piece, Bytes
<1>2. p \in Seq(Bytes) /\ Len(p) = n
  BY <1>1
<1>3. Text(source, pairs) = FlattenSeq(p)
  <2>1. \A i \in 1 .. n : Piece(source, pairs, i) =
          (IF i = 1 THEN <<>> ELSE Between(source))
            \o Encode(pairs[i].key) \o <<Equals>> \o Encode(pairs[i].val)
    <3> SUFFICES ASSUME NEW i \in 1 .. n
                 PROVE  Piece(source, pairs, i) =
                          (IF i = 1 THEN <<>> ELSE Between(source))
                            \o Encode(pairs[i].key) \o <<Equals>> \o Encode(pairs[i].val)
      OBVIOUS
    <3>1. PICK a : a = IF i = 1 THEN <<>> ELSE Between(source)
      OBVIOUS
    <3>2. PICK b, c, e : b = Encode(pairs[i].key) /\ c = Encode(pairs[i].val) /\ e = <<Equals>>
      OBVIOUS
    <3>3. a \in Bytes /\ b \in Bytes /\ c \in Bytes /\ e \in Bytes
      <4>1. <<>> \in Bytes /\ <<Semi, Blank>> \in Bytes /\ <<Amp>> \in Bytes /\ <<Equals>> \in Bytes
        BY DEF Semi, Blank, Amp, Byte, Bytes, Equals
      <4>2. a \in Bytes
        BY <3>1, <4>1 DEF Between
      <4>3. b \in Bytes /\ c \in Bytes
        BY <3>2, EncodedIsInner
      <4> QED BY <3>2, <4>1, <4>2, <4>3
    <3>4. a \o (b \o e \o c) = a \o b \o e \o c
      <4>1. Joined(a, b, e, c)
        BY <3>3, JoinFour
      <4> QED BY <4>1, Zenon DEF Joined
    <3> QED BY <3>1, <3>2, <3>4, Zenon DEF Piece, Sent
  <2>2. p = [i \in DOMAIN pairs |->
               (IF i = 1 THEN <<>> ELSE Between(source))
                 \o Encode(pairs[i].key) \o <<Equals>> \o Encode(pairs[i].val)]
    BY <2>1
  <2> HIDE DEF p
  <2> QED BY <2>2, Zenon DEF Text
<1> HIDE DEF p
<1>4. FlattenSeq(p) \in Bytes /\ \E o \in [0 .. n -> Nat] : Laid(FlattenSeq(p), p, n, o)
  BY <1>2, FlattenLaid DEF Bytes
<1>5. Text(source, pairs) \in Bytes /\ \E o \in [0 .. n -> Nat] : Laid(Text(source, pairs), p, n, o)
  BY <1>3, <1>4
<1> QED BY <1>5 DEF p

\* What clients encode is a text.
LEMMA TextIsBytes ==
  ASSUME NEW source, NEW pairs \in PairLists
  PROVE  Text(source, pairs) \in Bytes
<1>1. PICK n \in Nat : n = Len(pairs) /\ DOMAIN pairs = 1 .. n
  BY TextsAssumption
<1>2. \A i \in 1 .. n : pairs[i].key \in Bytes /\ pairs[i].val \in Bytes
  BY <1>1, TextsAreBytes, CharsAreBytes
<1> QED BY <1>1, <1>2, TextLaid

\* The captured segment is a text, or missing.
LEMMA CapturedType ==
  ASSUME NEW segment \in Bytes
  PROVE  Captured(segment) \in Bytes \cup {NULL}
<1>1. PICK l \in Nat : l = Len(Encode(segment)) /\ Encode(segment) \in Bytes
  BY EncodedIsInner DEF Bytes
<1>2. PICK path : path = Decode(Encode(segment), Len(Encode(segment)) + 1, FALSE).written
  OBVIOUS
<1>3. path \in Bytes
  <2>1. l + 1 \in Nat \ {0}
    OBVIOUS
  <2> QED BY <1>1, <1>2, <2>1, DecodeType
<1>4. PICK param : param = Decode(path, ValueCap, FALSE)
  OBVIOUS
<1>5. param.written \in Bytes
  BY <1>3, <1>4, CodecAssumption, DecodeType
<1>6. Upto0(param.written) \in Bytes
  BY <1>5, Upto0Type DEF Bytes
<1>7. Captured(segment) = IF param.ok THEN Upto0(param.written) ELSE NULL
  BY <1>2, <1>4, Zenon DEF Captured
<1> QED BY <1>6, <1>7

\* Cookies are pairs of texts.
LEMMA HeaderPairsType ==
  ASSUME req.text \in Bytes, NEW garbage \in Bytes
  PROVE  HeaderPairs(garbage) \in Seq(Pair)
<1>1. PICK ps \in Seq(Pair) : ps = PairsOf(req.text, Semi, FALSE, garbage)
  BY PairsOfIs
<1>2. PICK m \in Nat : m = (IF Len(ps) < MaxCookies THEN Len(ps) ELSE MaxCookies) /\ m <= Len(ps)
  BY AccessorsAssumption
<1>3. SubSeq(ps, 1, m) \in Seq(Pair)
  BY <1>2, CutIs
<1>4. <<>> \in Seq(Pair)
  OBVIOUS
<1> QED BY <1>1, <1>2, <1>3, <1>4, Zenon DEF HeaderPairs

\* There is no request yet.
LEMMA TextInit == Init => TextInv
<1>1. <<>> \in Bytes /\ <<>> \in Seq(Pair)
  BY DEF Bytes
<1> QED BY <1>1 DEF Init, TextInv, NoRequest, NoCall

\* A request brings texts.
LEMMA TextArrives ==
  ASSUME TextInv, NEW source, NEW text \in Bytes, NEW pairs, NEW encoded, NEW segment \in Bytes,
         Arrive(source, text, pairs, encoded, segment)
  PROVE  TextInv'
<1>1. /\ req'.text = text /\ req'.param = Captured(segment)
      /\ cookies' \in {<<>>, cookies} /\ last'.result = NULL
  <2>1. req' = [source |-> source, text |-> text, pairs |-> pairs, encoded |-> encoded,
                segment |-> segment, param |-> Captured(segment)]
    BY DEF Arrive, Captured
  <2>2. cookies' \in {<<>>, cookies} /\ last' = NoCall
    BY DEF Arrive
  <2> QED BY <2>1, <2>2 DEF NoCall
<1>2. Captured(segment) \in Bytes \cup {NULL}
  BY CapturedType
<1>3. <<>> \in Seq(Pair)
  OBVIOUS
<1> QED BY <1>1, <1>2, <1>3 DEF TextInv

\* A search returns a text, or nothing.
LEMMA TextSearched ==
  ASSUME TextInv, NEW f, NEW text \in Bytes, Search(f, text)
  PROVE  TextInv'
<1>1. PICK garbage \in Garbage, key \in Keys :
        /\ last' = [call |-> f, key |-> key, result |-> Find(PairsOf(text, Amp, TRUE, garbage), key)]
        /\ UNCHANGED <<req, cookies>>
  BY DEF Search, Returns
<1>2. garbage \in Bytes
  BY TextsAreBytes
<1>3. PairsOf(text, Amp, TRUE, garbage) \in Seq(Pair)
  BY <1>2, PairsOfIs
<1>4. Find(PairsOf(text, Amp, TRUE, garbage), key) \in Bytes \cup {NULL}
  BY <1>3, FindType
<1> QED BY <1>1, <1>4 DEF TextInv

\* So it is kept by every step.
LEMMA TextStep == TextInv /\ [Next]_vars => TextInv'
<1> SUFFICES ASSUME TextInv, [Next]_vars PROVE TextInv'
  OBVIOUS
<1>1. <<>> \in Bytes
  BY DEF Bytes
<1>2. CASE Request
  <2>1. CASE \E source \in Sources \ {"json"}, pairs \in PairLists :
               Arrive(source, Text(source, pairs), pairs, TRUE, <<>>)
    BY <1>1, <2>1, TextIsBytes, TextArrives
  <2>2. CASE \E source \in Sources, text \in RawTexts : Arrive(source, text, <<>>, FALSE, <<>>)
    BY <1>1, <2>2, TextsAreBytes, TextArrives
  <2>3. CASE \E segment \in Segments : Arrive("json", <<>>, <<>>, FALSE, segment)
    BY <1>1, <2>3, TextsAreBytes, TextArrives
  <2> QED BY <1>2, <2>1, <2>2, <2>3 DEF Request
<1>3. CASE Query
  <2>1. PICK text : /\ text = (IF req.source = "query" THEN req.text ELSE <<>>)
                    /\ Search("query", text)
    BY <1>3 DEF Query
  <2>2. text \in Bytes
    BY <1>1, <2>1 DEF TextInv
  <2> QED BY <2>1, <2>2, TextSearched
<1>4. CASE Form
  <2>1. Search("form", req.text) /\ req.text \in Bytes
    BY <1>4 DEF Form, TextInv
  <2> QED BY <2>1, TextSearched
<1>5. CASE FormOfNone
  BY <1>5 DEF FormOfNone, Returns, TextInv
<1>6. CASE Cookie
  <2>1. PICK garbage \in Garbage, key \in Keys :
          /\ cookies' = IF ncookies < 0 THEN HeaderPairs(garbage) ELSE cookies
          /\ last' = [call |-> "cookie", key |-> key, result |-> Find(cookies', key)]
          /\ req' = req
    BY <1>6 DEF Cookie, Returns
  <2>2. cookies' \in Seq(Pair)
    <3>1. garbage \in Bytes
      BY TextsAreBytes
    <3> QED BY <2>1, <3>1, HeaderPairsType DEF TextInv
  <2>3. Find(cookies', key) \in Bytes \cup {NULL}
    BY <2>2, FindType
  <2> QED BY <2>1, <2>2, <2>3 DEF TextInv
<1>7. CASE Param
  BY <1>7 DEF Param, Returns, TextInv
<1>8. CASE UNCHANGED vars
  BY <1>8 DEF vars, TextInv
<1> QED BY <1>2, <1>3, <1>4, <1>5, <1>6, <1>7, <1>8 DEF Next

(***************************************************************************)
(* Whatever an accessor returned, its quoted form in a JSON answer is read *)
(* back as just that by the client.                                        *)
(***************************************************************************)
THEOREM AnswersQuoteWell == Spec => []QuotedReadsBack
<1>1. TextInv => QuotedReadsBack
  BY QuoteReadsBack DEF TextInv, QuotedReadsBack
<1> QED BY <1>1, TextInit, TextStep, PTL DEF Spec

-----------------------------------------------------------------------------
(* Cookies are of the request at hand.                                     *)

\* Characters that end a key, a value or a pair.
Separators == {Amp, Semi, Equals}

\* A separator is no digit.
LEMMA NoEscapeHere ==
  ASSUME NEW x \in Separators, NEW c
  PROVE  Escaped(x, c) = Bad /\ Escaped(c, x) = Bad
<1>1. HexValue(x) = Bad
  BY DEF Separators, Amp, Semi, Equals, HexValue
<1>2. x \notin Whitespace \cup {11, 12, Plus} /\ x # Minus
  BY DEF Separators, Amp, Semi, Equals, Whitespace, Plus, Minus, Blank
<1> QED BY <1>1, <1>2 DEF Escaped

\* What follows the first character of a good text.
LEMMA BehindFirst ==
  ASSUME NEW v, NEW u \in Seq(Unit), v \in Unit, <<v>> \o u \in Bytes
  PROVE  v \in Byte /\ u \in Bytes
<1>1. <<v>> \in Seq(Unit) /\ Len(<<v>>) = 1 /\ <<v>>[1] = v
  OBVIOUS
<1>2. PICK a \in Seq(Unit) : a = <<v>>
  BY <1>1
<1>3. PICK n \in Nat : n = Len(u)
  OBVIOUS
<1>4. /\ Len(a \o u) = 1 + n
      /\ \A k \in 1 .. 1 : (a \o u)[k] = a[k]
      /\ \A k \in 1 .. n : (a \o u)[1 + k] = u[k]
  BY <1>1, <1>2, <1>3, JoinIs
<1>5. PICK w \in Bytes : w = a \o u
  BY <1>2
<1>6. Len(w) = 1 + n /\ w[1] = v /\ \A k \in 1 .. n : w[1 + k] = u[k]
  <2>1. 1 \in 1 .. 1
    OBVIOUS
  <2> QED BY <1>1, <1>2, <1>4, <1>5, <2>1
<1>7. \A k \in 1 .. 1 + n : w[k] \in Byte
  BY <1>6 DEF Bytes
<1>8. 1 \in 1 .. 1 + n /\ \A k \in 1 .. n : 1 + k \in 1 .. 1 + n
  OBVIOUS
<1>9. v \in Byte /\ \A k \in 1 .. n : u[k] \in Byte
  BY <1>6, <1>7, <1>8
<1> QED BY <1>3, <1>9 DEF Bytes

\* What is good from position i on is good from the next one on.
LEMMA GoodStep ==
  ASSUME NEW src \in Bytes, NEW l \in Nat, l = Len(src), NEW g \in [1 .. l + 3 -> Seq(Unit)],
         Decodes(g, src, FALSE, l), NEW i \in 1 .. l, g[i] \in Bytes
  PROVE  IF StartsEscape(src, i)
           THEN Escaped(src[i + 1], src[i + 2]) \in Byte /\ g[i + 3] \in Bytes
           ELSE g[i + 1] \in Bytes
<1>1. i \in 1 .. l + 3 /\ i + 1 \in 1 .. l + 3 /\ i + 3 \in 1 .. l + 3 /\ ~(i > Len(src))
  OBVIOUS
<1>2. g[i] = UnitAt(src, i, FALSE, g[i + 1], g[i + 3])
  BY <1>1 DEF Decodes
<1>3. g[i + 1] \in Seq(Unit) /\ g[i + 3] \in Seq(Unit)
  BY <1>1
<1>4. CASE StartsEscape(src, i)
  <2>1. i + 1 \in 1 .. l /\ i + 2 \in 1 .. l
    BY <1>4 DEF StartsEscape
  <2>2. src[i + 1] \in Byte /\ src[i + 2] \in Byte
    BY <2>1 DEF Bytes
  <2>3. PICK v \in Unit : v = Escaped(src[i + 1], src[i + 2])
    BY <2>2, EscapedType
  <2>4. g[i] = IF v = Bad THEN <<Bad>> ELSE <<v>> \o g[i + 3]
    BY <1>1, <1>2, <1>4, <2>3 DEF UnitAt
  <2>5. <<Bad>> \notin Bytes
    BY DEF Bytes, Bad, Byte
  <2>6. g[i] = <<v>> \o g[i + 3]
    BY <2>4, <2>5
  <2>7. v \in Byte /\ g[i + 3] \in Bytes
    BY <1>3, <2>6, BehindFirst
  <2> QED BY <1>4, <2>3, <2>7
<1>5. CASE ~StartsEscape(src, i)
  <2>1. src[i] \in Byte
    BY DEF Bytes
  <2>2. g[i] = <<src[i]>> \o g[i + 1]
    BY <1>1, <1>2, <1>5 DEF UnitAt
  <2>3. src[i] \in Unit
    BY <2>1 DEF Unit
  <2>4. g[i + 1] \in Bytes
    BY <1>3, <2>2, <2>3, BehindFirst
  <2> QED BY <1>5, <2>4
<1> QED BY <1>4, <1>5

\* In a text without bad escapes decoding comes by every separator.
LEMMA GoodBehindSeparator ==
  ASSUME NEW src \in Bytes, NEW l \in Nat, l = Len(src), NEW g \in [1 .. l + 3 -> Seq(Unit)],
         Decodes(g, src, FALSE, l), g[1] \in Bytes, NEW j \in 1 .. l, src[j] \in Separators
  PROVE  g[j + 1] \in Bytes
<1> DEFINE S == {p \in 1 .. j : g[p] \in Bytes}
<1>1. PICK p \in S : \A q \in S : q <= p
  <2>1. j \in Nat /\ S \in SUBSET (1 .. j) /\ S # {}
    OBVIOUS
  <2> HIDE DEF S
  <2>2. Max(S) \in S /\ \A q \in S : q <= Max(S)
    BY <2>1, MaxIs
  <2> QED BY <2>2, Zenon
<1>2. p \in 1 .. l /\ g[p] \in Bytes
  OBVIOUS
<1>3. IF StartsEscape(src, p)
        THEN Escaped(src[p + 1], src[p + 2]) \in Byte /\ g[p + 3] \in Bytes
        ELSE g[p + 1] \in Bytes
  BY <1>2, GoodStep
<1>4. p = j
  <2> SUFFICES ASSUME p < j PROVE FALSE
    OBVIOUS
  <2>1. CASE ~StartsEscape(src, p)
    <3>1. p + 1 \in S
      BY <1>3, <2>1
    <3> QED BY <1>1, <3>1
  <2>2. CASE StartsEscape(src, p)
    <3>1. ~(p + 3 <= j)
      <4> SUFFICES ASSUME p + 3 <= j PROVE FALSE
        OBVIOUS
      <4>1. p + 3 \in S
        BY <1>3, <2>2
      <4> QED BY <1>1, <4>1
    <3>2. j = p + 1 \/ j = p + 2
      BY <3>1
    <3>3. Escaped(src[p + 1], src[p + 2]) = Bad
      BY <3>2, NoEscapeHere
    <3>4. Bad \notin Byte
      BY DEF Bad, Byte
    <3> QED BY <1>3, <2>2, <3>3, <3>4
  <2> QED BY <2>1, <2>2
<1>5. ~StartsEscape(src, p)
  BY <1>4 DEF StartsEscape, Separators, Percent, Amp, Semi, Equals
<1> QED BY <1>3, <1>4, <1>5

\* A part of such a text that begins behind a separator has none either.
LEMMA GoodPart ==
  ASSUME NEW text \in Bytes, Units(text, FALSE) \in Bytes, NEW l \in Nat, l = Len(text),
         NEW a \in 1 .. l + 1, NEW b \in 0 .. l, a = 1 \/ text[a - 1] \in Separators,
         NEW s, s = SubSeq(text, a, b)
  PROVE  s \in Bytes /\ Units(s, FALSE) \in Bytes
<1>1. PICK g \in [1 .. l + 3 -> Seq(Unit)] : Decodes(g, text, FALSE, l) /\ Units(text, FALSE) = g[1]
  BY UnitsIs
<1>2. g[a] \in Bytes
  <2>1. CASE a = 1
    BY <1>1, <2>1
  <2>2. CASE a # 1
    <3>1. a - 1 \in 1 .. l /\ text[a - 1] \in Separators /\ (a - 1) + 1 = a
      BY <2>2
    <3>2. g[(a - 1) + 1] \in Bytes
      BY <1>1, <3>1, GoodBehindSeparator
    <3> QED BY <3>1, <3>2
  <2> QED BY <2>1, <2>2
<1>3. PICK m \in Nat : /\ s \in Bytes /\ m = Len(s) /\ a + m <= l + 1
                       /\ \A i \in 1 .. m : s[i] = text[(a - 1) + i]
  <2>1. CASE b < a
    <3>1. s = <<>>
      BY <2>1, SubSeqEmpty
    <3> QED BY <3>1 DEF Bytes
  <2>2. CASE ~(b < a)
    <3>1. PICK m \in Nat : m = b + 1 - a
      BY <2>2
    <3>2. s \in Seq(Byte) /\ Len(s) = m /\ \A i \in 1 .. m : s[i] = text[(a - 1) + i]
      BY <2>2, <3>1 DEF Bytes
    <3> QED BY <3>1, <3>2 DEF Bytes
  <2> QED BY <2>1, <2>2
<1>4. PICK h \in [1 .. m + 3 -> Seq(Unit)] : Decodes(h, s, FALSE, m) /\ Units(s, FALSE) = h[1]
  BY <1>3, UnitsIs
<1> DEFINE B == {i \in 1 .. m + 3 : (i <= m => g[(a - 1) + i] \in Bytes) => h[i] \in Bytes}
<1>5. \A i \in 1 .. m + 3 : i > m => h[i] = <<>>
  BY <1>3, <1>4 DEF Decodes, UnitAt
<1>6. <<>> \in Bytes
  BY DEF Bytes
<1>7. ASSUME NEW v \in Byte, NEW u \in Bytes
      PROVE  <<v>> \o u \in Bytes
  <2>1. <<v>> \in Seq(Byte) /\ u \in Seq(Byte)
    BY DEF Bytes
  <2> QED BY <2>1, ConcatProperties DEF Bytes
<1>8. ASSUME NEW i \in 1 .. m + 3, \A j \in i + 1 .. m + 3 : j \in B
      PROVE  i \in B
  <2> SUFFICES ASSUME i <= m, g[(a - 1) + i] \in Bytes PROVE h[i] \in Bytes
    BY <1>5, <1>6
  <2>1. PICK k \in 1 .. l : k = (a - 1) + i
    BY <1>3
  <2>2. IF StartsEscape(text, k)
          THEN Escaped(text[k + 1], text[k + 2]) \in Byte /\ g[k + 3] \in Bytes
          ELSE g[k + 1] \in Bytes
    BY <1>1, <2>1, GoodStep
  <2>3. h[i] = UnitAt(s, i, FALSE, h[i + 1], h[i + 3]) /\ ~(i > Len(s))
    <3>1. h[i] = UnitAt(s, i, FALSE, h[i + 1], h[i + 3])
      BY <1>4, Zenon DEF Decodes
    <3>2. ~(i > m)
      OBVIOUS
    <3> QED BY <1>3, <3>1, <3>2
  <2>4. s[i] = text[k] /\ s[i] \in Byte
    <3>1. i \in 1 .. m
      OBVIOUS
    <3>2. s \in Seq(Byte)
      BY <1>3 DEF Bytes
    <3>3. s[i] \in Byte
      BY <1>3, <3>1, <3>2
    <3> QED BY <1>3, <2>1, <3>1, <3>3
  <2>5. CASE StartsEscape(s, i)
    <3>1. i + 1 \in 1 .. m /\ i + 2 \in 1 .. m /\ i + 3 \in i + 1 .. m + 3
      BY <1>3, <2>5 DEF StartsEscape
    <3>2. s[i + 1] = text[k + 1] /\ s[i + 2] = text[k + 2] /\ k + 2 <= l
      <4>1. (a - 1) + (i + 1) = k + 1 /\ (a - 1) + (i + 2) = k + 2
        BY <2>1
      <4>2. s[i + 1] = text[(a - 1) + (i + 1)] /\ s[i + 2] = text[(a - 1) + (i + 2)]
        BY <1>3, <3>1, Zenon
      <4>3. k + 2 <= l
        BY <1>3, <2>1, <3>1
      <4> QED BY <4>1, <4>2, <4>3
    <3>3. StartsEscape(text, k)
      BY <2>4, <2>5, <3>2 DEF StartsEscape
    <3>4. PICK v \in Byte : v = Escaped(s[i + 1], s[i + 2])
      BY <2>2, <3>2, <3>3
    <3>5. h[i] = <<v>> \o h[i + 3]
      <4>1. v # Bad
        BY DEF Byte, Bad
      <4> QED BY <2>3, <2>5, <3>4, <4>1 DEF UnitAt
    <3>6. g[(a - 1) + (i + 3)] \in Bytes
      <4>1. (a - 1) + (i + 3) = k + 3
        BY <2>1
      <4> QED BY <2>2, <3>3, <4>1
    <3>7. h[i + 3] \in Bytes
      BY <1>8, <3>1, <3>6
    <3> QED BY <1>7, <3>5, <3>7
  <2>6. CASE ~StartsEscape(s, i)
    <3>1. h[i] = <<s[i]>> \o h[i + 1]
      BY <2>3, <2>6 DEF UnitAt
    <3>2. i + 1 \in i + 1 .. m + 3 /\ i + 1 \in 1 .. m + 3
      OBVIOUS
    <3>3. CASE ~StartsEscape(text, k)
      <4>1. (a - 1) + (i + 1) = k + 1
        BY <2>1
      <4>2. h[i + 1] \in Bytes
        BY <1>8, <2>2, <3>2, <3>3, <4>1
      <4> QED BY <1>7, <2>4, <3>1, <4>2
    <3>4. CASE StartsEscape(text, k)
      <4>1. i + 2 > m
        BY <1>3, <2>4, <2>6, <3>4 DEF StartsEscape
      <4>2. CASE i + 1 > m
        BY <1>5, <1>6, <1>7, <2>4, <3>1, <3>2, <4>2
      <4>3. CASE ~(i + 1 > m)
        <5>1. i + 1 \in 1 .. m /\ i + 2 \in 1 .. m + 3 /\ ~(i + 1 > Len(s)) /\ (i + 1) + 1 = i + 2
          BY <1>3, <4>3
        <5>2. ~StartsEscape(s, i + 1)
          BY <1>3, <4>1 DEF StartsEscape
        <5>3. h[i + 1] = UnitAt(s, i + 1, FALSE, h[(i + 1) + 1], h[(i + 1) + 3])
          BY <1>4, <3>2 DEF Decodes
        <5>4. h[i + 1] = <<s[i + 1]>> \o h[i + 2]
          BY <5>1, <5>2, <5>3 DEF UnitAt
        <5>5. h[i + 2] = <<>> /\ s[i + 1] \in Byte
          <6>1. h[i + 2] = <<>>
            BY <1>5, <4>1, <5>1
          <6>2. s \in Seq(Byte)
            BY <1>3 DEF Bytes
          <6>3. s[i + 1] \in Byte
            BY <1>3, <5>1, <6>2
          <6> QED BY <6>1, <6>3
        <5>6. h[i + 1] \in Bytes
          BY <1>6, <1>7, <5>4, <5>5
        <5> QED BY <1>7, <2>4, <3>1, <5>6
      <4> QED BY <4>2, <4>3
    <3> QED BY <3>3, <3>4
  <2> QED BY <2>5, <2>6
<1>9. \A i \in 1 .. m + 3 : i \in B
  <2>1. m + 3 \in Nat
    OBVIOUS
  <2> HIDE DEF B
  <2> QED BY <1>8, <2>1, FromAbove
<1>10. h[1] \in Bytes
  <2>1. 1 \in 1 .. m + 3
    OBVIOUS
  <2>2. 1 <= m => g[(a - 1) + 1] \in Bytes
    <3>1. (a - 1) + 1 = a
      OBVIOUS
    <3> QED BY <1>2, <3>1
  <2>3. (1 <= m => g[(a - 1) + 1] \in Bytes) => h[1] \in Bytes
    <3>1. 1 \in B
      BY <1>9, <2>1
    <3> QED BY <3>1
  <2> HIDE DEF B
  <2> QED BY <2>2, <2>3
<1> QED BY <1>3, <1>4, <1>10

\* A part of the text that begins behind a separator, or with the text.
PartOf(s, text, sep, l) ==
  \E a \in 1 .. l + 1, b \in 0 .. l :
    s = SubSeq(text, a, b) /\ (a = 1 \/ text[a - 1] = sep)

\* Every section is one.
LEMMA SectionIsPart ==
  ASSUME NEW text \in Bytes, NEW sep, NEW l \in Nat, l = Len(text),
         NEW s \in ToSet(Sections(text, sep))
  PROVE  PartOf(s, text, sep, l)
<1> DEFINE Part(t) == \E a \in 1 .. l + 1, b \in 0 .. l :
                        t = SubSeq(text, a, b) /\ (a = 1 \/ text[a - 1] = sep)
           Starts(i) == i = 1 \/ i > l \/ text[i - 1] = sep \/ text[i] = sep
<1>1. PICK g \in [1 .. l + 2 -> Seq(Bytes)] : Divides(g, text, sep, l) /\ Sections(text, sep) = g[1]
  BY SectionsIs
<1> DEFINE Parts == {u \in Seq(Bytes) : \A k \in 1 .. Len(u) : Part(u[k])}
           B == {i \in 1 .. l + 2 : Starts(i) => g[i] \in Parts}
<1>2. <<>> \in Parts
  OBVIOUS
<1>3. ASSUME NEW i \in 1 .. l + 2, \A j \in i + 1 .. l + 2 : j \in B
      PROVE  i \in B
  <2> SUFFICES ASSUME Starts(i) PROVE g[i] \in Parts
    OBVIOUS
  <2>1. g[i] = SectionAt(text, sep, i, g[i + 1], g[EndOf(text, sep, i)])
    BY <1>1, Zenon DEF Divides
  <2>2. CASE i > l
    <3>1. g[i] = <<>>
      BY <2>1, <2>2 DEF SectionAt
    <3> QED BY <1>2, <3>1
  <2>3. CASE ~(i > l) /\ text[i] = sep
    <3>1. g[i] = g[i + 1]
      BY <2>1, <2>3 DEF SectionAt
    <3>2. i + 1 \in B
      BY <1>3, <2>3
    <3>3. Starts(i + 1)
      <4>1. (i + 1) - 1 = i
        OBVIOUS
      <4> QED BY <2>3, <4>1
    <3> QED BY <3>1, <3>2, <3>3
  <2>4. CASE ~(i > l) /\ text[i] # sep
    <3>1. i \in 1 .. Len(text) + 1
      BY <2>4
    <3>2. PICK e : e = EndOf(text, sep, i)
      OBVIOUS
    <3>3. e \in i .. l + 1 /\ (e = l + 1 \/ text[e] = sep)
      BY <3>1, <3>2, EndOfIs
    <3>4. e \in i + 1 .. l + 2 /\ e - 1 \in 0 .. l /\ i \in 1 .. l + 1 /\ e > i
      BY <2>4, <3>3
    <3>5. g[i] = <<SubSeq(text, i, e - 1)>> \o g[e]
      BY <2>1, <2>4, <3>2 DEF SectionAt
    <3>6. Starts(e)
      BY <3>3, <3>4
    <3>7. e \in B
      BY <1>3, <3>4
    <3>8. g[e] \in Parts
      BY <3>6, <3>7
    <3>9. Part(SubSeq(text, i, e - 1))
      <4>1. i = 1 \/ text[i - 1] = sep
        BY <2>4
      <4> QED BY <3>4, <4>1
    <3>10. SubSeq(text, i, e - 1) \in Bytes
      BY <2>4, <3>3, <3>4 DEF Bytes
    <3> HIDE DEF Part
    <3>11. PICK v \in Bytes : v = SubSeq(text, i, e - 1) /\ Part(v)
      BY <3>9, <3>10
    <3>12. PICK u \in Seq(Bytes), n \in Nat : u = g[e] /\ n = Len(u) /\ \A k \in 1 .. n : Part(u[k])
      BY <3>8
    <3>13. PICK f \in Seq(Bytes) : f = <<v>> /\ Len(f) = 1 /\ f[1] = v
      <4>1. <<v>> \in Seq(Bytes) /\ Len(<<v>>) = 1 /\ <<v>>[1] = v
        OBVIOUS
      <4> QED BY <4>1
    <3>14. PICK w \in Seq(Bytes) : /\ w = f \o u /\ Len(w) = 1 + n /\ w[1] = v
                                   /\ \A k \in 1 .. n : w[1 + k] = u[k]
      <4>1. /\ f \o u \in Seq(Bytes) /\ Len(f \o u) = 1 + n
            /\ \A k \in 1 .. 1 : (f \o u)[k] = f[k]
            /\ \A k \in 1 .. n : (f \o u)[1 + k] = u[k]
        BY <3>12, <3>13, JoinIs
      <4>2. 1 \in 1 .. 1
        OBVIOUS
      <4>3. (f \o u)[1] = v
        BY <3>13, <4>1, <4>2
      <4> QED BY <4>1, <4>3
    <3>15. ASSUME NEW k \in 1 .. Len(w)
           PROVE  Part(w[k])
      <4>1. CASE k = 1
        BY <3>11, <3>14, <4>1
      <4>2. CASE k # 1
        <5>1. k - 1 \in 1 .. n /\ 1 + (k - 1) = k
          BY <3>14, <4>2
        <5> QED BY <3>12, <3>14, <5>1
      <4> QED BY <4>1, <4>2
    <3>16. g[i] = w
      BY <3>5, <3>11, <3>12, <3>13, <3>14
    <3> QED BY <3>15, <3>16
  <2> QED BY <2>2, <2>3, <2>4
<1>4. \A i \in 1 .. l + 2 : i \in B
  <2>1. l + 2 \in Nat
    OBVIOUS
  <2> HIDE DEF B
  <2> QED BY <1>3, <2>1, FromAbove
<1>5. Sections(text, sep) \in Parts
  <2>1. 1 \in B
    BY <1>4
  <2> HIDE DEF Parts
  <2> QED BY <1>1, <2>1
<1>6. PICK u \in Seq(Bytes) : u = Sections(text, sep) /\ \A k \in 1 .. Len(u) : Part(u[k])
  BY <1>5
<1>7. PICK k \in 1 .. Len(u) : s = u[k]
  BY <1>6 DEF ToSet
<1>8. Part(s)
  <2> HIDE DEF Part
  <2> QED BY <1>6, <1>7
<1> QED BY <1>8, Zenon DEF PartOf

\* A key or value without bad escapes is decoded as a whole: what lies in the
\* buffers makes no difference.
LEMMA GoodDecoded ==
  ASSUME NEW src \in Bytes, Units(src, FALSE) \in Bytes, NEW n \in Nat, Len(src) < n,
         NEW b1, NEW g1, NEW b2, NEW g2
  PROVE  Decoded(Decode(src, n, FALSE), b1, g1) = Decoded(Decode(src, n, FALSE), b2, g2)
<1>1. PICK u \in Bytes : u = Units(src, FALSE)
  OBVIOUS
<1>2. Len(u) < n
  <2>1. u \in Runs(Len(src))
    BY <1>1, UnitsRun
  <2>2. Len(u) <= Len(src)
    BY <2>1 DEF Runs
  <2>3. Len(src) \in Nat /\ Len(u) \in Nat
    BY DEF Bytes
  <2> QED BY <2>2, <2>3
<1>3. PICK d : d = Decode(src, n, FALSE)
  OBVIOUS
<1>4. d = [ok |-> Len(u) < n, written |-> Shorter(u, n - 1)]
  BY <1>1, <1>3, DecodeGood, Zenon
<1>5. d.ok
  BY <1>2, <1>4
<1> QED BY <1>3, <1>5 DEF Decoded

\* So is a section of such keys and values.
LEMMA GoodPairOf ==
  ASSUME NEW section \in Bytes, Units(section, FALSE) \in Bytes,
         NEW b1, NEW g1, NEW b2, NEW g2
  PROVE  PairOf(section, b1, g1, FALSE) = PairOf(section, b2, g2, FALSE)
<1> DEFINE eq   == EqualsAt(section)
           rawK == Shorter(IF eq = 0 THEN section ELSE SubSeq(section, 1, eq - 1), KeyCap - 1)
           rawV == Shorter(SubSeq(section, eq + 1, Len(section)), ValueCap - 1)
           k    == Decode(rawK, KeyCap, FALSE)
           v    == Decode(rawV, ValueCap, FALSE)
<1>1. PICK l \in Nat : l = Len(section)
  BY DEF Bytes
<1>2. PICK e \in 0 .. l : e = eq /\ (e # 0 => section[e] = Equals)
  BY <1>1, EqualsAtIs DEF Bytes
<1>3. \A b, g : PairOf(section, b, g, FALSE) =
        IF eq = 0 THEN [key |-> TrimmedInPlace(Decoded(k, rawK, g)), val |-> <<>>]
        ELSE [key |-> Decoded(k, b.key, g), val |-> Decoded(v, b.val, g)]
  BY DEF PairOf, EqualsAt
<1> HIDE DEF eq
<1>4. KeyCap - 1 \in Nat /\ ValueCap - 1 \in Nat /\ KeyCap \in Nat /\ ValueCap \in Nat
  BY CodecAssumption
<1>5. PICK q \in 0 .. l : rawK = SubSeq(section, 1, q) /\ q <= KeyCap - 1
  <2>1. PICK a \in Seq(Byte), p \in 0 .. l : /\ a = (IF eq = 0 THEN section ELSE SubSeq(section, 1, eq - 1))
                                             /\ Len(a) = p /\ a = SubSeq(section, 1, p)
    <3>1. section \in Seq(Byte) /\ SubSeq(section, 1, l) = section
      BY <1>1, SubSeqFull DEF Bytes
    <3>2. CASE e = 0
      <4>1. l \in 0 .. l
        OBVIOUS
      <4> QED BY <1>1, <1>2, <3>1, <3>2, <4>1, Zenon
    <3>3. CASE e # 0
      <4>1. PICK p \in 0 .. l : p = e - 1
        BY <3>3
      <4>2. p \in Nat /\ p <= Len(section)
        BY <1>1
      <4>3. SubSeq(section, 1, p) \in Seq(Byte) /\ Len(SubSeq(section, 1, p)) = p
        BY <3>1, <4>2, CutIs
      <4> QED BY <1>2, <3>3, <4>1, <4>3, Zenon
    <3> QED BY <3>2, <3>3
  <2>2. PICK m \in 0 .. l : m = (IF p < KeyCap - 1 THEN p ELSE KeyCap - 1) /\ m <= p /\ m <= KeyCap - 1
    BY <1>4
  <2>3. rawK = SubSeq(a, 1, m)
    BY <2>1, <2>2, Zenon DEF Shorter
  <2>4. SubSeq(SubSeq(section, 1, p), 1, m) = SubSeq(section, 1, m)
    BY <1>1, <2>1, <2>2 DEF Bytes
  <2> QED BY <2>1, <2>2, <2>3, <2>4
<1>6. PICK r \in 0 .. l : rawV = SubSeq(section, e + 1, r) /\ r <= e + ValueCap - 1
  <2>1. PICK p \in 0 .. l : p = l - e
    OBVIOUS
  <2>2. section \in Seq(Byte)
    BY DEF Bytes
  <2>3. SubSeq(section, e + 1, l) \in Seq(Byte) /\ Len(SubSeq(section, e + 1, l)) = p
    BY <1>1, <2>1, <2>2
  <2>4. PICK m \in 0 .. l : m = (IF p < ValueCap - 1 THEN p ELSE ValueCap - 1) /\ m <= p /\ m <= ValueCap - 1
    BY <1>4
  <2>5. rawV = SubSeq(SubSeq(section, e + 1, l), 1, m)
    BY <1>1, <1>2, <2>3, <2>4, Zenon DEF Shorter
  <2>6. SubSeq(SubSeq(section, e + 1, l), 1, m) = SubSeq(section, e + 1, e + m)
    BY <1>1, <2>1, <2>2, <2>4
  <2>7. e + m \in 0 .. l /\ e + m <= e + ValueCap - 1
    BY <1>4, <2>1, <2>4
  <2> QED BY <2>5, <2>6, <2>7
<1>7. rawK \in Bytes /\ Units(rawK, FALSE) \in Bytes
  <2>1. 1 \in 1 .. l + 1
    OBVIOUS
  <2> QED BY <1>1, <1>5, <2>1, GoodPart
<1>8. eq # 0 => rawV \in Bytes /\ Units(rawV, FALSE) \in Bytes
  <2> SUFFICES ASSUME e # 0 PROVE rawV \in Bytes /\ Units(rawV, FALSE) \in Bytes
    BY <1>2
  <2>1. e + 1 \in 1 .. l + 1 /\ (e + 1) - 1 = e /\ section[e] \in Separators
    BY <1>2 DEF Separators
  <2> QED BY <1>1, <1>6, <2>1, GoodPart
<1>9. Len(rawK) < KeyCap
  <2>1. section \in Seq(Byte) /\ q <= Len(section) /\ q \in Nat
    BY <1>1 DEF Bytes
  <2>2. Len(SubSeq(section, 1, q)) = q
    BY <2>1, CutIs
  <2> QED BY <1>4, <1>5, <2>2
<1>10. Len(rawV) < ValueCap
  <2>1. section \in Seq(Byte)
    BY DEF Bytes
  <2>2. Len(SubSeq(section, e + 1, r)) = IF e + 1 <= r THEN r - e ELSE 0
    BY <1>1, <2>1
  <2> QED BY <1>4, <1>6, <2>2, CodecAssumption
<1> HIDE DEF rawK, rawV
<1>11. \A x1, h1, x2, h2 : Decoded(k, x1, h1) = Decoded(k, x2, h2)
  BY <1>4, <1>7, <1>9, GoodDecoded
<1>12. eq # 0 => \A x1, h1, x2, h2 : Decoded(v, x1, h1) = Decoded(v, x2, h2)
  BY <1>4, <1>8, <1>10, GoodDecoded
<1> HIDE DEF k, v
<1>13. CASE eq = 0
  <2>1. Decoded(k, rawK, g1) = Decoded(k, rawK, g2)
    BY <1>11, Zenon
  <2> QED BY <1>3, <1>13, <2>1, Zenon
<1>14. CASE eq # 0
  <2>1. Decoded(k, b1.key, g1) = Decoded(k, b2.key, g2)
    BY <1>11, Zenon
  <2>2. Decoded(v, b1.val, g1) = Decoded(v, b2.val, g2)
    BY <1>12, <1>14, Zenon
  <2> QED BY <1>3, <1>14, <2>1, <2>2, Zenon
<1> QED BY <1>13, <1>14

\* What PairsOf makes of the sections.
Scanned(p, sections, garbage, plus) ==
  /\ p \in Seq(Pair) /\ Len(p) = Len(sections)
  /\ \A i \in 1 .. Len(sections) : \E before \in Pair :
       p[i] = PairOf(sections[i], before, garbage, plus)

\* It goes through one after the other.
LEMMA PairsOfScanned ==
  ASSUME NEW text \in Bytes, NEW sep, NEW plus, NEW garbage \in Bytes
  PROVE  Scanned(PairsOf(text, sep, plus, garbage), Sections(text, sep), garbage, plus)
BY PairsOfIs DEF Scanned

\* So is a whole text of such sections.
LEMMA GoodPairsOf ==
  ASSUME NEW text \in Bytes, Units(text, FALSE) \in Bytes, NEW g1 \in Bytes, NEW g2 \in Bytes
  PROVE  PairsOf(text, Semi, FALSE, g1) = PairsOf(text, Semi, FALSE, g2)
<1>1. PICK l \in Nat : l = Len(text)
  BY DEF Bytes
<1>2. PICK ss \in Seq(Bytes), n \in Nat : ss = Sections(text, Semi) /\ n = Len(ss)
  <2>1. PICK g \in [1 .. l + 2 -> Seq(Bytes)] : Sections(text, Semi) = g[1]
    BY <1>1, SectionsIs
  <2>2. 1 \in 1 .. l + 2
    OBVIOUS
  <2>3. PICK ss \in Seq(Bytes) : ss = Sections(text, Semi)
    BY <2>1, <2>2
  <2>4. Len(ss) \in Nat
    OBVIOUS
  <2> QED BY <2>3, <2>4
<1>3. ASSUME NEW i \in 1 .. n
      PROVE  ss[i] \in Bytes /\ Units(ss[i], FALSE) \in Bytes
  <2>1. PICK s : s = ss[i] /\ s \in ToSet(Sections(text, Semi))
    BY <1>2 DEF ToSet
  <2>2. PICK a \in 1 .. l + 1, b \in 0 .. l :
          s = SubSeq(text, a, b) /\ (a = 1 \/ text[a - 1] = Semi)
    <3>1. PartOf(s, text, Semi, l)
      BY <1>1, <2>1, SectionIsPart
    <3> QED BY <3>1, Zenon DEF PartOf
  <2>3. a = 1 \/ text[a - 1] \in Separators
    BY <2>2 DEF Separators
  <2>4. s \in Bytes /\ Units(s, FALSE) \in Bytes
    BY <1>1, <2>2, <2>3, GoodPart
  <2> QED BY <2>1, <2>4, Zenon
<1>4. PICK p \in Seq(Pair) : /\ p = PairsOf(text, Semi, FALSE, g1) /\ Len(p) = n
                             /\ \A i \in 1 .. n : \E b \in Pair : p[i] = PairOf(ss[i], b, g1, FALSE)
  <2>1. PICK p : p = PairsOf(text, Semi, FALSE, g1)
    OBVIOUS
  <2>2. Scanned(p, ss, g1, FALSE)
    BY <1>2, <2>1, PairsOfScanned
  <2> QED BY <1>2, <2>1, <2>2, Zenon DEF Scanned
<1>5. PICK q \in Seq(Pair) : /\ q = PairsOf(text, Semi, FALSE, g2) /\ Len(q) = n
                             /\ \A i \in 1 .. n : \E b \in Pair : q[i] = PairOf(ss[i], b, g2, FALSE)
  <2>1. PICK q : q = PairsOf(text, Semi, FALSE, g2)
    OBVIOUS
  <2>2. Scanned(q, ss, g2, FALSE)
    BY <1>2, <2>1, PairsOfScanned
  <2> QED BY <1>2, <2>1, <2>2, Zenon DEF Scanned
<1>6. ASSUME NEW i \in 1 .. n
      PROVE  p[i] = q[i]
  <2>1. PICK b \in Pair : p[i] = PairOf(ss[i], b, g1, FALSE)
    BY <1>4
  <2>2. PICK c \in Pair : q[i] = PairOf(ss[i], c, g2, FALSE)
    BY <1>5
  <2>3. PairOf(ss[i], b, g1, FALSE) = PairOf(ss[i], c, g2, FALSE)
    BY <1>3, GoodPairOf
  <2> QED BY <2>1, <2>2, <2>3
<1>7. p = q
  BY <1>2, <1>4, <1>5, <1>6, SeqEqual
<1> QED BY <1>4, <1>5, <1>7

\* A text has a bad escape, or is decoded as a whole.
LEMMA GoodUnits ==
  ASSUME NEW text \in Bytes, ~HasBadEscape(text)
  PROVE  Units(text, FALSE) \in Bytes
<1>1. PICK u : u = Units(text, FALSE)
  OBVIOUS
<1>2. u \in Seq(Unit)
  BY <1>1, UnitsRun DEF Runs
<1>3. Bad \notin ToSet(u)
  BY <1>1 DEF HasBadEscape
<1>4. \A i \in 1 .. Len(u) : u[i] \in Unit /\ u[i] # Bad
  BY <1>2, <1>3 DEF ToSet
<1>5. \A i \in 1 .. Len(u) : u[i] \in Byte
  BY <1>4 DEF Unit
<1>6. u \in Seq(Byte)
  BY <1>2, <1>5
<1> QED BY <1>1, <1>6 DEF Bytes

\* The cookies of such a line.
LEMMA GoodHeaderPairs ==
  ASSUME req.text \in Bytes, ~HasBadEscape(req.text), NEW g1 \in Bytes, NEW g2 \in Bytes
  PROVE  HeaderPairs(g1) = HeaderPairs(g2)
<1>1. PairsOf(req.text, Semi, FALSE, g1) = PairsOf(req.text, Semi, FALSE, g2)
  BY GoodUnits, GoodPairsOf
<1> QED BY <1>1, Zenon DEF HeaderPairs

\* Once the Cookie line is parsed, what is kept is of the request at hand, and
\* so is what cttp_cookie has returned.
CookieInv ==
  /\ ncookies \in Int
  /\ ncookies >= 0 => \E garbage \in Garbage : cookies = HeaderPairs(garbage)
  /\ last.call = "cookie" => ncookies >= 0 /\ last.result = Find(cookies, last.key)

\* Nothing is parsed yet.
LEMMA CookieInit == Init => CookieInv
BY DEF Init, CookieInv, NoCall

\* It is parsed at most once for each request.
LEMMA CookieStep == TextInv /\ CookieInv /\ [Next]_vars => CookieInv'
<1> SUFFICES ASSUME TextInv, CookieInv, [Next]_vars PROVE CookieInv'
  OBVIOUS
<1>1. ASSUME UNCHANGED <<req, ncookies, cookies>>, last'.call # "cookie"
      PROVE  CookieInv'
  BY <1>1 DEF CookieInv, HeaderPairs
<1>2. ASSUME NEW source, NEW text, NEW pairs, NEW encoded, NEW segment,
             Arrive(source, text, pairs, encoded, segment)
      PROVE  CookieInv'
  <2>1. ncookies' = -1 /\ last' = NoCall
    BY <1>2 DEF Arrive, CacheReset
  <2>2. last'.call = "none"
    BY <2>1 DEF NoCall
  <2> QED BY <2>1, <2>2 DEF CookieInv
<1>3. CASE Request
  BY <1>2, <1>3, Zenon DEF Request
<1>4. CASE Query
  <2>1. UNCHANGED <<req, ncookies, cookies>> /\ last'.call = "query"
    BY <1>4 DEF Query, Search, Returns
  <2> QED BY <1>1, <2>1
<1>5. CASE Form
  <2>1. UNCHANGED <<req, ncookies, cookies>> /\ last'.call = "form"
    BY <1>5 DEF Form, Search, Returns
  <2> QED BY <1>1, <2>1
<1>6. CASE FormOfNone
  <2>1. UNCHANGED <<req, ncookies, cookies>> /\ last'.call = "form"
    BY <1>6 DEF FormOfNone, Returns
  <2> QED BY <1>1, <2>1
<1>7. CASE Param
  <2>1. UNCHANGED <<req, ncookies, cookies>> /\ last'.call = "param"
    BY <1>7 DEF Param, Returns
  <2> QED BY <1>1, <2>1
<1>8. CASE Cookie
  <2>1. PICK garbage \in Garbage, key \in Keys :
          /\ cookies' = IF ncookies < 0 THEN HeaderPairs(garbage) ELSE cookies
          /\ last' = [call |-> "cookie", key |-> key, result |-> Find(cookies', key)]
          /\ req' = req /\ ncookies' = Len(cookies')
    BY <1>8 DEF Cookie, Returns
  <2>2. PICK g \in Garbage : cookies' = HeaderPairs(g)
    <3>1. CASE ncookies < 0
      BY <2>1, <3>1
    <3>2. CASE ~(ncookies < 0)
      <4>1. ncookies >= 0
        BY <3>2 DEF CookieInv
      <4> QED BY <2>1, <3>2, <4>1 DEF CookieInv
    <3> QED BY <3>1, <3>2
  <2>3. HeaderPairs(g)' = HeaderPairs(g)
    BY <2>1 DEF HeaderPairs
  <2>4. cookies' \in Seq(Pair)
    <3>1. g \in Bytes
      BY TextsAreBytes
    <3> QED BY <2>2, <3>1, HeaderPairsType DEF TextInv
  <2>5. ncookies' \in Nat
    BY <2>1, <2>4
  <2>6. \E x \in Garbage : cookies' = HeaderPairs(x)'
    BY <2>2, <2>3
  <2>7. last'.key = key /\ last'.result = Find(cookies', key)
    BY <2>1
  <2> QED BY <2>5, <2>6, <2>7 DEF CookieInv
<1>9. CASE UNCHANGED vars
  BY <1>9 DEF vars, CookieInv, HeaderPairs
<1> QED BY <1>3, <1>4, <1>5, <1>6, <1>7, <1>8, <1>9 DEF Next

(***************************************************************************)
(* cttp_cookie answers from the Cookie line of the request at hand, parsed *)
(* for its first call: neither an earlier request's cookies nor what its   *)
(* key and value buffers held have any part in it, unless the line has a   *)
(* bad escape.                                                             *)
(***************************************************************************)
THEOREM CookiesAreOwn == Spec => []CookiesOfThisRequest
<1>1. TextInv /\ CookieInv => CookiesOfThisRequest
  <2> SUFFICES ASSUME TextInv, CookieInv, last.call = "cookie", ~HasBadEscape(req.text)
               PROVE  last.result = Find(HeaderPairs(<<>>), last.key)
    BY DEF CookiesOfThisRequest
  <2>1. PICK garbage \in Garbage : cookies = HeaderPairs(garbage)
    BY DEF CookieInv
  <2>2. garbage \in Bytes /\ <<>> \in Bytes
    BY TextsAreBytes DEF Bytes
  <2>3. HeaderPairs(garbage) = HeaderPairs(<<>>)
    BY <2>2, GoodHeaderPairs DEF TextInv
  <2> QED BY <2>1, <2>3 DEF CookieInv
<1> QED BY <1>1, TextInit, TextStep, CookieInit, CookieStep, PTL DEF Spec

-----------------------------------------------------------------------------
(* The pairs of an encoded query or form are found.                        *)

\* The section from a to z, and what is behind it.
Begins(g, text, a, z) == g[a] = <<SubSeq(text, a, z)>> \o g[z + 1]

\* So is a stretch without separators read that ends at one.
LEMMA SectionBegins ==
  ASSUME NEW text \in Bytes, NEW sep, NEW l \in Nat, l = Len(text), NEW g,
         Divides(g, text, sep, l), NEW a \in 1 .. l, NEW z \in a .. l,
         \A j \in a .. z : text[j] # sep, z = l \/ text[z + 1] = sep
  PROVE  Begins(g, text, a, z)
<1>1. g[a] = SectionAt(text, sep, a, g[a + 1], g[EndOf(text, sep, a)])
  <2>1. a \in 1 .. l + 2
    OBVIOUS
  <2> QED BY <2>1, Zenon DEF Divides
<1>2. PICK e : e = EndOf(text, sep, a)
  OBVIOUS
<1>3. /\ e \in a .. l + 1 /\ (e = l + 1 \/ text[e] = sep)
      /\ \A j \in a .. e - 1 : text[j] # sep
  <2>1. a \in 1 .. Len(text) + 1
    OBVIOUS
  <2> QED BY <1>2, <2>1, EndOfIs
<1>4. e = z + 1
  <2>1. ~(e <= z)
    <3> SUFFICES ASSUME e <= z PROVE FALSE
      OBVIOUS
    <3>1. e \in a .. z /\ e # l + 1
      BY <1>3
    <3> QED BY <1>3, <3>1
  <2>2. ~(e > z + 1)
    <3> SUFFICES ASSUME e > z + 1 PROVE FALSE
      OBVIOUS
    <3>1. z + 1 \in a .. e - 1 /\ z # l
      BY <1>3
    <3> QED BY <1>3, <3>1
  <2> QED BY <1>3, <2>1, <2>2
<1>5. a \in a .. z /\ ~(a > Len(text)) /\ e - 1 = z
  BY <1>4
<1>6. text[a] # sep
  BY <1>5
<1>7. SectionAt(text, sep, a, g[a + 1], g[e]) = <<SubSeq(text, a, e - 1)>> \o g[e]
  BY <1>2, <1>5, <1>6, Zenon DEF SectionAt
<1> QED BY <1>1, <1>2, <1>4, <1>5, <1>7, Zenon DEF Begins

\* A pair as it is sent, in bytes: the encoded key, and behind it the value.
SentAs(s, k, v, p, q) ==
  /\ s \in Bytes /\ Len(s) = p + 1 + q
  /\ \A j \in 1 .. p : s[j] = k[j]
  /\ s[p + 1] = Equals
  /\ \A j \in 1 .. q : s[p + 1 + j] = v[j]

\* That is how they lie.
LEMMA SentIs ==
  ASSUME NEW pair, pair.key \in Bytes, pair.val \in Bytes,
         NEW p \in Nat, p = Len(Encode(pair.key)), NEW q \in Nat, q = Len(Encode(pair.val))
  PROVE  SentAs(Sent(pair), Encode(pair.key), Encode(pair.val), p, q)
<1>1. PICK k \in Bytes, v \in Bytes : k = Encode(pair.key) /\ v = Encode(pair.val)
  BY EncodedIsInner
<1>2. PICK f \in Seq(Byte) : f = <<Equals>> /\ Len(f) = 1 /\ f[1] = Equals
  <2>1. Equals \in Byte
    BY DEF Equals, Byte
  <2>2. <<Equals>> \in Seq(Byte) /\ Len(<<Equals>>) = 1 /\ <<Equals>>[1] = Equals
    BY <2>1
  <2> QED BY <2>2
<1>3. k \in Seq(Byte) /\ v \in Seq(Byte) /\ p = Len(k) /\ q = Len(v)
  BY <1>1 DEF Bytes
<1>4. /\ k \o f \in Seq(Byte) /\ Len(k \o f) = p + 1
      /\ \A j \in 1 .. p : (k \o f)[j] = k[j]
      /\ \A j \in 1 .. 1 : (k \o f)[p + j] = f[j]
  BY <1>2, <1>3, JoinIs
<1>5. PICK h \in Seq(Byte) : /\ h = k \o f /\ Len(h) = p + 1 /\ h[p + 1] = Equals
                             /\ \A j \in 1 .. p : h[j] = k[j]
  <2>1. 1 \in 1 .. 1
    OBVIOUS
  <2>2. (k \o f)[p + 1] = Equals
    BY <1>2, <1>4, <2>1
  <2> QED BY <1>4, <2>2
<1>6. PICK r \in Nat : r = p + 1
  OBVIOUS
<1>7. /\ h \o v \in Seq(Byte) /\ Len(h \o v) = r + q
      /\ \A j \in 1 .. r : (h \o v)[j] = h[j]
      /\ \A j \in 1 .. q : (h \o v)[r + j] = v[j]
  <2>1. h \in Seq(Byte) /\ v \in Seq(Byte) /\ r = Len(h) /\ q = Len(v)
    BY <1>3, <1>5, <1>6
  <2> QED BY <2>1, JoinIs
<1>8. PICK s \in Seq(Byte) : /\ s = h \o v /\ Len(s) = p + 1 + q
                             /\ \A j \in 1 .. p + 1 : s[j] = h[j]
                             /\ \A j \in 1 .. q : s[p + 1 + j] = v[j]
  BY <1>6, <1>7, Zenon
<1>9. Sent(pair) = s
  BY <1>1, <1>2, <1>5, <1>8, Zenon DEF Sent
<1>10. s[p + 1] = Equals /\ \A j \in 1 .. p : s[j] = k[j]
  <2>1. p + 1 \in 1 .. p + 1 /\ \A j \in 1 .. p : j \in 1 .. p + 1
    OBVIOUS
  <2> QED BY <1>5, <1>8, <2>1
<1>11. SentAs(s, k, v, p, q)
  BY <1>8, <1>10 DEF SentAs, Bytes
<1> QED BY <1>1, <1>9, <1>11

\* No part of it is a separator of pairs, nor is a key or value one of both.
LEMMA SentHasNoAmp ==
  ASSUME NEW pair, pair.key \in Bytes, pair.val \in Bytes,
         NEW m \in Nat, m = Len(Sent(pair)), NEW j \in 1 .. m
  PROVE  Sent(pair)[j] # Amp
<1>1. PICK k \in Seq(Inner), v \in Seq(Inner) : k = Encode(pair.key) /\ v = Encode(pair.val)
  BY EncodedIsInner
<1>2. PICK p \in Nat, q \in Nat : p = Len(k) /\ q = Len(v)
  OBVIOUS
<1>3. /\ m = p + 1 + q
      /\ \A i \in 1 .. p : Sent(pair)[i] = k[i]
      /\ Sent(pair)[p + 1] = Equals
      /\ \A i \in 1 .. q : Sent(pair)[p + 1 + i] = v[i]
  <2>1. SentAs(Sent(pair), k, v, p, q)
    BY <1>1, <1>2, SentIs
  <2> QED BY <2>1 DEF SentAs
<1>4. Amp \notin Inner /\ Amp # Equals
  BY DEF Inner, Amp, Equals
<1>5. CASE j <= p
  <2>1. j \in 1 .. p
    BY <1>5
  <2>2. Sent(pair)[j] = k[j] /\ k[j] \in Inner
    BY <1>2, <1>3, <2>1
  <2> QED BY <1>4, <2>2
<1>6. CASE j = p + 1
  BY <1>3, <1>4, <1>6
<1>7. CASE j > p + 1
  <2>1. PICK i \in 1 .. q : j = p + 1 + i
    <3>1. j - (p + 1) \in 1 .. q /\ j = p + 1 + (j - (p + 1))
      BY <1>3, <1>7
    <3> QED BY <3>1
  <2>2. Sent(pair)[j] = v[i] /\ v[i] \in Inner
    BY <1>2, <1>3, <2>1
  <2> QED BY <1>4, <2>2
<1> QED BY <1>5, <1>6, <1>7

\* A key or value that fits is read as it was.
LEMMA FittingDecoded ==
  ASSUME NEW s \in Seq(Char), NEW n \in Nat \ {0}, Len(Encode(s)) < n, NEW before, NEW garbage
  PROVE  Decoded(Decode(Encode(s), n, TRUE), before, garbage) = s
<1>1. s \in Bytes /\ s \in Seq(Byte)
  BY CharsAreBytes DEF Bytes
<1>2. PICK m \in Nat : m = Len(s)
  OBVIOUS
<1>3. PICK c \in Bytes : c = Encode(s)
  BY <1>1, EncodedIsInner
<1>4. Units(c, TRUE) = s /\ Len(c) >= m
  BY <1>1, <1>2, <1>3, EncodeDecodes
<1>5. m < n /\ m <= n - 1 /\ n - 1 \in Nat
  <2>1. PICK l \in Nat : l = Len(c)
    BY DEF Bytes
  <2>2. m <= l /\ l < n
    BY <1>3, <1>4, <2>1
  <2> QED BY <2>2
<1>6. Shorter(s, n - 1) = s
  BY <1>1, <1>2, <1>5, ShorterAll
<1>7. PICK d : d = Decode(c, n, TRUE)
  OBVIOUS
<1>8. d = [ok |-> Len(s) < n, written |-> Shorter(s, n - 1)]
  BY <1>1, <1>4, <1>7, DecodeGood
<1>9. d.ok /\ d.written = s
  BY <1>2, <1>5, <1>6, <1>8
<1>10. Decoded(d, before, garbage) = Upto0(s)
  BY <1>9 DEF Decoded
<1>11. Upto0(s) = s
  BY NoNul
<1> QED BY <1>3, <1>7, <1>10, <1>11

\* So is a pair.
LEMMA SentIsRead ==
  ASSUME NEW pair, pair.key \in Seq(Char), pair.val \in Seq(Char), Fits(pair), NEW before, NEW garbage
  PROVE  PairOf(Sent(pair), before, garbage, TRUE) = [key |-> pair.key, val |-> pair.val]
<1>1. pair.key \in Bytes /\ pair.val \in Bytes
  BY CharsAreBytes
<1>2. PICK k \in Seq(Inner), v \in Seq(Inner) : k = Encode(pair.key) /\ v = Encode(pair.val)
  BY <1>1, EncodedIsInner
<1>3. k \in Seq(Byte) /\ v \in Seq(Byte)
  BY <1>1, <1>2, EncodedIsInner DEF Bytes
<1>4. PICK p \in Nat, q \in Nat : p = Len(k) /\ q = Len(v)
  OBVIOUS
<1>5. PICK s : s = Sent(pair)
  OBVIOUS
<1>6. SentAs(s, k, v, p, q)
  BY <1>1, <1>2, <1>4, <1>5, SentIs
<1>7. /\ s \in Seq(Byte) /\ Len(s) = p + 1 + q
      /\ \A j \in 1 .. p : s[j] = k[j]
      /\ s[p + 1] = Equals
      /\ \A j \in 1 .. q : s[p + 1 + j] = v[j]
  BY <1>6 DEF SentAs, Bytes
<1>8. PICK e : e = EqualsAt(s)
  OBVIOUS
<1>9. e = p + 1
  <2>1. /\ e \in 0 .. Len(s) /\ (e # 0 => s[e] = Equals)
        /\ \A i \in 1 .. Len(s) : s[i] = Equals => e # 0 /\ e <= i
    BY <1>7, <1>8, EqualsAtIs
  <2>2. p + 1 \in 1 .. Len(s)
    BY <1>7
  <2>3. e # 0 /\ e <= p + 1
    BY <1>7, <2>1, <2>2
  <2>4. ~(e <= p)
    <3> SUFFICES ASSUME e <= p PROVE FALSE
      OBVIOUS
    <3>1. e \in 1 .. p
      BY <2>1, <2>3
    <3>2. k[e] \in Inner /\ s[e] = k[e]
      BY <1>4, <1>7, <3>1
    <3>3. Equals \notin Inner
      BY DEF Inner
    <3> QED BY <2>1, <2>3, <3>2, <3>3
  <2> QED BY <2>1, <2>3, <2>4
<1>10. SubSeq(s, 1, p) = k
  <2>1. p <= Len(s)
    BY <1>7
  <2>2. /\ SubSeq(s, 1, p) \in Seq(Byte) /\ Len(SubSeq(s, 1, p)) = p
        /\ \A i \in 1 .. p : SubSeq(s, 1, p)[i] = s[i]
    BY <1>7, <2>1, CutIs
  <2> QED BY <1>3, <1>4, <1>7, <2>2, SeqEqual
<1>11. SubSeq(s, p + 2, p + 1 + q) = v
  <2>1. PICK w : w = SubSeq(s, p + 2, p + 1 + q)
    OBVIOUS
  <2>2. w \in Seq(Byte) /\ Len(w) = q /\ \A i \in 1 .. q : w[i] = s[p + 1 + i]
    <3>1. PICK a \in Nat, b \in Nat : a = p + 2 /\ b = p + 1 + q /\ b <= Len(s) /\ b + 1 - a = q
      BY <1>7
    <3>2. w = SubSeq(s, a, b)
      BY <2>1, <3>1
    <3>3. w \in Seq(Byte) /\ Len(w) = q /\ \A i \in 1 .. q : w[i] = s[(a - 1) + i]
      <4>1. CASE q = 0
        <5>1. b < a
          BY <3>1, <4>1
        <5>2. w = <<>>
          BY <3>2, <5>1, SubSeqEmpty
        <5> QED BY <4>1, <5>2
      <4>2. CASE q # 0
        <5>1. a \in 1 .. Len(s) /\ b \in a .. Len(s)
          BY <1>7, <3>1, <4>2
        <5> QED BY <1>7, <3>1, <3>2, <5>1
      <4> QED BY <4>1, <4>2
    <3>4. a - 1 = p + 1
      BY <3>1
    <3> QED BY <3>3, <3>4
  <2>3. \A i \in 1 .. q : w[i] = v[i]
    BY <1>7, <2>2, Zenon
  <2>4. w = v
    BY <1>3, <1>4, <2>2, <2>3, SeqEqual
  <2> QED BY <2>1, <2>4
<1>12. Len(k) <= KeyCap - 1 /\ Len(v) <= ValueCap - 1 /\ Len(k) < KeyCap /\ Len(v) < ValueCap
       /\ KeyCap - 1 \in Nat /\ ValueCap - 1 \in Nat /\ KeyCap \in Nat \ {0} /\ ValueCap \in Nat \ {0}
  <2>1. Len(k) < KeyCap /\ Len(v) < ValueCap
    BY <1>2 DEF Fits
  <2> QED BY <1>4, <2>1, CodecAssumption
<1>13. Shorter(k, KeyCap - 1) = k /\ Shorter(v, ValueCap - 1) = v
  BY <1>3, <1>12, ShorterAll
<1>14. Decoded(Decode(k, KeyCap, TRUE), before.key, garbage) = pair.key
  BY <1>2, <1>12, FittingDecoded
<1>15. Decoded(Decode(v, ValueCap, TRUE), before.val, garbage) = pair.val
  BY <1>2, <1>12, FittingDecoded
<1>16. p + 1 # 0 /\ (p + 1) - 1 = p /\ (p + 1) + 1 = p + 2
  OBVIOUS
<1>17. PairOf(s, before, garbage, TRUE) =
         [key |-> Decoded(Decode(Shorter(SubSeq(s, 1, p), KeyCap - 1), KeyCap, TRUE), before.key, garbage),
          val |-> Decoded(Decode(Shorter(SubSeq(s, p + 2, p + 1 + q), ValueCap - 1), ValueCap, TRUE),
                          before.val, garbage)]
  <2>1. \A eq : eq = EqualsAt(s) /\ eq # 0 =>
          PairOf(s, before, garbage, TRUE) =
            [key |-> Decoded(Decode(Shorter(SubSeq(s, 1, eq - 1), KeyCap - 1), KeyCap, TRUE),
                             before.key, garbage),
             val |-> Decoded(Decode(Shorter(SubSeq(s, eq + 1, Len(s)), ValueCap - 1), ValueCap, TRUE),
                             before.val, garbage)]
    BY Zenon DEF PairOf, EqualsAt
  <2> QED BY <1>7, <1>8, <1>9, <1>16, <2>1, Zenon
<1> QED BY <1>5, <1>10, <1>11, <1>13, <1>14, <1>15, <1>17, Zenon

\* A pair as it is sent, behind a separator if it is not the first.
PieceAs(w, s, m, i) ==
  IF i = 1 THEN w = s
  ELSE Len(w) = m + 1 /\ w[1] = Amp /\ \A j \in 1 .. m : w[1 + j] = s[j]

\* So the pieces of a query or form are made.
LEMMA PieceIs ==
  ASSUME NEW source \in Rotating, NEW pairs, NEW i \in Nat \ {0},
         pairs[i].key \in Bytes, pairs[i].val \in Bytes,
         NEW m \in Nat, m = Len(Sent(pairs[i]))
  PROVE  PieceAs(Piece(source, pairs, i), Sent(pairs[i]), m, i)
<1>1. PICK s \in Seq(Byte) : s = Sent(pairs[i])
  BY SentType DEF Bytes
<1>2. CASE i = 1
  <2>1. <<>> \o s = s
    OBVIOUS
  <2> QED BY <1>1, <1>2, <2>1 DEF Piece, PieceAs
<1>3. CASE i # 1
  <2>1. PICK a \in Seq(Byte) : a = <<Amp>> /\ Len(a) = 1 /\ a[1] = Amp
    <3>1. Amp \in Byte
      BY DEF Amp, Byte
    <3>2. <<Amp>> \in Seq(Byte) /\ Len(<<Amp>>) = 1 /\ <<Amp>>[1] = Amp
      BY <3>1
    <3> QED BY <3>2
  <2>2. source # "cookie"
    BY DEF Rotating
  <2>3. Piece(source, pairs, i) = a \o s
    BY <1>1, <1>3, <2>1, <2>2, Zenon DEF Piece, Between
  <2>4. /\ Len(a \o s) = 1 + m
        /\ \A j \in 1 .. 1 : (a \o s)[j] = a[j]
        /\ \A j \in 1 .. m : (a \o s)[1 + j] = s[j]
    BY <1>1, <2>1, JoinIs
  <2>5. (a \o s)[1] = Amp /\ 1 + m = m + 1
    <3>1. 1 \in 1 .. 1
      OBVIOUS
    <3> QED BY <2>1, <2>4, <3>1
  <2> QED BY <1>1, <1>3, <2>3, <2>4, <2>5 DEF PieceAs
<1> QED BY <1>2, <1>3

\* The sections of an encoded query or form are its pairs as they were sent.
LEMMA SentSections ==
  ASSUME NEW source \in Rotating, NEW pairs, NEW n \in Nat, n = Len(pairs), DOMAIN pairs = 1 .. n,
         \A i \in 1 .. n : pairs[i].key \in Bytes /\ pairs[i].val \in Bytes
  PROVE  Sections(Text(source, pairs), Amp) = [i \in 1 .. n |-> Sent(pairs[i])]
<1>1. PICK t \in Bytes : t = Text(source, pairs)
  BY TextLaid
<1>2. PICK l \in Nat : l = Len(t)
  BY DEF Bytes
<1> DEFINE piece == [i \in 1 .. n |-> Piece(source, pairs, i)]
<1>3. PICK o \in [0 .. n -> Nat] : Laid(t, piece, n, o)
  BY <1>1, TextLaid
<1>4. \A i \in 1 .. n : piece[i] = Piece(source, pairs, i)
  OBVIOUS
<1> HIDE DEF piece
<1>5. /\ o[0] = 0 /\ o[n] = l
      /\ \A k \in 1 .. n :
           /\ o[k - 1] \in Nat /\ o[k] = o[k - 1] + Len(piece[k]) /\ o[k] <= l
           /\ \A j \in 1 .. Len(piece[k]) : t[o[k - 1] + j] = piece[k][j]
  BY <1>2, <1>3 DEF Laid
<1>6. PICK g \in [1 .. l + 2 -> Seq(Bytes)] : Divides(g, t, Amp, l) /\ Sections(t, Amp) = g[1]
  BY <1>2, SectionsIs
<1> DEFINE sent == [i \in 1 .. n |-> Sent(pairs[i])]
<1>7. sent \in Seq(Bytes) /\ Len(sent) = n /\ \A i \in 1 .. n : sent[i] = Sent(pairs[i])
  <2>1. \A i \in 1 .. n : Sent(pairs[i]) \in Bytes
    BY SentType
  <2> QED BY <2>1
<1> HIDE DEF sent
<1>8. ASSUME NEW k \in 1 .. n
      PROVE  g[o[k - 1] + 1] = <<sent[k]>> \o g[o[k] + 1]
  <2>1. PICK s \in Seq(Byte), m \in Nat : s = Sent(pairs[k]) /\ m = Len(s) /\ m >= 1
    <3>1. PICK p \in Nat, q \in Nat : p = Len(Encode(pairs[k].key)) /\ q = Len(Encode(pairs[k].val))
      <4>1. PICK a \in Bytes, b \in Bytes : a = Encode(pairs[k].key) /\ b = Encode(pairs[k].val)
        BY EncodedIsInner
      <4>2. Len(a) \in Nat /\ Len(b) \in Nat
        BY DEF Bytes
      <4> QED BY <4>1, <4>2
    <3>2. SentAs(Sent(pairs[k]), Encode(pairs[k].key), Encode(pairs[k].val), p, q)
      BY <3>1, SentIs
    <3>3. Sent(pairs[k]) \in Seq(Byte) /\ Len(Sent(pairs[k])) = p + 1 + q
      BY <3>2 DEF SentAs, Bytes
    <3> QED BY <3>3
  <2>2. PICK x \in Nat, y \in Nat : x = o[k - 1] /\ y = o[k] /\ y <= l
    <3>1. k - 1 \in 0 .. n /\ k \in 0 .. n
      OBVIOUS
    <3> QED BY <1>5, <3>1
  \* The position in front of the pair.
  <2>3. PICK z \in Nat : z = IF k = 1 THEN 0 ELSE x + 1
    OBVIOUS
  <2>4. /\ y = z + m /\ (k = 1 => x = 0) /\ (k # 1 => t[z] = Amp)
        /\ \A j \in 1 .. m : t[z + j] = s[j]
    <3>1. PICK w : w = piece[k] /\ w = Piece(source, pairs, k)
      BY <1>4
    <3>2. /\ y = x + Len(w)
          /\ \A j \in 1 .. Len(w) : t[x + j] = w[j]
      BY <1>5, <2>2, <3>1
    <3>3. IF k = 1 THEN w = s
          ELSE Len(w) = m + 1 /\ w[1] = Amp /\ \A j \in 1 .. m : w[1 + j] = s[j]
      <4>1. k \in Nat \ {0}
        OBVIOUS
      <4>2. m = Len(Sent(pairs[k])) /\ s = Sent(pairs[k])
        BY <2>1
      <4>3. PieceAs(w, s, m, k)
        <5>1. pairs[k].key \in Bytes /\ pairs[k].val \in Bytes
          OBVIOUS
        <5>2. PieceAs(Piece(source, pairs, k), Sent(pairs[k]), m, k)
          BY <4>1, <4>2, <5>1, PieceIs, Zenon
        <5> QED BY <3>1, <4>2, <5>2, Zenon
      <4> QED BY <4>3, Zenon DEF PieceAs
    <3>4. CASE k = 1
      <4>1. x = 0
        <5>1. k - 1 = 0
          BY <3>4
        <5> QED BY <1>5, <2>2, <5>1
      <4> QED BY <2>1, <2>3, <3>2, <3>3, <3>4, <4>1
    <3>5. CASE k # 1
      <4>1. Len(w) = m + 1 /\ w[1] = Amp /\ \A j \in 1 .. m : w[1 + j] = s[j]
        BY <3>3, <3>5
      <4>2. 1 \in 1 .. Len(w) /\ \A j \in 1 .. m : 1 + j \in 1 .. Len(w)
        BY <4>1
      <4>3. t[x + 1] = Amp
        BY <3>2, <4>1, <4>2
      <4>4. ASSUME NEW j \in 1 .. m
            PROVE  t[z + j] = s[j]
        <5>1. x + (1 + j) = z + j
          BY <2>3, <3>5
        <5>2. t[x + (1 + j)] = w[1 + j]
          BY <3>2, <4>2, Zenon
        <5> QED BY <4>1, <5>1, <5>2
      <4> QED BY <2>3, <3>2, <3>5, <4>1, <4>3, <4>4
    <3> QED BY <3>4, <3>5
  <2>5. \A j \in 1 .. m : s[j] # Amp
    <3>1. m = Len(Sent(pairs[k])) /\ s = Sent(pairs[k])
      BY <2>1
    <3> QED BY <3>1, SentHasNoAmp
  <2>6. z + 1 \in 1 .. l /\ y \in z + 1 .. l
    BY <2>1, <2>2, <2>4
  <2>7. \A j \in z + 1 .. y : t[j] # Amp
    <3> SUFFICES ASSUME NEW j \in z + 1 .. y PROVE t[j] # Amp
      OBVIOUS
    <3>1. PICK i \in 1 .. m : j = z + i
      <4>1. j - z \in 1 .. m /\ j = z + (j - z)
        BY <2>4
      <4> QED BY <4>1
    <3> QED BY <2>4, <2>5, <3>1
  <2>8. y = l \/ t[y + 1] = Amp
    <3>1. CASE k = n
      BY <1>5, <2>2, <3>1
    <3>2. CASE k # n
      <4>1. k + 1 \in 1 .. n /\ (k + 1) - 1 = k /\ k + 1 # 1 /\ k + 1 \in Nat \ {0}
        BY <3>2
      <4>2. PICK w : w = piece[k + 1] /\ w = Piece(source, pairs, k + 1)
        BY <1>4, <4>1
      <4>3. PICK r \in Nat : r = Len(Sent(pairs[k + 1]))
        <5>1. Sent(pairs[k + 1]) \in Seq(Byte)
          BY <4>1, SentType DEF Bytes
        <5> QED BY <5>1
      <4>4. Len(w) = r + 1 /\ w[1] = Amp
        <5>1. PieceAs(w, Sent(pairs[k + 1]), r, k + 1)
          <6>1. pairs[k + 1].key \in Bytes /\ pairs[k + 1].val \in Bytes
            BY <4>1
          <6>2. PieceAs(Piece(source, pairs, k + 1), Sent(pairs[k + 1]), r, k + 1)
            BY <4>1, <4>3, <6>1, PieceIs, Zenon
          <6> QED BY <4>2, <6>2, Zenon
        <5> QED BY <4>1, <5>1, Zenon DEF PieceAs
      <4>5. 1 \in 1 .. Len(w)
        BY <4>4
      <4>6. \A j \in 1 .. Len(w) : t[o[(k + 1) - 1] + j] = w[j]
        BY <1>5, <4>1, <4>2, Zenon
      <4> QED BY <2>2, <4>1, <4>4, <4>5, <4>6
    <3> QED BY <3>1, <3>2
  <2>9. g[z + 1] = <<SubSeq(t, z + 1, y)>> \o g[y + 1]
    <3>1. PICK a \in 1 .. l : a = z + 1 /\ y \in a .. l /\ \A j \in a .. y : t[j] # Amp
      BY <2>6, <2>7
    <3>2. Begins(g, t, a, y)
      BY <1>2, <1>6, <2>8, <3>1, SectionBegins
    <3> QED BY <3>1, <3>2, Zenon DEF Begins
  <2>10. SubSeq(t, z + 1, y) = s
    <3>1. PICK w : w = SubSeq(t, z + 1, y)
      OBVIOUS
    <3>2. w \in Seq(Byte) /\ Len(w) = m /\ \A i \in 1 .. m : w[i] = t[z + i]
      BY <1>2, <2>4, <2>6, <3>1 DEF Bytes
    <3>3. \A i \in 1 .. m : w[i] = s[i]
      BY <2>4, <3>2
    <3> QED BY <2>1, <3>1, <3>2, <3>3, SeqEqual
  <2>11. g[x + 1] = g[z + 1]
    <3>1. CASE k = 1
      BY <2>3, <2>4, <3>1
    <3>2. CASE k # 1
      <4>1. z = x + 1 /\ t[z] = Amp
        BY <2>3, <2>4, <3>2
      <4>2. z \in 1 .. l + 2 /\ ~(z > Len(t))
        BY <1>2, <2>6, <4>1
      <4>3. g[z] = SectionAt(t, Amp, z, g[z + 1], g[EndOf(t, Amp, z)])
        BY <1>6, <4>2, Zenon DEF Divides
      <4> QED BY <4>1, <4>2, <4>3, Zenon DEF SectionAt
    <3> QED BY <3>1, <3>2
  <2> QED BY <1>7, <2>1, <2>2, <2>9, <2>10, <2>11
<1>9. g[o[n] + 1] = <<>>
  <2>1. o[n] + 1 \in 1 .. l + 2 /\ o[n] + 1 > Len(t)
    BY <1>2, <1>5
  <2>2. g[o[n] + 1] = SectionAt(t, Amp, o[n] + 1, g[(o[n] + 1) + 1], g[EndOf(t, Amp, o[n] + 1)])
    BY <1>6, <2>1, Zenon DEF Divides
  <2> QED BY <2>1, <2>2, Zenon DEF SectionAt
<1> DEFINE at == [k \in 0 .. n |-> o[k] + 1]
<1>10. at[0] = 1 /\ \A k \in 0 .. n : at[k] = o[k] + 1
  <2>1. 0 \in 0 .. n /\ o[0] + 1 = 1
    BY <1>5
  <2> QED BY <2>1
<1> HIDE DEF at
<1>11. Yields(g, at, sent, n)
  <2>1. g[at[n]] = <<>>
    <3>1. n \in 0 .. n
      OBVIOUS
    <3> QED BY <1>9, <1>10, <3>1
  <2>2. ASSUME NEW k \in 1 .. n
        PROVE  g[at[k - 1]] = <<sent[k]>> \o g[at[k]]
    <3>1. k - 1 \in 0 .. n /\ k \in 0 .. n
      OBVIOUS
    <3>2. at[k - 1] = o[k - 1] + 1 /\ at[k] = o[k] + 1
      BY <1>10, <3>1
    <3> QED BY <1>8, <3>2
  <2> QED BY <2>1, <2>2, Zenon DEF Yields
<1>12. g[at[0]] = sent
  BY <1>7, <1>11, ReadOff
<1> QED BY <1>1, <1>6, <1>10, <1>12 DEF sent

\* An encoded query or form is read as the pairs that were encoded.
LEMMA SentPairsRead ==
  ASSUME NEW source \in Rotating, NEW pairs \in PairLists, \A i \in DOMAIN pairs : Fits(pairs[i]),
         NEW garbage \in Bytes
  PROVE  PairsOf(Text(source, pairs), Amp, TRUE, garbage) = pairs
<1>1. PICK n \in Nat : n = Len(pairs) /\ DOMAIN pairs = 1 .. n
  BY TextsAssumption
<1>2. \A i \in 1 .. n : /\ pairs[i].key \in Seq(Char) /\ pairs[i].val \in Seq(Char)
                        /\ pairs[i].key \in Bytes /\ pairs[i].val \in Bytes /\ Fits(pairs[i])
  BY <1>1, TextsAreBytes, CharsAreBytes
<1>3. PICK t \in Bytes : t = Text(source, pairs)
  BY <1>1, <1>2, TextLaid
<1>4. PICK ss : ss = Sections(t, Amp)
  OBVIOUS
<1>5. ss = [i \in 1 .. n |-> Sent(pairs[i])]
  BY <1>1, <1>2, <1>3, <1>4, SentSections, Zenon
<1>6. Len(ss) = n /\ \A i \in 1 .. n : ss[i] = Sent(pairs[i])
  <2>1. \A i \in 1 .. n : Sent(pairs[i]) \in Bytes
    BY <1>2, SentType
  <2>2. [i \in 1 .. n |-> Sent(pairs[i])] \in Seq(Bytes)
    BY <2>1
  <2> QED BY <1>5, <2>2
<1>7. PICK p : p = PairsOf(t, Amp, TRUE, garbage)
  OBVIOUS
<1>8. Scanned(p, ss, garbage, TRUE)
  BY <1>3, <1>4, <1>7, PairsOfScanned
<1>9. /\ p \in Seq(Pair) /\ Len(p) = n
      /\ \A i \in 1 .. n : \E before \in Pair : p[i] = PairOf(ss[i], before, garbage, TRUE)
  BY <1>6, <1>8, Zenon DEF Scanned
<1>10. ASSUME NEW i \in 1 .. n
       PROVE  p[i] = pairs[i]
  <2>1. PICK before \in Pair : p[i] = PairOf(Sent(pairs[i]), before, garbage, TRUE)
    BY <1>6, <1>9
  <2>2. PairOf(Sent(pairs[i]), before, garbage, TRUE) = [key |-> pairs[i].key, val |-> pairs[i].val]
    BY <1>2, SentIsRead
  <2>3. PICK S : S = [key : Seq(Char), val : Seq(Char)]
    OBVIOUS
  <2>4. pairs \in Seq(S) /\ i \in 1 .. Len(pairs)
    BY <1>1, <2>3, TextsAssumption
  <2>5. pairs[i] \in S
    BY <2>4, ElementOfSeq
  <2>6. pairs[i] = [key |-> pairs[i].key, val |-> pairs[i].val]
    BY <2>3, <2>5
  <2> QED BY <2>1, <2>2, <2>6
<1>11. p = pairs
  <2>1. PICK S : p \in Seq(S) /\ pairs \in Seq(S)
    <3>1. \A i \in 1 .. n : p[i] \in Pair
      BY <1>9
    <3>2. \A i \in 1 .. n : pairs[i] \in Pair
      BY <1>10, <3>1
    <3>3. PICK S : S = [key : Seq(Char), val : Seq(Char)]
      OBVIOUS
    <3>4. pairs \in Seq(S)
      BY <3>3, TextsAssumption
    <3>5. pairs \in Seq(Pair)
      BY <1>1, <3>2, <3>4
    <3> QED BY <1>9, <3>5
  <2> QED BY <1>1, <1>9, <1>10, <2>1, SeqEqual
<1> QED BY <1>3, <1>7, <1>11

\* Nothing is found in an empty text.
LEMMA NothingFound ==
  ASSUME NEW sep, NEW plus, NEW garbage \in Bytes, NEW key
  PROVE  Find(PairsOf(<<>>, sep, plus, garbage), key) = NULL
<1>1. PICK t \in Bytes : t = <<>>
  <2>1. <<>> \in Bytes
    BY DEF Bytes
  <2> QED BY <2>1
<1>2. PICK g \in [1 .. 0 + 2 -> Seq(Bytes)] : Divides(g, t, sep, 0) /\ Sections(t, sep) = g[1]
  BY <1>1, SectionsIs
<1>3. g[1] = <<>>
  <2>1. 1 \in 1 .. 0 + 2 /\ 1 > Len(t)
    BY <1>1
  <2>2. g[1] = SectionAt(t, sep, 1, g[1 + 1], g[EndOf(t, sep, 1)])
    BY <1>2, <2>1, Zenon DEF Divides
  <2> QED BY <2>1, <2>2, Zenon DEF SectionAt
<1>4. PICK p \in Seq(Pair) : p = PairsOf(t, sep, plus, garbage) /\ Len(p) = 0
  <2>1. PICK p : p = PairsOf(t, sep, plus, garbage)
    OBVIOUS
  <2>2. Scanned(p, <<>>, garbage, plus)
    BY <1>2, <1>3, <2>1, PairsOfScanned
  <2> QED BY <2>1, <2>2 DEF Scanned
<1>5. {i \in 1 .. Len(p) : p[i].key = key} = {}
  BY <1>4
<1>6. Find(p, key) = NULL
  BY <1>5, Zenon DEF Find, SelectInSeq
<1> QED BY <1>1, <1>4, <1>6

\* The text of the request at hand is what the client encoded, if it did, and
\* what a call for a query or form parameter returned is found in that.
PairsInv ==
  /\ req.encoded => req.pairs \in PairLists /\ req.text = Text(req.source, req.pairs)
  /\ PairsFound

\* There is no request yet.
LEMMA PairsInit == Init => PairsInv
BY DEF Init, PairsInv, PairsFound, NoRequest, NoCall, Rotating

\* A request brings a text of its own.
LEMMA PairsArrive ==
  ASSUME NEW source, NEW text, NEW pairs, NEW encoded, NEW segment,
         encoded => pairs \in PairLists /\ text = Text(source, pairs),
         Arrive(source, text, pairs, encoded, segment)
  PROVE  PairsInv'
<1>1. PICK param : req' = [source |-> source, text |-> text, pairs |-> pairs, encoded |-> encoded,
                           segment |-> segment, param |-> param]
  BY DEF Arrive
<1>2. req'.source = source /\ req'.text = text /\ req'.pairs = pairs /\ req'.encoded = encoded
  BY <1>1
<1>3. last' = NoCall
  BY DEF Arrive
<1>4. last'.call \notin Rotating
  BY <1>3 DEF NoCall, Rotating
<1>5. PairsFound'
  BY <1>4 DEF PairsFound
<1> QED BY <1>2, <1>5 DEF PairsInv

\* A search of the request's text finds what was encoded, one of no text finds
\* nothing.
LEMMA PairsSearched ==
  ASSUME PairsInv, NEW f \in Rotating, NEW text,
         text = (IF req.source = f THEN req.text ELSE <<>>), Search(f, text)
  PROVE  PairsInv'
<1>1. PICK garbage \in Garbage, key \in Keys :
        /\ last' = [call |-> f, key |-> key, result |-> Find(PairsOf(text, Amp, TRUE, garbage), key)]
        /\ req' = req
  BY DEF Search, Returns
<1>2. garbage \in Bytes
  BY TextsAreBytes
<1>3. last'.call = f /\ last'.key = key
      /\ last'.result = Find(PairsOf(text, Amp, TRUE, garbage), key)
  BY <1>1
<1>4. ASSUME req.encoded, \A i \in DOMAIN req.pairs : Fits(req.pairs[i])
      PROVE  last'.result = IF req.source = f THEN Find(req.pairs, key) ELSE NULL
  <2>1. CASE req.source = f
    <3>1. req.pairs \in PairLists /\ text = Text(f, req.pairs)
      BY <1>4, <2>1 DEF PairsInv
    <3>2. PairsOf(Text(f, req.pairs), Amp, TRUE, garbage) = req.pairs
      BY <1>2, <1>4, <3>1, SentPairsRead
    <3> QED BY <1>3, <2>1, <3>1, <3>2
  <2>2. CASE req.source # f
    <3>1. Find(PairsOf(<<>>, Amp, TRUE, garbage), key) = NULL
      BY <1>2, NothingFound
    <3> QED BY <1>3, <2>2, <3>1
  <2> QED BY <2>1, <2>2
<1>5. PairsFound'
  BY <1>1, <1>3, <1>4 DEF PairsFound, ValueSent
<1> QED BY <1>1, <1>5 DEF PairsInv

\* So the invariant is kept.
LEMMA PairsStep == PairsInv /\ [Next]_vars => PairsInv'
<1> SUFFICES ASSUME PairsInv, [Next]_vars PROVE PairsInv'
  OBVIOUS
<1>1. ASSUME req' = req, last'.call \notin Rotating
      PROVE  PairsInv'
  BY <1>1 DEF PairsInv, PairsFound
<1>2. CASE Request
  <2>1. CASE \E source \in Sources \ {"json"}, pairs \in PairLists :
               Arrive(source, Text(source, pairs), pairs, TRUE, <<>>)
    BY <2>1, PairsArrive
  <2>2. CASE \E source \in Sources, text \in RawTexts : Arrive(source, text, <<>>, FALSE, <<>>)
    BY <2>2, PairsArrive
  <2>3. CASE \E segment \in Segments : Arrive("json", <<>>, <<>>, FALSE, segment)
    BY <2>3, PairsArrive
  <2> QED BY <1>2, <2>1, <2>2, <2>3 DEF Request
<1>3. CASE Query
  <2>1. PICK text : /\ text = (IF req.source = "query" THEN req.text ELSE <<>>)
                    /\ Search("query", text)
    BY <1>3 DEF Query
  <2>2. "query" \in Rotating
    BY DEF Rotating
  <2> QED BY <2>1, <2>2, PairsSearched
<1>4. CASE Form
  <2>1. Search("form", req.text) /\ req.source = "form"
    BY <1>4 DEF Form
  <2>2. "form" \in Rotating
    BY DEF Rotating
  <2> QED BY <2>1, <2>2, PairsSearched
<1>5. CASE FormOfNone
  <2>1. /\ req.source # "form" \/ req.text = <<>>
        /\ req' = req /\ last'.call = "form" /\ last'.result = NULL
    BY <1>5 DEF FormOfNone, Returns
  <2>2. ASSUME req.source = "form", req.encoded, \A i \in DOMAIN req.pairs : Fits(req.pairs[i])
        PROVE  Find(req.pairs, last'.key) = NULL
    <3>1. req.pairs \in PairLists /\ Text("form", req.pairs) = <<>>
      BY <2>1, <2>2 DEF PairsInv
    <3>2. <<>> \in Bytes /\ "form" \in Rotating
      BY DEF Bytes, Rotating
    <3>3. PairsOf(Text("form", req.pairs), Amp, TRUE, <<>>) = req.pairs
      BY <2>2, <3>1, <3>2, SentPairsRead
    <3>4. Find(PairsOf(<<>>, Amp, TRUE, <<>>), last'.key) = NULL
      BY <3>2, NothingFound
    <3> QED BY <3>1, <3>3, <3>4
  <2> QED BY <2>1, <2>2 DEF PairsInv, PairsFound, ValueSent
<1>6. CASE Cookie
  <2>1. req' = req /\ last'.call = "cookie"
    BY <1>6 DEF Cookie, Returns
  <2> QED BY <1>1, <2>1 DEF Rotating
<1>7. CASE Param
  <2>1. req' = req /\ last'.call = "param"
    BY <1>7 DEF Param, Returns
  <2> QED BY <1>1, <2>1 DEF Rotating
<1>8. CASE UNCHANGED vars
  BY <1>8 DEF vars, PairsInv, PairsFound, ValueSent
<1> QED BY <1>2, <1>3, <1>4, <1>5, <1>6, <1>7, <1>8 DEF Next

(***************************************************************************)
(* cttp_query and cttp_form return what the client sent: through its own   *)
(* encoding, the separators, the scanner's buffers and the decoder, every  *)
(* key leads to its first value, and to NULL if it was not sent.           *)
(***************************************************************************)
THEOREM SentIsFound == Spec => []PairsFound
<1>1. PairsInv => PairsFound
  BY DEF PairsInv
<1> QED BY <1>1, PairsInit, PairsStep, PTL DEF Spec

=============================================================================
