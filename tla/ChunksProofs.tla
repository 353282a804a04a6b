---------------------------- MODULE ChunksProofs ----------------------------
(***************************************************************************)
(* The chunked decoder, for any messages, bounds and cuts.                 *)
(***************************************************************************)
EXTENDS Chunks, SequenceTheorems, WellFoundedInduction, TLAPS

-----------------------------------------------------------------------------
(* Induction over numbers up to a bound, in terms of sets.                 *)

\* Every set of numbers that is not empty has its least.
LEMMA LeastNumber ==
  ASSUME NEW S \in SUBSET Nat, S # {}
  PROVE  \E m \in S : \A n \in S : m <= n
<1> DEFINE R == OpToRel(<, Nat)
<1>1. IsWellFoundedOn(R, Nat)
  BY NatLessThanWellFounded, Zenon
<1> HIDE DEF R
<1>2. PICK m \in S : \A n \in S : ~ (<<n, m>> \in R)
  BY <1>1, WFMin
<1>3. ASSUME NEW n \in S
      PROVE  m <= n
  <2>1. ~(n < m)
    BY <1>2 DEF R, OpToRel
  <2> QED BY <2>1
<1> QED BY <1>3

\* Upwards from 0.
LEMMA Upwards ==
  ASSUME NEW n \in Nat, NEW B, 0 \in B, \A k \in 1 .. n : k - 1 \in B => k \in B
  PROVE  \A k \in 0 .. n : k \in B
<1> DEFINE Out == {k \in 0 .. n : k \notin B}
<1>1. CASE Out = {}
  BY <1>1
<1>2. CASE Out # {}
  <2>1. PICK m \in Out : \A k \in Out : m <= k
    <3>1. Out \in SUBSET Nat
      OBVIOUS
    <3> HIDE DEF Out
    <3> QED BY <1>2, <3>1, LeastNumber
  <2>2. m \in 1 .. n /\ m \notin B
    BY <2>1
  <2>3. m - 1 \in B
    BY <2>1, <2>2
  <2> QED BY <2>2, <2>3
<1> QED BY <1>1, <1>2

\* Downwards from n + 1.
LEMMA Downwards ==
  ASSUME NEW n \in Nat, NEW B, n + 1 \in B, \A k \in 1 .. n : k + 1 \in B => k \in B
  PROVE  \A k \in 1 .. n + 1 : k \in B
<1> DEFINE C == {j \in 0 .. n : n + 1 - j \in B}
<1>1. 0 \in C
  OBVIOUS
<1>2. ASSUME NEW j \in 1 .. n, j - 1 \in C
      PROVE  j \in C
  <2>1. n + 1 - j \in 1 .. n /\ (n + 1 - j) + 1 = n + 1 - (j - 1)
    OBVIOUS
  <2>2. n + 1 - (j - 1) \in B
    BY <1>2
  <2>3. n + 1 - j \in B
    BY <2>1, <2>2
  <2> QED BY <2>3
<1>3. \A j \in 0 .. n : j \in C
  <2> HIDE DEF C
  <2> QED BY <1>1, <1>2, Upwards
<1>4. ASSUME NEW k \in 1 .. n + 1
      PROVE  k \in B
  <2>1. n + 1 - k \in 0 .. n /\ n + 1 - (n + 1 - k) = k
    OBVIOUS
  <2> QED BY <1>3, <2>1
<1> QED BY <1>4

-----------------------------------------------------------------------------
(* The recursive functions.                                                *)

\* What Onward does from k on.
Continues(f, pieces, end, k, n) ==
  \A i \in k .. n + 1 : f[i] = IF i > n THEN end ELSE pieces[i] \o f[i + 1]

\* Every sequence can be joined so.
LEMMA OnwardExists ==
  ASSUME NEW pieces, NEW end, NEW n \in Nat
  PROVE  \E f : Continues(f, pieces, end, 1, n)
<1> DEFINE Has(k) == \E f : Continues(f, pieces, end, k, n)
           B == {k \in 1 .. n + 1 : Has(k)}
<1>1. n + 1 \in B
  <2> DEFINE f == [i \in {n + 1} |-> end]
  <2>1. ASSUME NEW i \in (n + 1) .. (n + 1)
        PROVE  i = n + 1 /\ i > n
    OBVIOUS
  <2>2. f[n + 1] = end
    OBVIOUS
  <2> HIDE DEF f
  <2>3. Continues(f, pieces, end, n + 1, n)
    BY <2>1, <2>2 DEF Continues
  <2>4. n + 1 \in 1 .. n + 1
    OBVIOUS
  <2> QED BY <2>3, <2>4
<1>2. ASSUME NEW k \in 1 .. n, k + 1 \in B
      PROVE  k \in B
  <2>1. PICK g : Continues(g, pieces, end, k + 1, n)
    BY <1>2
  <2> DEFINE f == [i \in k .. n + 1 |-> IF i = k THEN pieces[k] \o g[k + 1] ELSE g[i]]
  <2>2. f[k] = pieces[k] \o g[k + 1] /\ \A i \in k + 1 .. n + 1 : f[i] = g[i]
    <3>1. k \in k .. n + 1
      OBVIOUS
    <3>2. ASSUME NEW i \in k + 1 .. n + 1
          PROVE  i \in k .. n + 1 /\ i # k
      OBVIOUS
    <3> QED BY <3>1, <3>2
  <2> HIDE DEF f
  <2>3. ASSUME NEW i \in k .. n + 1
        PROVE  f[i] = IF i > n THEN end ELSE pieces[i] \o f[i + 1]
    <3>1. CASE i = k
      <4>1. f[k + 1] = g[k + 1]
        BY <2>2
      <4>2. ~(k > n)
        OBVIOUS
      <4> QED BY <2>2, <3>1, <4>1, <4>2
    <3>2. CASE i # k
      <4>1. i \in k + 1 .. n + 1
        BY <3>2
      <4>2. f[i] = IF i > n THEN end ELSE pieces[i] \o g[i + 1]
        BY <2>1, <2>2, <4>1 DEF Continues
      <4>3. CASE i > n
        BY <4>2, <4>3
      <4>4. CASE ~(i > n)
        <5>1. i + 1 \in k + 1 .. n + 1
          BY <4>1, <4>4
        <5> QED BY <2>2, <4>2, <4>4, <5>1
      <4> QED BY <4>3, <4>4
    <3> QED BY <3>1, <3>2
  <2>4. Continues(f, pieces, end, k, n)
    BY <2>3, Zenon DEF Continues
  <2>5. k \in 1 .. n + 1
    OBVIOUS
  <2> QED BY <2>4, <2>5
<1>3. 1 \in B
  <2>1. 1 \in 1 .. n + 1
    OBVIOUS
  <2> HIDE DEF B
  <2> QED BY <1>1, <1>2, <2>1, Downwards
<1> QED BY <1>3

\* Each piece before what comes from the next one on.
Links(f, pieces, end, n) ==
  f[n + 1] = end /\ \A k \in 1 .. n : f[k] = pieces[k] \o f[k + 1]

\* What Onward is.
LEMMA OnwardIs ==
  ASSUME NEW pieces, NEW end, NEW n \in Nat, n = Len(pieces)
  PROVE  Links(Onward(pieces, end), pieces, end, n)
<1> DEFINE P(f) == f = [k \in 1 .. n + 1 |-> IF k > n THEN end ELSE pieces[k] \o f[k + 1]]
<1>1. PICK g : Continues(g, pieces, end, 1, n)
  BY OnwardExists
<1> DEFINE f == [k \in 1 .. n + 1 |-> g[k]]
<1>2. P(f)
  <2>1. ASSUME NEW k \in 1 .. n + 1
        PROVE  f[k] = IF k > n THEN end ELSE pieces[k] \o f[k + 1]
    <3>1. f[k] = g[k] /\ g[k] = IF k > n THEN end ELSE pieces[k] \o g[k + 1]
      BY <1>1 DEF Continues
    <3>2. CASE k > n
      BY <3>1, <3>2
    <3>3. CASE ~(k > n)
      <4>1. k + 1 \in 1 .. n + 1
        BY <3>3
      <4>2. f[k + 1] = g[k + 1]
        BY <4>1
      <4> QED BY <3>1, <3>3, <4>2
    <3> QED BY <3>2, <3>3
  <2>2. f = [k \in 1 .. n + 1 |-> f[k]]
    OBVIOUS
  <2> HIDE DEF f
  <2> QED BY <2>1, <2>2
<1> HIDE DEF f
<1> DEFINE c == CHOOSE h : P(h)
<1>3. P(c)
  <2> HIDE DEF P
  <2> QED BY <1>2
<1>4. Onward(pieces, end) = c
  BY DEF Onward
<1> HIDE DEF c
<1>5. c[n + 1] = end
  <2>1. n + 1 \in 1 .. n + 1 /\ n + 1 > n
    OBVIOUS
  <2> QED BY <1>3, <2>1
<1>6. ASSUME NEW k \in 1 .. n
      PROVE  c[k] = pieces[k] \o c[k + 1]
  <2>1. k \in 1 .. n + 1 /\ ~(k > n)
    OBVIOUS
  <2> QED BY <1>3, <2>1
<1> QED BY <1>4, <1>5, <1>6, Zenon DEF Links

\* What the value of a numeral goes through.
Counts(f, s, n) ==
  \A k \in 0 .. n : f[k] = IF k = 0 THEN 0 ELSE 16 * f[k - 1] + Digits[s[k]]

\* Digits can be added up.
LEMMA CountsExists ==
  ASSUME NEW s, NEW n \in Nat
  PROVE  \E f : Counts(f, s, n)
<1> DEFINE Has(k) == \E f : Counts(f, s, k)
           B == {k \in 0 .. n : Has(k)}
<1>1. 0 \in B
  <2> DEFINE f == [k \in {0} |-> 0]
  <2>1. f[0] = 0 /\ \A k \in 0 .. 0 : k = 0
    OBVIOUS
  <2> HIDE DEF f
  <2>2. Counts(f, s, 0)
    BY <2>1 DEF Counts
  <2> QED BY <2>2
<1>2. ASSUME NEW k \in 1 .. n, k - 1 \in B
      PROVE  k \in B
  <2>1. PICK g : Counts(g, s, k - 1)
    BY <1>2
  <2> DEFINE f == [i \in 0 .. k |-> IF i = k THEN 16 * g[k - 1] + Digits[s[k]] ELSE g[i]]
  <2>2. f[k] = 16 * g[k - 1] + Digits[s[k]] /\ \A i \in 0 .. k - 1 : f[i] = g[i]
    <3>1. k \in 0 .. k
      OBVIOUS
    <3>2. ASSUME NEW i \in 0 .. k - 1
          PROVE  i \in 0 .. k /\ i # k
      OBVIOUS
    <3> QED BY <3>1, <3>2
  <2> HIDE DEF f
  <2>3. ASSUME NEW i \in 0 .. k
        PROVE  f[i] = IF i = 0 THEN 0 ELSE 16 * f[i - 1] + Digits[s[i]]
    <3>1. CASE i = k
      <4>1. f[k - 1] = g[k - 1] /\ k # 0
        BY <2>2
      <4> QED BY <2>2, <3>1, <4>1
    <3>2. CASE i # k
      <4>1. i \in 0 .. k - 1
        BY <3>2
      <4>2. f[i] = IF i = 0 THEN 0 ELSE 16 * g[i - 1] + Digits[s[i]]
        BY <2>1, <2>2, <4>1 DEF Counts
      <4>3. i # 0 => f[i - 1] = g[i - 1]
        <5>1. i # 0 => i - 1 \in 0 .. k - 1
          BY <4>1
        <5> QED BY <2>2, <5>1
      <4> QED BY <4>2, <4>3
    <3> QED BY <3>1, <3>2
  <2>4. Counts(f, s, k)
    BY <2>3, Zenon DEF Counts
  <2>5. k \in 0 .. n
    OBVIOUS
  <2> QED BY <2>4, <2>5
<1>3. n \in B
  <2> HIDE DEF B
  <2> QED BY <1>1, <1>2, Upwards
<1> QED BY <1>3

\* A numeral stands for a number.
LEMMA ValueType ==
  ASSUME NEW s, NEW n \in Nat, n = Len(s), \A k \in 1 .. n : Digits[s[k]] \in 0 .. 15
  PROVE  Value(s) \in Nat
<1> DEFINE P(f) == f = [k \in 0 .. Len(s) |-> IF k = 0 THEN 0 ELSE 16 * f[k - 1] + Digits[s[k]]]
           c == CHOOSE h : P(h)
<1>1. PICK g : Counts(g, s, n)
  BY CountsExists
<1> DEFINE f == [k \in 0 .. n |-> g[k]]
<1>2. P(f)
  <2>1. ASSUME NEW k \in 0 .. n
        PROVE  f[k] = IF k = 0 THEN 0 ELSE 16 * f[k - 1] + Digits[s[k]]
    <3>1. f[k] = IF k = 0 THEN 0 ELSE 16 * g[k - 1] + Digits[s[k]]
      BY <1>1 DEF Counts
    <3>2. k # 0 => f[k - 1] = g[k - 1]
      <4>1. k # 0 => k - 1 \in 0 .. n
        OBVIOUS
      <4> QED BY <4>1
    <3> HIDE DEF f
    <3> QED BY <3>1, <3>2
  <2>2. f = [k \in 0 .. n |-> f[k]]
    OBVIOUS
  <2> HIDE DEF f
  <2> QED BY <2>1, <2>2
<1>3. P(c)
  <2> HIDE DEF P, f
  <2> QED BY <1>2
<1>4. Value(s) = c[n]
  BY DEF Value
<1> HIDE DEF c
<1> DEFINE B == {k \in 0 .. n : c[k] \in Nat}
<1>5. 0 \in B
  BY <1>3
<1>6. ASSUME NEW k \in 1 .. n, k - 1 \in B
      PROVE  k \in B
  <2>1. c[k] = 16 * c[k - 1] + Digits[s[k]]
    <3>1. k \in 0 .. n /\ k # 0
      OBVIOUS
    <3> QED BY <1>3, <3>1
  <2>2. Digits[s[k]] \in 0 .. 15
    OBVIOUS
  <2>3. c[k - 1] \in Nat
    BY <1>6
  <2>4. c[k] \in Nat
    <3>1. PICK x \in Nat : x = c[k - 1]
      BY <2>3, Zenon
    <3>2. PICK y \in 0 .. 15 : y = Digits[s[k]]
      BY <2>2, Zenon
    <3>3. 16 * x + y \in Nat
      OBVIOUS
    <3>4. c[k] = 16 * x + y
      BY <2>1, <3>1, <3>2, Zenon
    <3> QED BY <3>3, <3>4, Zenon
  <2> QED BY <2>4
<1>7. n \in B
  <2>1. \A k \in 1 .. n : k - 1 \in B => k \in B
    BY <1>6, Zenon
  <2>2. n \in 0 .. n
    OBVIOUS
  <2> HIDE DEF B
  <2> QED BY <1>5, <2>1, <2>2, Upwards, Zenon
<1> QED BY <1>4, <1>7

-----------------------------------------------------------------------------
(* Lines and numbers.                                                      *)

\* The bounds, as numbers.
LEMMA Bounds ==
  /\ Modulus \in Nat \ {0} /\ MaxBody \in Nat /\ MaxBody < Modulus
  /\ LineCap \in Nat /\ BlockCap \in Nat /\ LineCap <= BlockCap
<1>1. /\ Modulus \in Nat /\ MaxBody \in 0 .. Modulus - 1
      /\ LineCap \in Nat /\ BlockCap \in Nat /\ LineCap <= BlockCap
  BY BoundsAssumption, Zenon
<1> QED BY <1>1

\* The digits, and what is none.
LEMMA DigitsBounds ==
  /\ \A c : IsDigit(c) => Digits[c] \in 0 .. 15
  /\ ~IsDigit("cr") /\ ~IsDigit("lf") /\ ~IsDigit(";") /\ ~IsDigit("-")
<1>1. /\ \A c \in DOMAIN Digits : Digits[c] \in 0 .. 15
      /\ {"cr", "lf", ";", "-"} \subseteq Characters \ DOMAIN Digits
  BY BoundsAssumption, Zenon
<1> QED BY <1>1, Zenon DEF IsDigit

\* Line ends are characters.
LEMMA LineEndCharacters == "cr" \in Characters /\ "lf" \in Characters
<1>1. {"cr", "lf", ";", "-"} \subseteq Characters \ DOMAIN Digits
  BY BoundsAssumption, Zenon
<1> QED BY <1>1

\* The least of some positions.
LEMMA MinIs ==
  ASSUME NEW S \in SUBSET Nat, S # {}
  PROVE  Min(S) \in S /\ \A k \in S : Min(S) <= k
<1>1. \E m \in S : \A k \in S : m <= k
  BY LeastNumber
<1> QED BY <1>1, Zenon DEF Min

\* The first line of a text.
LEMMA LineEndIs ==
  ASSUME NEW s \in Text, LineEnds(s) # {}
  PROVE  /\ LineEnd(s) \in 1 .. Len(s) /\ s[LineEnd(s)] = "lf"
         /\ \A k \in 1 .. LineEnd(s) - 1 : s[k] # "lf"
<1>1. LineEnds(s) \in SUBSET Nat /\ Len(s) \in Nat
  BY DEF LineEnds, Text
<1>2. LineEnd(s) \in LineEnds(s) /\ \A k \in LineEnds(s) : LineEnd(s) <= k
  BY <1>1, MinIs, Zenon DEF LineEnd
<1>3. LineEnd(s) \in 1 .. Len(s) /\ s[LineEnd(s)] = "lf"
  BY <1>2 DEF LineEnds
<1>4. PICK e \in 1 .. Len(s) : e = LineEnd(s)
  BY <1>3
<1>5. ASSUME NEW k \in 1 .. e - 1
      PROVE  s[k] # "lf"
  <2>1. k \in 1 .. Len(s) /\ ~(e <= k)
    BY <1>1
  <2> QED BY <1>2, <1>4, <2>1 DEF LineEnds
<1> QED BY <1>3, <1>4, <1>5

\* The part of a text before some positions.
LEMMA BeforeIs ==
  ASSUME NEW s \in Text, NEW at \in SUBSET (1 .. Len(s))
  PROVE  \E n \in 0 .. Len(s) :
           /\ Before(s, at) = SubSeq(s, 1, n)
           /\ \A k \in 1 .. n : k \notin at
           /\ n # Len(s) => n + 1 \in at
<1>1. PICK l \in Nat : l = Len(s)
  BY DEF Text
<1>2. CASE at = {}
  <2>1. Before(s, at) = SubSeq(s, 1, l)
    BY <1>1, <1>2 DEF Before, Text
  <2>2. l \in 0 .. l
    OBVIOUS
  <2> QED BY <1>1, <1>2, <2>1, <2>2
<1>3. CASE at # {}
  <2>1. Min(at) \in at /\ \A k \in at : Min(at) <= k
    <3>1. at \in SUBSET Nat
      BY <1>1
    <3> QED BY <1>3, <3>1, MinIs
  <2>2. PICK m \in 1 .. l : m = Min(at)
    BY <1>1, <2>1
  <2>3. m - 1 \in 0 .. l /\ m - 1 # l /\ (m - 1) + 1 = m
    OBVIOUS
  <2>4. Before(s, at) = SubSeq(s, 1, m - 1)
    BY <1>3, <2>2 DEF Before
  <2>5. ASSUME NEW k \in 1 .. m - 1
        PROVE  k \notin at
    BY <2>1, <2>2
  <2> QED BY <1>1, <2>1, <2>2, <2>3, <2>4, <2>5
<1> QED BY <1>2, <1>3

\* A part of a text is a text.
LEMMA PartIsText ==
  ASSUME NEW s \in Text, NEW i \in Nat \ {0}, NEW j \in Nat, j <= Len(s)
  PROVE  SubSeq(s, i, j) \in Text
  BY DEF Text

\* The field of a line is a text.
LEMMA FieldType ==
  ASSUME NEW s \in Text
  PROVE  Field(s) \in Text
<1> DEFINE at == {k \in 1 .. Len(s) : s[k] = ";"}
<1>1. PICK n \in 0 .. Len(s) : Before(s, at) = SubSeq(s, 1, n)
  BY BeforeIs
<1>2. Len(s) \in Nat
  BY DEF Text
<1>3. SubSeq(s, 1, n) \in Text
  BY <1>2, PartIsText
<1> QED BY <1>1, <1>3 DEF Field

\* A numeral consists of digits and has a value.
LEMMA NumeralValue ==
  ASSUME NEW s \in Text
  PROVE  Value(Numeral(s)) \in Nat
<1> DEFINE at == {k \in 1 .. Len(s) : ~IsDigit(s[k])}
<1>1. PICK n \in 0 .. Len(s) : Before(s, at) = SubSeq(s, 1, n) /\ \A k \in 1 .. n : k \notin at
  BY BeforeIs
<1>2. PICK l \in Nat : l = Len(s)
  BY DEF Text
<1>3. PICK t : t = SubSeq(s, 1, n)
  OBVIOUS
<1>4. n \in Nat /\ n = Len(t) /\ \A k \in 1 .. n : t[k] = s[k]
  BY <1>2, <1>3 DEF Text
<1>5. ASSUME NEW k \in 1 .. n
      PROVE  Digits[t[k]] \in 0 .. 15
  <2>1. k \in 1 .. Len(s)
    BY <1>2
  <2>2. IsDigit(t[k])
    BY <1>1, <1>4, <2>1
  <2> QED BY <2>2, DigitsBounds
<1>6. Value(t) \in Nat
  BY <1>4, <1>5, ValueType
<1> QED BY <1>1, <1>3, <1>6 DEF Numeral

\* strtoull returns a word.
LEMMA StrtoullType ==
  ASSUME NEW s \in Text
  PROVE  Strtoull(s) \in 0 .. Modulus - 1
<1> DEFINE neg == s # <<>> /\ s[1] = "-"
           t == IF neg THEN Tail(s) ELSE s
<1>1. t \in Text
  <2>1. s \in Seq(Characters)
    BY DEF Text
  <2>2. s # <<>> => Tail(s) \in Seq(Characters)
    BY <2>1, HeadTailProperties, Zenon
  <2> QED BY <2>1, <2>2, Zenon DEF Text
<1>2. PICK v \in Nat : v = Value(Numeral(t))
  <2> HIDE DEF t
  <2> QED BY <1>1, NumeralValue
<1>3. Strtoull(s) = IF v >= Modulus THEN Modulus - 1 ELSE IF neg THEN (Modulus - v) % Modulus ELSE v
  BY <1>2 DEF Strtoull
<1>4. Modulus \in Nat \ {0}
  BY Bounds
<1>5. (Modulus - v) % Modulus \in 0 .. Modulus - 1
  BY <1>4
<1> HIDE DEF neg, t
<1> QED BY <1>3, <1>4, <1>5

-----------------------------------------------------------------------------
(* One turn of the loop.                                                   *)

Stages == {"size", "data", "trailer"}

Decoder == [in : Text, body : Text, stage : Stages, rem : 0 .. Modulus - 1, verdict : Verdict]

State(in, body, stage, rem, verdict) ==
  [in |-> in, body |-> body, stage |-> stage, rem |-> rem, verdict |-> verdict]

\* What its fields say is all there is to a decoder.
LEMMA StateIs ==
  ASSUME NEW c \in Decoder
  PROVE  /\ c = State(c.in, c.body, c.stage, c.rem, c.verdict)
         /\ c.in \in Text /\ c.body \in Text /\ c.stage \in Stages
         /\ c.rem \in 0 .. Modulus - 1 /\ c.verdict \in Verdict
  BY DEF Decoder, State

\* And each of them can be changed.
LEMMA StateType ==
  ASSUME NEW i \in Text, NEW b \in Text, NEW s \in Stages, NEW m \in 0 .. Modulus - 1,
         NEW v \in Verdict
  PROVE  /\ State(i, b, s, m, v) \in Decoder
         /\ State(i, b, s, m, v).in = i /\ State(i, b, s, m, v).body = b
         /\ State(i, b, s, m, v).stage = s /\ State(i, b, s, m, v).rem = m
         /\ State(i, b, s, m, v).verdict = v
  BY DEF Decoder, State

\* What the operators of the decoder make of its fields.
LEMMA EndsIs ==
  ASSUME NEW i, NEW b, NEW s, NEW m, NEW v, NEW w, NEW r, r = State(i, b, s, m, v)
  PROVE  Ends(r, w) = State(i, b, s, m, w)
  BY DEF State, Ends

\* A changed field.
LEMMA FieldIs ==
  ASSUME NEW i, NEW b, NEW s, NEW m, NEW v, NEW w
  PROVE  /\ [State(i, b, s, m, v) EXCEPT !.in = w] = State(w, b, s, m, v)
         /\ [State(i, b, s, m, v) EXCEPT !.body = w] = State(i, w, s, m, v)
         /\ [State(i, b, s, m, v) EXCEPT !.stage = w] = State(i, b, w, m, v)
         /\ [State(i, b, s, m, v) EXCEPT !.rem = w] = State(i, b, s, w, v)
         /\ [State(i, b, s, m, v) EXCEPT !.verdict = w] = State(i, b, s, m, w)
         /\ State(i, b, s, m, v).in = i /\ State(i, b, s, m, v).body = b
         /\ State(i, b, s, m, v).rem = m
<1>1. [State(i, b, s, m, v) EXCEPT !.in = w] = State(w, b, s, m, v)
  BY DEF State
<1>2. [State(i, b, s, m, v) EXCEPT !.body = w] = State(i, w, s, m, v)
  BY DEF State
<1>3. [State(i, b, s, m, v) EXCEPT !.stage = w] = State(i, b, w, m, v)
  BY DEF State
<1>4. [State(i, b, s, m, v) EXCEPT !.rem = w] = State(i, b, s, w, v)
  BY DEF State
<1>5. [State(i, b, s, m, v) EXCEPT !.verdict = w] = State(i, b, s, m, w)
  BY DEF State
<1>6. State(i, b, s, m, v).in = i /\ State(i, b, s, m, v).body = b /\ State(i, b, s, m, v).rem = m
  BY DEF State
<1> QED BY <1>1, <1>2, <1>3, <1>4, <1>5, <1>6, Zenon

\* What buf_consume does to the decoder.
LEMMA ConsumedIs ==
  ASSUME NEW i, NEW b, NEW s, NEW m, NEW v, NEW n
  PROVE  Consumed(State(i, b, s, m, v), n) = State(SubSeq(i, n + 1, Len(i)), b, s, m, v)
<1> DEFINE c == State(i, b, s, m, v)
<1>1. c.in = i
  BY FieldIs
<1>2. PICK t : t = SubSeq(i, n + 1, Len(i))
  OBVIOUS
<1>3. [c EXCEPT !.in = t] = State(t, b, s, m, v)
  BY FieldIs
<1>4. Consumed(c, n) = [c EXCEPT !.in = SubSeq(c.in, n + 1, Len(c.in))]
  BY Zenon DEF Consumed
<1> HIDE DEF c
<1>5. Consumed(c, n) = [c EXCEPT !.in = t]
  BY <1>1, <1>2, <1>4, Zenon
<1> QED BY <1>2, <1>3, <1>5, Zenon DEF c

\* The fields that change together.
Sized(r, n, stage) == [r EXCEPT !.rem = n, !.stage = stage]
Grown(r, data, n) == [r EXCEPT !.body = @ \o data, !.rem = @ - n]
Fed(r, data, verdict) == [r EXCEPT !.in = @ \o data, !.verdict = verdict]

\* A size line sets the size and the stage.
LEMMA SizeIs ==
  ASSUME NEW i, NEW b, NEW s, NEW m, NEW v, NEW w, NEW n, NEW r, r = State(i, b, s, m, v)
  PROVE  Sized(r, n, w) = State(i, b, w, n, v)
<1>1. ASSUME NEW c
      PROVE  [c EXCEPT !.rem = n, !.stage = w] = [[c EXCEPT !.rem = n] EXCEPT !.stage = w]
  OBVIOUS
<1>2. PICK c : c = [r EXCEPT !.rem = n]
  OBVIOUS
<1>3. c = State(i, b, s, n, v)
  BY <1>2 DEF State
<1>4. [c EXCEPT !.stage = w] = State(i, b, w, n, v)
  BY <1>3 DEF State
<1>5. Sized(r, n, w) = [c EXCEPT !.stage = w]
  BY <1>1, <1>2, Zenon DEF Sized
<1> QED BY <1>4, <1>5, Zenon

\* Data move into the body.
LEMMA DataIs ==
  ASSUME NEW i, NEW b, NEW s, NEW m, NEW v, NEW w, NEW n, NEW r, r = State(i, b, s, m, v)
  PROVE  Grown(r, w, n) = State(i, b \o w, s, m - n, v)
<1>1. ASSUME NEW c
      PROVE  [c EXCEPT !.body = @ \o w, !.rem = @ - n]
             = [[c EXCEPT !.body = c.body \o w] EXCEPT !.rem = c.rem - n]
  <2>1. ASSUME NEW x, NEW y
        PROVE  [c EXCEPT !.body = x, !.rem = y] = [[c EXCEPT !.body = x] EXCEPT !.rem = y]
    OBVIOUS
  <2> QED BY <2>1, Zenon
<1>2. PICK x : x = b \o w
  OBVIOUS
<1>3. PICK y : y = m - n
  OBVIOUS
<1>4. r.body = b /\ r.rem = m
  BY FieldIs
<1>5. PICK c : c = [r EXCEPT !.body = x]
  OBVIOUS
<1>6. c = State(i, x, s, m, v)
  BY <1>5, FieldIs
<1>7. [c EXCEPT !.rem = y] = State(i, x, s, y, v)
  BY <1>6, FieldIs
<1>8. Grown(r, w, n) = [c EXCEPT !.rem = y]
  BY <1>1, <1>2, <1>3, <1>4, <1>5, Zenon DEF Grown
<1> QED BY <1>2, <1>3, <1>7, <1>8, Zenon

\* More input arrives.
LEMMA ReceivedIs ==
  ASSUME NEW i, NEW b, NEW s, NEW m, NEW v, NEW w, NEW n, NEW r, r = State(i, b, s, m, v)
  PROVE  Fed(r, w, n) = State(i \o w, b, s, m, n)
<1>1. ASSUME NEW c
      PROVE  [c EXCEPT !.in = @ \o w, !.verdict = n]
             = [[c EXCEPT !.in = c.in \o w] EXCEPT !.verdict = n]
  <2>1. ASSUME NEW x
        PROVE  [c EXCEPT !.in = x, !.verdict = n] = [[c EXCEPT !.in = x] EXCEPT !.verdict = n]
    OBVIOUS
  <2> QED BY <2>1, Zenon
<1>2. PICK x : x = i \o w
  OBVIOUS
<1>3. r.in = i
  BY FieldIs
<1>4. PICK c : c = [r EXCEPT !.in = x]
  OBVIOUS
<1>5. c = State(x, b, s, m, v)
  BY <1>4 DEF State
<1>6. [c EXCEPT !.verdict = n] = State(x, b, s, m, n)
  BY <1>5 DEF State
<1>7. Fed(r, w, n) = [c EXCEPT !.verdict = n]
  BY <1>1, <1>2, <1>3, <1>4, Zenon DEF Fed
<1> QED BY <1>2, <1>6, <1>7, Zenon

\* The size that the first line of an input announces, and what follows a line.
SizeRead(i) == Strtoull(Field(SubSeq(i, 1, LineEnd(i) - 1)))
Past(i, n) == SubSeq(i, n + 1, Len(i))

\* Where a size line is expected.
LEMMA SizeTurn ==
  ASSUME NEW i, NEW b, NEW m, NEW v, NEW c, c = State(i, b, "size", m, v)
  PROVE  /\ LineEnds(i) = {} =>
              Turn(c) = State(i, b, "size", m, IF Len(i) > BlockCap THEN "malformed" ELSE "more")
         /\ LineEnds(i) # {} /\ LineEnd(i) >= LineCap =>
              Turn(c) = State(i, b, "size", m, "malformed")
         /\ LineEnds(i) # {} /\ ~(LineEnd(i) >= LineCap) =>
              LET size == SizeRead(i)
                  in   == Past(i, LineEnd(i))
              IN  Turn(c) = IF (Len(b) + size) % Modulus > MaxBody
                            THEN State(in, b, "size", m, "oversize")
                            ELSE State(in, b, IF size = 0 THEN "trailer" ELSE "data", size, v)
<1>1. c.in = i /\ c.body = b /\ c.stage = "size"
  BY DEF State
<1>2. Turn(c) = SizeLine(c)
  BY <1>1, Zenon DEF Turn
<1>3. CASE LineEnds(i) = {}
  <2>1. SizeLine(c) = Ends(c, IF Len(i) > BlockCap THEN "malformed" ELSE "more")
    BY <1>1, <1>3, Zenon DEF SizeLine, NoLineEnd
  <2> QED BY <1>2, <1>3, <2>1, EndsIs
<1>4. CASE LineEnds(i) # {} /\ LineEnd(i) >= LineCap
  <2>1. SizeLine(c) = Ends(c, "malformed")
    BY <1>1, <1>4, Zenon DEF SizeLine
  <2>2. Ends(c, "malformed") = State(i, b, "size", m, "malformed")
    BY EndsIs
  <2> QED BY <1>2, <1>4, <2>1, <2>2, Zenon
<1>5. CASE LineEnds(i) # {} /\ ~(LineEnd(i) >= LineCap)
  <2>1. PICK e : e = LineEnd(i)
    OBVIOUS
  <2>2. PICK size : size = SizeRead(i)
    OBVIOUS
  <2>3. PICK r : r = Consumed(c, e)
    OBVIOUS
  <2>4. PICK x : x = Past(i, e)
    OBVIOUS
  <2>5. r = State(x, b, "size", m, v)
    BY <2>3, <2>4, ConsumedIs DEF Past
  <2>6. CASE (Len(b) + size) % Modulus > MaxBody
    <3>1. SizeLine(c) = Ends(r, "oversize")
      BY <1>1, <1>5, <2>1, <2>2, <2>3, <2>6, Zenon DEF SizeLine, ExceedsCap, SizeRead
    <3>2. Ends(r, "oversize") = State(x, b, "size", m, "oversize")
      <4>1. ASSUME NEW w
            PROVE  Ends(r, w) = State(x, b, "size", m, w)
        BY <2>5, EndsIs
      <4> QED BY <4>1, Zenon
    <3> QED BY <1>2, <1>5, <2>1, <2>2, <2>4, <2>6, <3>1, <3>2, Zenon
  <2>7. CASE ~((Len(b) + size) % Modulus > MaxBody)
    <3>1. PICK next : next = IF size = 0 THEN "trailer" ELSE "data"
      OBVIOUS
    <3>2. SizeLine(c) = Sized(r, size, next)
      BY <1>1, <1>5, <2>1, <2>2, <2>3, <2>7, <3>1, Zenon DEF SizeLine, ExceedsCap, SizeRead, Sized
    <3>3. Sized(r, size, next) = State(x, b, next, size, v)
      BY <2>5, SizeIs
    <3> QED BY <1>2, <1>5, <2>1, <2>2, <2>4, <2>7, <3>1, <3>2, <3>3, Zenon
  <2> QED BY <2>6, <2>7
<1> QED BY <1>3, <1>4, <1>5

\* Behind the data of a chunk.
LEMMA EndTurn ==
  ASSUME NEW i, NEW b, NEW v, NEW c, c = State(i, b, "data", 0, v)
  PROVE  Turn(c) = IF Len(i) < 2 THEN State(i, b, "data", 0, "more")
                   ELSE IF StartsWithCrLf(i) THEN State(Past(i, 2), b, "size", 0, v)
                   ELSE State(i, b, "data", 0, "malformed")
<1>1. c.in = i /\ c.stage = "data" /\ c.rem = 0
  BY DEF State
<1>2. Turn(c) = ChunkEnd(c)
  BY <1>1, Zenon DEF Turn
<1>3. CASE Len(i) < 2
  <2>1. ChunkEnd(c) = Ends(c, "more")
    BY <1>1, <1>3, Zenon DEF ChunkEnd
  <2>2. Ends(c, "more") = State(i, b, "data", 0, "more")
    BY EndsIs
  <2> QED BY <1>2, <1>3, <2>1, <2>2, Zenon
<1>4. CASE ~(Len(i) < 2) /\ StartsWithCrLf(i)
  <2>1. PICK r : r = Consumed(c, 2)
    OBVIOUS
  <2>2. PICK x : x = Past(i, 2)
    OBVIOUS
  <2>3. r = State(x, b, "data", 0, v)
    BY <2>1, <2>2, ConsumedIs DEF Past
  <2>4. ChunkEnd(c) = [r EXCEPT !.stage = "size"]
    BY <1>1, <1>4, <2>1, Zenon DEF ChunkEnd
  <2>5. [r EXCEPT !.stage = "size"] = State(x, b, "size", 0, v)
    BY <2>3 DEF State
  <2> QED BY <1>2, <1>4, <2>2, <2>4, <2>5, Zenon
<1>5. CASE ~(Len(i) < 2) /\ ~StartsWithCrLf(i)
  <2>1. ChunkEnd(c) = Ends(c, "malformed")
    BY <1>1, <1>5, Zenon DEF ChunkEnd
  <2> QED BY <1>2, <1>5, <2>1, EndsIs
<1> QED BY <1>3, <1>4, <1>5

\* In the data of a chunk.
LEMMA DataTurn ==
  ASSUME NEW i, NEW b, NEW m, NEW v, NEW c, c = State(i, b, "data", m, v), m # 0, NEW t,
         t = IF m > Len(i) THEN Len(i) ELSE m
  PROVE  Turn(c) = State(Past(i, t), b \o SubSeq(i, 1, t), "data", m - t, v)
<1>1. c.in = i /\ c.stage = "data" /\ c.rem = m
  BY DEF State
<1>2. Take(c) = t
  BY <1>1, Zenon DEF Take
<1>3. PICK r : r = Consumed(c, t)
  OBVIOUS
<1>4. r = State(Past(i, t), b, "data", m, v)
  BY <1>3, ConsumedIs DEF Past
<1>5. Turn(c) = ChunkData(c)
  BY <1>1, Zenon DEF Turn
<1>6. PICK x : x = SubSeq(i, 1, t)
  OBVIOUS
<1>7. ChunkData(c) = Grown(r, x, t)
  BY <1>1, <1>2, <1>3, <1>6, Zenon DEF ChunkData, Grown
<1>8. Grown(r, x, t) = State(Past(i, t), b \o x, "data", m - t, v)
  BY <1>4, DataIs
<1> QED BY <1>5, <1>6, <1>7, <1>8, Zenon

\* In the trailer.
LEMMA TrailerTurn ==
  ASSUME NEW i, NEW b, NEW m, NEW v, NEW c, c = State(i, b, "trailer", m, v)
  PROVE  Turn(c) =
           IF i = <<>> THEN State(i, b, "trailer", m, "more")
           ELSE IF StartsWithCrLf(i) THEN State(Past(i, 2), b, "trailer", m, "done")
           ELSE IF LineEnds(i) = {}
           THEN State(i, b, "trailer", m, IF Len(i) > BlockCap THEN "malformed" ELSE "more")
           ELSE State(Past(i, LineEnd(i)), b, "trailer", m, v)
<1>1. c.in = i /\ c.stage = "trailer"
  BY DEF State
<1>2. Turn(c) = Trailer(c)
  BY <1>1, Zenon DEF Turn
<1>3. CASE i = <<>>
  <2>1. Trailer(c) = Ends(c, "more")
    BY <1>1, <1>3, Zenon DEF Trailer
  <2> QED BY <1>2, <1>3, <2>1, EndsIs
<1>4. CASE i # <<>> /\ StartsWithCrLf(i)
  <2>1. PICK r : r = Consumed(c, 2)
    OBVIOUS
  <2>2. r = State(Past(i, 2), b, "trailer", m, v)
    BY <2>1, ConsumedIs DEF Past
  <2>3. Trailer(c) = Ends(r, "done")
    BY <1>1, <1>4, <2>1, Zenon DEF Trailer
  <2> QED BY <1>2, <1>4, <2>2, <2>3, EndsIs
<1>5. CASE i # <<>> /\ ~StartsWithCrLf(i) /\ LineEnds(i) = {}
  <2>1. Trailer(c) = Ends(c, IF Len(i) > BlockCap THEN "malformed" ELSE "more")
    BY <1>1, <1>5, Zenon DEF Trailer, NoLineEnd
  <2> QED BY <1>2, <1>5, <2>1, EndsIs
<1>6. CASE i # <<>> /\ ~StartsWithCrLf(i) /\ LineEnds(i) # {}
  <2>1. Trailer(c) = Consumed(c, LineEnd(i))
    BY <1>1, <1>6, Zenon DEF Trailer
  <2>2. PICK e : e = LineEnd(i)
    OBVIOUS
  <2>3. Consumed(c, e) = State(Past(i, e), b, "trailer", m, v)
    BY ConsumedIs DEF Past
  <2> QED BY <1>2, <1>6, <2>1, <2>2, <2>3, Zenon
<1> QED BY <1>3, <1>4, <1>5, <1>6

-----------------------------------------------------------------------------
(* Texts.                                                                  *)

\* The parts of a text.
LEMMA PartIs ==
  ASSUME NEW s \in Text, NEW l \in Nat, l = Len(s), NEW i \in 1 .. l + 1, NEW j \in i - 1 .. l
  PROVE  /\ SubSeq(s, i, j) \in Text /\ Len(SubSeq(s, i, j)) = j - i + 1
         /\ \A k \in 1 .. j - i + 1 : SubSeq(s, i, j)[k] = s[i + k - 1]
<1>1. \A k \in i .. j : s[k] \in Characters
  BY ElementOfSeq DEF Text
<1>2. i \in Int /\ j \in Int /\ (i <= j \/ j - i + 1 = 0)
  OBVIOUS
<1> QED BY <1>1, <1>2, SubSeqProperties DEF Text

\* What is left of it.
LEMMA PastIs ==
  ASSUME NEW s \in Text, NEW l \in Nat, l = Len(s), NEW n \in 0 .. l
  PROVE  /\ Past(s, n) \in Text /\ Len(Past(s, n)) = l - n
         /\ \A k \in 1 .. l - n : Past(s, n)[k] = s[n + k]
<1>1. n + 1 \in 1 .. l + 1 /\ l \in (n + 1) - 1 .. l /\ l - (n + 1) + 1 = l - n
  OBVIOUS
<1>2. ASSUME NEW k \in 1 .. l - n
      PROVE  (n + 1) + k - 1 = n + k
  OBVIOUS
<1> QED BY <1>1, <1>2, PartIs DEF Past

\* What comes first in it.
LEMMA FirstIs ==
  ASSUME NEW s \in Text, NEW l \in Nat, l = Len(s), NEW n \in 0 .. l
  PROVE  /\ SubSeq(s, 1, n) \in Text /\ Len(SubSeq(s, 1, n)) = n
         /\ \A k \in 1 .. n : SubSeq(s, 1, n)[k] = s[k]
<1>1. 1 \in 1 .. l + 1 /\ n \in 1 - 1 .. l /\ n - 1 + 1 = n
  OBVIOUS
<1>2. PICK t : t = SubSeq(s, 1, n)
  OBVIOUS
<1>3. t \in Text /\ Len(t) = n - 1 + 1 /\ \A k \in 1 .. n - 1 + 1 : t[k] = s[1 + k - 1]
  BY <1>1, <1>2, PartIs
<1>4. ASSUME NEW k \in 1 .. n
      PROVE  t[k] = s[k]
  <2>1. k \in 1 .. n - 1 + 1 /\ 1 + k - 1 = k
    OBVIOUS
  <2> QED BY <1>3, <2>1
<1> QED BY <1>1, <1>2, <1>3, <1>4

\* Both together.
LEMMA Whole ==
  ASSUME NEW s \in Text, NEW l \in Nat, l = Len(s), NEW n \in 0 .. l
  PROVE  SubSeq(s, 1, n) \o Past(s, n) = s
<1>1. SubSeq(s, 1, l) = s
  BY SubSeqFull DEF Text
<1>2. 1 \in 1 .. Len(s) + 1 /\ n \in 1 - 1 .. Len(s) /\ l \in n .. Len(s)
  OBVIOUS
<1>3. SubSeq(s, 1, n) \o SubSeq(s, n + 1, l) = SubSeq(s, 1, l)
  BY <1>2, ConcatAdjacentSubSeq DEF Text
<1> QED BY <1>1, <1>3, Zenon DEF Past

\* Texts that are joined.
LEMMA JoinIs ==
  ASSUME NEW s \in Text, NEW t \in Text
  PROVE  /\ s \o t \in Text /\ Len(s \o t) = Len(s) + Len(t)
         /\ \A k \in 1 .. Len(s) : (s \o t)[k] = s[k]
         /\ \A k \in 1 .. Len(t) : (s \o t)[Len(s) + k] = t[k]
<1>1. Len(s) \in Nat /\ Len(t) \in Nat
  BY DEF Text
<1>2. /\ s \o t \in Text /\ Len(s \o t) = Len(s) + Len(t)
      /\ \A i \in 1 .. Len(s) + Len(t) :
           (s \o t)[i] = IF i <= Len(s) THEN s[i] ELSE t[i - Len(s)]
  BY ConcatProperties DEF Text
<1>3. ASSUME NEW k \in 1 .. Len(s)
      PROVE  (s \o t)[k] = s[k]
  <2>1. k \in 1 .. Len(s) + Len(t) /\ k <= Len(s)
    BY <1>1
  <2> QED BY <1>2, <2>1
<1>4. ASSUME NEW k \in 1 .. Len(t)
      PROVE  (s \o t)[Len(s) + k] = t[k]
  <2>1. Len(s) + k \in 1 .. Len(s) + Len(t) /\ ~(Len(s) + k <= Len(s)) /\ (Len(s) + k) - Len(s) = k
    BY <1>1
  <2> QED BY <1>2, <2>1
<1> QED BY <1>2, <1>3, <1>4

\* Joining is associative.
LEMMA Regrouped ==
  ASSUME NEW s \in Text, NEW t \in Text, NEW u \in Text
  PROVE  (s \o t) \o u = s \o (t \o u)
<1>1. s \in Seq(Characters) /\ t \in Seq(Characters) /\ u \in Seq(Characters)
  BY DEF Text
<1> QED BY <1>1, ConcatAssociative

\* What is in the middle can be taken over part by part.
Moved(b, p, q, y) == b \o ((p \o q) \o y) = (b \o p) \o (q \o y)

\* It is the same text.
LEMMA MovedOver ==
  ASSUME NEW b \in Text, NEW p \in Text, NEW q \in Text, NEW y \in Text
  PROVE  Moved(b, p, q, y)
<1>1. (p \o q) \o y = p \o (q \o y)
  BY Regrouped, Zenon
<1>2. PICK z \in Text : z = q \o y
  BY ConcatProperties DEF Text
<1>3. (b \o p) \o z = b \o (p \o z)
  BY Regrouped, Zenon
<1> QED BY <1>1, <1>2, <1>3, Zenon DEF Moved

\* What follows can be taken over.
Taken(i, x, y, z) == (i \o x) \o y = i \o z

\* It joins to the same text.
LEMMA TakenOver ==
  ASSUME NEW i \in Text, NEW x \in Text, NEW y \in Text, NEW z, z = x \o y
  PROVE  Taken(i, x, y, z)
<1>1. (i \o x) \o y = i \o (x \o y)
  BY Regrouped, Zenon
<1> QED BY <1>1, Zenon DEF Taken

\* Texts with the same characters.
LEMMA SameText ==
  ASSUME NEW s \in Text, NEW t \in Text, NEW l \in Nat, l = Len(s), l = Len(t),
         \A k \in 1 .. l : s[k] = t[k]
  PROVE  s = t
  BY SeqEqual DEF Text

\* A part of a part.
LEMMA PartOfPart ==
  ASSUME NEW s \in Text, NEW l \in Nat, l = Len(s), NEW j \in 0 .. l, NEW n \in 0 .. j,
         NEW k \in 0 .. j - n
  PROVE  /\ Past(SubSeq(s, n + 1, j), k) = SubSeq(s, n + k + 1, j)
         /\ SubSeq(SubSeq(s, n + 1, j), 1, k) = SubSeq(s, n + 1, n + k)
<1>1. PICK p : p = SubSeq(s, n + 1, j)
  OBVIOUS
<1>2. PICK q : q = j - n
  OBVIOUS
<1>3. q \in Nat /\ p \in Text /\ Len(p) = q /\ \A i \in 1 .. q : p[i] = s[n + i]
  <2>1. n + 1 \in 1 .. l + 1 /\ j \in (n + 1) - 1 .. l /\ j - (n + 1) + 1 = q
    BY <1>2
  <2>2. ASSUME NEW i \in 1 .. q
        PROVE  (n + 1) + i - 1 = n + i
    BY <1>2
  <2> QED BY <1>1, <1>2, <2>1, <2>2, PartIs
<1>4. Past(p, k) = SubSeq(s, n + k + 1, j)
  <2>1. k \in 0 .. q /\ q - k \in Nat
    BY <1>2
  <2>2. PICK u : u = Past(p, k)
    OBVIOUS
  <2>3. u \in Text /\ Len(u) = q - k /\ \A i \in 1 .. q - k : u[i] = p[k + i]
    BY <1>3, <2>1, <2>2, PastIs
  <2>4. n + k + 1 \in 1 .. l + 1 /\ j \in (n + k + 1) - 1 .. l /\ j - (n + k + 1) + 1 = q - k
    BY <1>2
  <2>5. PICK w : w = SubSeq(s, n + k + 1, j)
    OBVIOUS
  <2>6. w \in Text /\ Len(w) = q - k /\ \A i \in 1 .. q - k : w[i] = s[(n + k + 1) + i - 1]
    BY <2>4, <2>5, PartIs
  <2>7. ASSUME NEW i \in 1 .. q - k
        PROVE  u[i] = w[i]
    <3>1. k + i \in 1 .. q /\ n + (k + i) = (n + k + 1) + i - 1
      BY <1>2
    <3> QED BY <1>3, <2>3, <2>6, <3>1
  <2> QED BY <2>1, <2>2, <2>3, <2>5, <2>6, <2>7, SameText
<1>5. SubSeq(p, 1, k) = SubSeq(s, n + 1, n + k)
  <2>1. k \in 0 .. q
    BY <1>2
  <2>2. /\ SubSeq(p, 1, k) \in Text /\ Len(SubSeq(p, 1, k)) = k
        /\ \A i \in 1 .. k : SubSeq(p, 1, k)[i] = p[i]
    BY <1>3, <2>1, FirstIs
  <2>3. n + 1 \in 1 .. l + 1 /\ n + k \in (n + 1) - 1 .. l /\ (n + k) - (n + 1) + 1 = k
    BY <1>2
  <2>4. /\ SubSeq(s, n + 1, n + k) \in Text /\ Len(SubSeq(s, n + 1, n + k)) = k
        /\ \A i \in 1 .. k : SubSeq(s, n + 1, n + k)[i] = s[(n + 1) + i - 1]
    BY <2>3, PartIs
  <2>5. ASSUME NEW i \in 1 .. k
        PROVE  i \in 1 .. q /\ (n + 1) + i - 1 = n + i
    BY <1>2
  <2>6. k \in Nat
    OBVIOUS
  <2> QED BY <1>3, <2>2, <2>4, <2>5, <2>6, SameText
<1> QED BY <1>1, <1>4, <1>5

\* Adjacent parts.
LEMMA JoinedParts ==
  ASSUME NEW s \in Text, NEW l \in Nat, l = Len(s), NEW n \in 0 .. l, NEW j \in n .. l,
         NEW k \in j .. l
  PROVE  SubSeq(s, n + 1, j) \o SubSeq(s, j + 1, k) = SubSeq(s, n + 1, k)
<1>1. n + 1 \in 1 .. Len(s) + 1 /\ j \in (n + 1) - 1 .. Len(s) /\ k \in j .. Len(s)
  OBVIOUS
<1> QED BY <1>1, ConcatAdjacentSubSeq DEF Text

\* The first n characters taken from both sides.
Divided(i, later, line, rest, n) ==
  /\ SubSeq(i, 1, n) = SubSeq(line, 1, n)
  /\ Past(i, n) \o later = Past(line, n) \o rest
  /\ \A k \in 1 .. n : i[k] = line[k]

\* One text divided in two ways.
LEMMA TwoWays ==
  ASSUME NEW i \in Text, NEW later \in Text, NEW line \in Text, NEW rest \in Text,
         i \o later = line \o rest, NEW n \in Nat, n <= Len(i), n <= Len(line)
  PROVE  Divided(i, later, line, rest, n)
<1>1. PICK p, q, u, w : p = Len(i) /\ q = Len(later) /\ u = Len(line) /\ w = Len(rest)
  OBVIOUS
<1>2. p \in Nat /\ q \in Nat /\ u \in Nat /\ w \in Nat /\ p + q = u + w
  BY <1>1, JoinIs DEF Text
<1>3. ASSUME NEW k \in 1 .. n
      PROVE  i[k] = line[k]
  <2>1. k \in 1 .. p /\ k \in 1 .. u
    BY <1>1, <1>2
  <2> QED BY <1>1, <2>1, JoinIs
<1>4. n \in 0 .. p /\ n \in 0 .. u
  BY <1>1, <1>2
<1>5. /\ SubSeq(i, 1, n) \in Text /\ Len(SubSeq(i, 1, n)) = n
      /\ \A k \in 1 .. n : SubSeq(i, 1, n)[k] = i[k]
  BY <1>1, <1>2, <1>4, FirstIs
<1>6. /\ SubSeq(line, 1, n) \in Text /\ Len(SubSeq(line, 1, n)) = n
      /\ \A k \in 1 .. n : SubSeq(line, 1, n)[k] = line[k]
  BY <1>1, <1>2, <1>4, FirstIs
<1>7. SubSeq(i, 1, n) = SubSeq(line, 1, n)
  BY <1>3, <1>5, <1>6, SameText
<1>8. PICK x \in Text : x = SubSeq(i, 1, n)
  BY <1>5
<1>9. PICK y \in Text : y = Past(i, n)
  BY <1>1, <1>2, <1>4, PastIs
<1>10. PICK z \in Text : z = Past(line, n)
  BY <1>1, <1>2, <1>4, PastIs
<1>11. x \o y = i /\ x \o z = line
  <2>1. SubSeq(i, 1, n) \o Past(i, n) = i
    BY <1>1, <1>2, <1>4, Whole
  <2>2. SubSeq(line, 1, n) \o Past(line, n) = line
    BY <1>1, <1>2, <1>4, Whole
  <2> QED BY <1>7, <1>8, <1>9, <1>10, <2>1, <2>2, Zenon
<1>12. (x \o y) \o later = x \o (y \o later) /\ (x \o z) \o rest = x \o (z \o rest)
  <2>1. (x \o y) \o later = x \o (y \o later)
    BY Regrouped, Zenon
  <2>2. (x \o z) \o rest = x \o (z \o rest)
    BY Regrouped, Zenon
  <2> QED BY <2>1, <2>2
<1>13. x \o (y \o later) = x \o (z \o rest)
  BY <1>11, <1>12
<1>14. y \o later \in Seq(Characters) /\ z \o rest \in Seq(Characters) /\ x \in Seq(Characters)
  BY JoinIs DEF Text
<1>15. y \o later = z \o rest
  BY <1>13, <1>14, ConcatSimplifications
<1> QED BY <1>3, <1>7, <1>9, <1>10, <1>15, Zenon DEF Divided

-----------------------------------------------------------------------------
(* What every turn does.                                                   *)

\* A decoder takes n characters of its input, none only where it stops or
\* where the input of a chunk's data is used up.
Takes(c, c2, n) ==
  /\ n \in 0 .. Len(c.in)
  /\ c2 \in Decoder /\ c2.in = Past(c.in, n)
  /\ n = 0 /\ c2.verdict = "decoding" => c.stage = "data" /\ c.in = <<>>

\* To stop is to take nothing.
LEMMA Stops ==
  ASSUME NEW i \in Text, NEW b \in Text, NEW s \in Stages, NEW m \in 0 .. Modulus - 1,
         NEW v \in Verdict, v # "decoding",
         NEW c, NEW c2, c.in = i, c2 = State(i, b, s, m, v)
  PROVE  Takes(c, c2, 0)
<1>1. c2 \in Decoder /\ c2.in = i /\ c2.verdict = v
  BY StateType
<1>2. PICK l \in Nat : l = Len(i)
  BY DEF Text
<1>3. Past(i, 0) = i
  <2>1. Past(i, 0) = SubSeq(i, 0 + 1, l)
    BY <1>2 DEF Past
  <2>2. SubSeq(i, 1, l) = i
    BY <1>2, SubSeqFull DEF Text
  <2> QED BY <2>1, <2>2
<1>4. 0 \in 0 .. Len(i)
  BY <1>2
<1> QED BY <1>1, <1>3, <1>4, Zenon DEF Takes

\* To go on is to take something.
LEMMA GoesOn ==
  ASSUME NEW i \in Text, NEW b \in Text, NEW s \in Stages, NEW m \in 0 .. Modulus - 1,
         NEW v \in Verdict, NEW l \in Nat, l = Len(i), NEW n \in 1 .. l,
         NEW c, NEW c2, c.in = i, c2 = State(Past(i, n), b, s, m, v)
  PROVE  Takes(c, c2, n)
<1>1. n \in 0 .. l /\ n # 0
  OBVIOUS
<1>2. PICK x \in Text : x = Past(i, n)
  BY <1>1, PastIs
<1>3. c2 = State(x, b, s, m, v)
  BY <1>2, Zenon
<1>4. c2 \in Decoder /\ c2.in = x
  BY <1>3, StateType
<1> QED BY <1>1, <1>2, <1>4, Zenon DEF Takes

\* Where a size line is expected.
LEMMA SizeTakes ==
  ASSUME NEW c \in Decoder, c.stage = "size", c.verdict = "decoding"
  PROVE  \E n : Takes(c, Turn(c), n)
<1>1. PICK i \in Text, b \in Text, m \in 0 .. Modulus - 1 :
        c = State(i, b, "size", m, "decoding") /\ c.in = i
  BY StateIs
<1>2. "size" \in Stages /\ "data" \in Stages /\ "trailer" \in Stages
  BY DEF Stages
<1>3. /\ "malformed" \in Verdict /\ "more" \in Verdict /\ "oversize" \in Verdict
      /\ "decoding" \in Verdict
  BY DEF Verdict
<1>4. PICK l \in Nat : l = Len(i)
  BY DEF Text
<1>5. CASE LineEnds(i) = {}
  <2>1. PICK v \in Verdict : /\ v # "decoding"
                             /\ v = IF Len(i) > BlockCap THEN "malformed" ELSE "more"
    BY <1>3, Zenon
  <2>2. Turn(c) = State(i, b, "size", m, v)
    BY <1>1, <1>5, <2>1, SizeTurn
  <2>3. Takes(c, Turn(c), 0)
    BY <1>1, <1>2, <2>1, <2>2, Stops
  <2> QED BY <2>3
<1>6. CASE LineEnds(i) # {} /\ LineEnd(i) >= LineCap
  <2>1. Turn(c) = State(i, b, "size", m, "malformed")
    BY <1>1, <1>6, SizeTurn
  <2>2. Takes(c, Turn(c), 0)
    BY <1>1, <1>2, <1>3, <2>1, Stops
  <2> QED BY <2>2
<1>7. CASE LineEnds(i) # {} /\ ~(LineEnd(i) >= LineCap)
  <2>1. PICK e \in 1 .. l : e = LineEnd(i)
    BY <1>4, <1>7, LineEndIs
  <2>2. PICK size \in 0 .. Modulus - 1 : size = SizeRead(i)
    <3>1. e - 1 \in 0 .. l
      OBVIOUS
    <3>2. SubSeq(i, 1, e - 1) \in Text
      BY <1>4, <3>1, FirstIs
    <3>3. Field(SubSeq(i, 1, e - 1)) \in Text
      BY <3>2, FieldType
    <3> QED BY <2>1, <3>3, StrtoullType DEF SizeRead
  <2>3. Turn(c) = IF (Len(b) + size) % Modulus > MaxBody
                  THEN State(Past(i, e), b, "size", m, "oversize")
                  ELSE State(Past(i, e), b, IF size = 0 THEN "trailer" ELSE "data", size, "decoding")
    BY <1>1, <1>7, <2>1, <2>2, SizeTurn
  <2>4. CASE (Len(b) + size) % Modulus > MaxBody
    <3>1. Turn(c) = State(Past(i, e), b, "size", m, "oversize")
      BY <2>3, <2>4, Zenon
    <3>2. Takes(c, Turn(c), e)
      BY <1>1, <1>2, <1>3, <1>4, <3>1, GoesOn
    <3> QED BY <3>2
  <2>5. CASE ~((Len(b) + size) % Modulus > MaxBody)
    <3>1. PICK s \in Stages : s = IF size = 0 THEN "trailer" ELSE "data"
      BY <1>2
    <3>2. Turn(c) = State(Past(i, e), b, s, size, "decoding")
      BY <2>3, <2>5, <3>1, Zenon
    <3>3. Takes(c, Turn(c), e)
      BY <1>1, <1>3, <1>4, <3>2, GoesOn
    <3> QED BY <3>3
  <2> QED BY <2>4, <2>5
<1> QED BY <1>5, <1>6, <1>7

\* In a chunk.
LEMMA DataTakes ==
  ASSUME NEW c \in Decoder, c.stage = "data", c.verdict = "decoding"
  PROVE  \E n : Takes(c, Turn(c), n)
<1>1. PICK i \in Text, b \in Text, m \in 0 .. Modulus - 1 :
        c = State(i, b, "data", m, "decoding") /\ c.in = i
  BY StateIs
<1>2. "size" \in Stages /\ "data" \in Stages
  BY DEF Stages
<1>3. "malformed" \in Verdict /\ "more" \in Verdict /\ "decoding" \in Verdict
  BY DEF Verdict
<1>4. PICK l \in Nat : l = Len(i)
  BY DEF Text
<1>5. CASE m = 0
  <2>1. c = State(i, b, "data", 0, "decoding")
    BY <1>1, <1>5, Zenon
  <2>2. 0 \in 0 .. Modulus - 1
    BY Bounds
  <2>3. Turn(c) = IF Len(i) < 2 THEN State(i, b, "data", 0, "more")
                  ELSE IF StartsWithCrLf(i) THEN State(Past(i, 2), b, "size", 0, "decoding")
                  ELSE State(i, b, "data", 0, "malformed")
    BY <2>1, EndTurn, Zenon
  <2>4. CASE Len(i) < 2
    <3>1. Turn(c) = State(i, b, "data", 0, "more")
      BY <2>3, <2>4, Zenon
    <3>2. Takes(c, Turn(c), 0)
      BY <1>1, <1>2, <1>3, <2>2, <3>1, Stops
    <3> QED BY <3>2
  <2>5. CASE ~(Len(i) < 2) /\ StartsWithCrLf(i)
    <3>1. Turn(c) = State(Past(i, 2), b, "size", 0, "decoding")
      BY <2>3, <2>5, Zenon
    <3>2. 2 \in 1 .. l
      BY <1>4, <2>5
    <3>3. Takes(c, Turn(c), 2)
      BY <1>1, <1>2, <1>3, <1>4, <2>2, <3>1, <3>2, GoesOn
    <3> QED BY <3>3
  <2>6. CASE ~(Len(i) < 2) /\ ~StartsWithCrLf(i)
    <3>1. Turn(c) = State(i, b, "data", 0, "malformed")
      BY <2>3, <2>6, Zenon
    <3>2. Takes(c, Turn(c), 0)
      BY <1>1, <1>2, <1>3, <2>2, <3>1, Stops
    <3> QED BY <3>2
  <2> QED BY <2>4, <2>5, <2>6
<1>6. CASE m # 0
  <2>1. PICK t : t = IF m > Len(i) THEN Len(i) ELSE m
    OBVIOUS
  <2>2. t \in 0 .. l /\ m - t \in 0 .. Modulus - 1 /\ (t = 0 => l = 0)
    BY <1>4, <1>6, <2>1, Bounds
  <2>3. Turn(c) = State(Past(i, t), b \o SubSeq(i, 1, t), "data", m - t, "decoding")
    BY <1>1, <1>6, <2>1, DataTurn
  <2>4. PICK x \in Text : x = Past(i, t)
    BY <1>4, <2>2, PastIs
  <2>5. PICK y \in Text : y = b \o SubSeq(i, 1, t)
    <3>1. SubSeq(i, 1, t) \in Text
      BY <1>4, <2>2, FirstIs
    <3> QED BY <3>1, JoinIs
  <2>6. Turn(c) = State(x, y, "data", m - t, "decoding")
    BY <2>3, <2>4, <2>5, Zenon
  <2>7. Turn(c) \in Decoder /\ Turn(c).in = x
    BY <1>2, <1>3, <2>2, <2>6, StateType
  <2>8. t = 0 => i = <<>>
    BY <1>4, <2>2, EmptySeq DEF Text
  <2>9. c.stage = "data"
    OBVIOUS
  <2>10. Takes(c, Turn(c), t)
    BY <1>1, <1>4, <2>2, <2>4, <2>7, <2>8, <2>9, Zenon DEF Takes
  <2> QED BY <2>10
<1> QED BY <1>5, <1>6

\* In the trailer.
LEMMA TrailerTakes ==
  ASSUME NEW c \in Decoder, c.stage = "trailer", c.verdict = "decoding"
  PROVE  \E n : Takes(c, Turn(c), n)
<1>1. PICK i \in Text, b \in Text, m \in 0 .. Modulus - 1 :
        c = State(i, b, "trailer", m, "decoding") /\ c.in = i
  BY StateIs
<1>2. "trailer" \in Stages
  BY DEF Stages
<1>3. /\ "malformed" \in Verdict /\ "more" \in Verdict /\ "done" \in Verdict
      /\ "decoding" \in Verdict
  BY DEF Verdict
<1>4. PICK l \in Nat : l = Len(i)
  BY DEF Text
<1>5. Turn(c) =
        IF i = <<>> THEN State(i, b, "trailer", m, "more")
        ELSE IF StartsWithCrLf(i) THEN State(Past(i, 2), b, "trailer", m, "done")
        ELSE IF LineEnds(i) = {}
        THEN State(i, b, "trailer", m, IF Len(i) > BlockCap THEN "malformed" ELSE "more")
        ELSE State(Past(i, LineEnd(i)), b, "trailer", m, "decoding")
  BY <1>1, TrailerTurn
<1>6. CASE i = <<>>
  <2>1. Turn(c) = State(i, b, "trailer", m, "more")
    BY <1>5, <1>6, Zenon
  <2>2. Takes(c, Turn(c), 0)
    BY <1>1, <1>2, <1>3, <2>1, Stops
  <2> QED BY <2>2
<1>7. CASE i # <<>> /\ StartsWithCrLf(i)
  <2>1. Turn(c) = State(Past(i, 2), b, "trailer", m, "done")
    BY <1>5, <1>7, Zenon
  <2>2. 2 \in 1 .. l
    BY <1>4, <1>7 DEF StartsWithCrLf
  <2>3. Takes(c, Turn(c), 2)
    BY <1>1, <1>2, <1>3, <1>4, <2>1, <2>2, GoesOn
  <2> QED BY <2>3
<1>8. CASE i # <<>> /\ ~StartsWithCrLf(i) /\ LineEnds(i) = {}
  <2>1. PICK v \in Verdict : /\ v # "decoding"
                             /\ v = IF Len(i) > BlockCap THEN "malformed" ELSE "more"
    BY <1>3, Zenon
  <2>2. Turn(c) = State(i, b, "trailer", m, v)
    BY <1>5, <1>8, <2>1, Zenon
  <2>3. Takes(c, Turn(c), 0)
    BY <1>1, <1>2, <2>1, <2>2, Stops
  <2> QED BY <2>3
<1>9. CASE i # <<>> /\ ~StartsWithCrLf(i) /\ LineEnds(i) # {}
  <2>1. PICK e \in 1 .. l : e = LineEnd(i)
    BY <1>4, <1>9, LineEndIs
  <2>2. Turn(c) = State(Past(i, e), b, "trailer", m, "decoding")
    BY <1>5, <1>9, <2>1, Zenon
  <2>3. Takes(c, Turn(c), e)
    BY <1>1, <1>2, <1>3, <1>4, <2>2, GoesOn
  <2> QED BY <2>3
<1> QED BY <1>6, <1>7, <1>8, <1>9

\* Wherever the decoder is.
LEMMA TurnTakes ==
  ASSUME NEW c \in Decoder, c.verdict = "decoding"
  PROVE  \E n : Takes(c, Turn(c), n)
<1>1. c.stage \in {"size", "data", "trailer"}
  BY DEF Decoder, Stages
<1> QED BY <1>1, SizeTakes, DataTakes, TrailerTakes

-----------------------------------------------------------------------------
(* Types.                                                                  *)

\* The input is the part of the message that was received and not yet taken.
TypeInv ==
  /\ msg \in Messages /\ d \in Decoder
  /\ sent \in 0 .. Len(msg.bytes)
  /\ \E n \in 0 .. sent : d.in = SubSeq(msg.bytes, n + 1, sent)

\* What clients send.
LEMMA MessageIs ==
  ASSUME NEW m \in Messages
  PROVE  /\ m.bytes \in Text /\ m.body \in Text /\ m.rest \in Text
         /\ m.kind \in {"good", "malformed", "huge"}
         /\ m.kind = "good" => WellFormed(m)
         /\ m.kind = "malformed" => SmallSizes(m)
<1>1. /\ m \in Message
      /\ m.kind = "good" => WellFormed(m)
      /\ m.kind = "malformed" => SmallSizes(m)
  BY MessagesAssumption, Zenon
<1> QED BY <1>1 DEF Message

\* begin_body.
LEMMA StartType ==
  /\ Start \in Decoder
  /\ Start = State(<<>>, <<>>, "size", 0, "more")
<1>1. Start = State(<<>>, <<>>, "size", 0, "more")
  BY DEF Start, State
<1>2. <<>> \in Text
  BY DEF Text
<1>3. "size" \in Stages /\ "more" \in Verdict /\ 0 \in 0 .. Modulus - 1
  BY Bounds DEF Stages, Verdict
<1> QED BY <1>1, <1>2, <1>3, StateType

\* The decoder takes a part of its input.
LEMMA DecodeTypes ==
  ASSUME TypeInv, Decode
  PROVE  TypeInv'
<1>1. msg \in Messages /\ d \in Decoder /\ d.verdict = "decoding" /\ d' = Turn(d)
  BY DEF TypeInv, Decode
<1>2. PICK bytes \in Text, l \in Nat : bytes = msg.bytes /\ l = Len(bytes)
  BY <1>1, MessageIs DEF Text
<1>3. sent \in 0 .. l /\ msg' = msg /\ sent' = sent
  BY <1>2 DEF TypeInv, Decode
<1>4. PICK n \in 0 .. sent : d.in = SubSeq(bytes, n + 1, sent)
  BY <1>2 DEF TypeInv
<1>5. PICK k : Takes(d, d', k)
  BY <1>1, TurnTakes
<1>6. d' \in Decoder /\ k \in 0 .. Len(d.in) /\ d'.in = Past(d.in, k)
  BY <1>5 DEF Takes
<1>7. Len(d.in) = sent - n
  <2>1. n + 1 \in 1 .. l + 1 /\ sent \in (n + 1) - 1 .. l /\ sent - (n + 1) + 1 = sent - n
    BY <1>3
  <2> QED BY <1>2, <1>4, <2>1, PartIs
<1>8. k \in 0 .. sent - n /\ n + k \in 0 .. sent
  BY <1>3, <1>6, <1>7
<1>9. d'.in = SubSeq(bytes, n + k + 1, sent)
  BY <1>2, <1>3, <1>4, <1>6, <1>8, PartOfPart
<1>10. d'.in = SubSeq(msg'.bytes, (n + k) + 1, sent')
  BY <1>2, <1>3, <1>9
<1>11. sent' \in 0 .. Len(msg'.bytes)
  BY <1>2, <1>3
<1> QED BY <1>1, <1>3, <1>6, <1>8, <1>10, <1>11 DEF TypeInv

\* What is received is the next part of the message.
LEMMA Received ==
  ASSUME TypeInv, Receive
  PROVE  \E s \in sent + 1 .. Len(msg.bytes) :
           /\ sent' = s /\ msg' = msg /\ d.verdict = "more"
           /\ d' = State(d.in \o SubSeq(msg.bytes, sent + 1, s), d.body, d.stage, d.rem, "decoding")
<1>1. d \in Decoder
  BY DEF TypeInv
<1>2. PICK s \in sent + 1 .. Len(msg.bytes) :
        /\ sent' = s /\ msg' = msg /\ d.verdict = "more"
        /\ d' = [d EXCEPT !.in = @ \o SubSeq(msg.bytes, sent + 1, s), !.verdict = "decoding"]
  BY DEF Receive
<1>3. d' = Fed(d, SubSeq(msg.bytes, sent + 1, s), "decoding")
  BY <1>2, Zenon DEF Fed
<1>4. d = State(d.in, d.body, d.stage, d.rem, d.verdict)
  BY <1>1, StateIs
<1>5. d' = State(d.in \o SubSeq(msg.bytes, sent + 1, s), d.body, d.stage, d.rem, "decoding")
  BY <1>3, <1>4, ReceivedIs
<1> QED BY <1>2, <1>5

\* And behind the input it has.
LEMMA ReceiveTypes ==
  ASSUME TypeInv, Receive
  PROVE  TypeInv'
<1>1. msg \in Messages /\ d \in Decoder
  BY DEF TypeInv
<1>2. PICK bytes \in Text, l \in Nat : bytes = msg.bytes /\ l = Len(bytes)
  BY <1>1, MessageIs DEF Text
<1>3. sent \in 0 .. l
  BY <1>2 DEF TypeInv
<1>4. PICK n \in 0 .. sent : d.in = SubSeq(bytes, n + 1, sent)
  BY <1>2 DEF TypeInv
<1>5. PICK s \in sent + 1 .. l :
        /\ sent' = s /\ msg' = msg
        /\ d' = State(d.in \o SubSeq(bytes, sent + 1, s), d.body, d.stage, d.rem, "decoding")
  BY <1>2, Received
<1>6. d.in \o SubSeq(bytes, sent + 1, s) = SubSeq(bytes, n + 1, s)
  <2>1. n \in 0 .. l /\ sent \in n .. l /\ s \in sent .. l
    BY <1>3, <1>5
  <2> QED BY <1>2, <1>4, <2>1, JoinedParts
<1>7. PICK x \in Text : x = SubSeq(bytes, n + 1, s)
  <2>1. n + 1 \in 1 .. l + 1 /\ s \in (n + 1) - 1 .. l
    BY <1>3, <1>5
  <2> QED BY <1>2, <2>1, PartIs
<1>8. d' = State(x, d.body, d.stage, d.rem, "decoding")
  BY <1>5, <1>6, <1>7, Zenon
<1>9. d' \in Decoder /\ d'.in = x
  <2>1. d.body \in Text /\ d.stage \in Stages /\ d.rem \in 0 .. Modulus - 1
    BY <1>1, StateIs
  <2>2. "decoding" \in Verdict
    BY DEF Verdict
  <2> QED BY <1>8, <2>1, <2>2, StateType
<1>10. n \in 0 .. sent' /\ sent' \in 0 .. Len(msg'.bytes)
  BY <1>2, <1>3, <1>5
<1>11. d'.in = SubSeq(msg'.bytes, n + 1, sent')
  BY <1>2, <1>5, <1>7, <1>9
<1> QED BY <1>1, <1>5, <1>9, <1>10, <1>11 DEF TypeInv

\* Nothing has been received at first.
LEMMA FirstTypes == Init => TypeInv
<1> SUFFICES ASSUME Init PROVE TypeInv
  OBVIOUS
<1>1. msg \in Messages /\ sent = 0 /\ d = Start
  BY DEF Init
<1>2. PICK bytes \in Text, l \in Nat : bytes = msg.bytes /\ l = Len(bytes)
  BY <1>1, MessageIs DEF Text
<1>3. d \in Decoder /\ d.in = <<>>
  BY <1>1, StartType DEF Start
<1>4. SubSeq(bytes, 0 + 1, 0) = <<>>
  BY SubSeqEmpty
<1>5. 0 \in 0 .. sent /\ d.in = SubSeq(msg.bytes, 0 + 1, sent) /\ sent \in 0 .. Len(msg.bytes)
  BY <1>1, <1>2, <1>3, <1>4
<1> QED BY <1>1, <1>3, <1>5 DEF TypeInv

\* The types hold in every behaviour.
LEMMA Types == Spec => []TypeInv
<1>1. TypeInv /\ [Next]_vars => TypeInv'
  <2> SUFFICES ASSUME TypeInv, [Next]_vars PROVE TypeInv'
    OBVIOUS
  <2>1. CASE Receive
    BY <2>1, ReceiveTypes
  <2>2. CASE Decode
    BY <2>2, DecodeTypes
  <2>3. CASE UNCHANGED vars
    BY <2>3 DEF TypeInv, vars
  <2> QED BY <2>1, <2>2, <2>3 DEF Next
<1> QED BY <1>1, FirstTypes, PTL DEF Spec

(***************************************************************************)
(* Every variable keeps its type, and the decoder's buffer holds a part of *)
(* the message that ends where the last piece ended.                       *)
(***************************************************************************)
THEOREM ChunkTypes == Spec => []TypeOK
<1>1. TypeInv => TypeOK
  BY DEF TypeInv, TypeOK, Decoder, Stages
<1> QED BY <1>1, Types, PTL

(***************************************************************************)
(* A turn that changes nothing, which the loop then takes for ever, is     *)
(* taken nowhere but in the middle of a chunk's data, its input used up.   *)
(***************************************************************************)
THEOREM OnlyDataSpins == Spec => []SpinsOnlyInData
<1>1. TypeInv => SpinsOnlyInData
  <2> SUFFICES ASSUME TypeInv, d.verdict = "decoding", Turn(d) = d
               PROVE  d.stage = "data" /\ d.in = <<>>
    BY DEF SpinsOnlyInData
  <2>1. d \in Decoder
    BY DEF TypeInv
  <2>2. PICK n : Takes(d, Turn(d), n)
    BY <2>1, TurnTakes
  <2>3. PICK i \in Text, l \in Nat : i = d.in /\ l = Len(i)
    BY <2>1, StateIs DEF Text
  <2>4. n \in 0 .. l /\ i = Past(i, n)
    BY <2>2, <2>3 DEF Takes
  <2>5. Len(Past(i, n)) = l - n
    BY <2>3, <2>4, PastIs
  <2>6. n = 0
    BY <2>3, <2>4, <2>5
  <2> QED BY <2>2, <2>6 DEF Takes
<1> QED BY <1>1, Types, PTL

-----------------------------------------------------------------------------
(* Lines, wherever the input is cut.                                       *)

\* All of a text but nothing.
LEMMA AllOfIt ==
  ASSUME NEW s \in Text, NEW l \in Nat, l = Len(s)
  PROVE  Past(s, l) = <<>> /\ Past(s, 0) = s
<1>1. Past(s, l) = <<>>
  <2>1. l + 1 \in Int /\ l \in Int /\ l < l + 1
    OBVIOUS
  <2> QED BY <2>1, SubSeqEmpty DEF Past
<1>2. Past(s, 0) = s
  <2>1. Past(s, 0) = SubSeq(s, 0 + 1, l)
    BY DEF Past
  <2> QED BY <2>1, SubSeqFull DEF Text
<1> QED BY <1>1, <1>2

\* Nothing before a text, and nothing behind it.
LEMMA NothingAdded ==
  ASSUME NEW s \in Text
  PROVE  <<>> \o s = s /\ s \o <<>> = s /\ <<>> \in Text
  BY ConcatEmptySeq, EmptySeq DEF Text

\* What an input has of a line, and what is left of it.
CutsOff(i, later, line, rest, u) ==
  /\ LineEnds(i) = {} => Len(i) < u
  /\ LineEnds(i) # {} =>
       /\ u \in 1 .. Len(i) /\ LineEnd(i) = u
       /\ SubSeq(i, 1, u - 1) = SubSeq(line, 1, u - 1)
       /\ Past(i, u) \o later = rest

\* A line that comes first is cut off whole, or has not all come yet.
LEMMA LineOf ==
  ASSUME NEW i \in Text, NEW later \in Text, NEW line \in Text, NEW rest \in Text,
         i \o later = line \o rest, NEW u \in Nat, u = Len(line), LineEnds(line) = {u}
  PROVE  CutsOff(i, later, line, rest, u)
<1> USE DEF CutsOff
<1>1. PICK p \in Nat : p = Len(i)
  BY DEF Text
<1>2. u \in 1 .. u /\ line[u] = "lf" /\ \A k \in 1 .. u : line[k] = "lf" => k = u
  BY DEF LineEnds
<1>3. CASE p < u
  <2>1. LineEnds(i) = {}
    <3> SUFFICES ASSUME NEW e \in 1 .. p, i[e] = "lf" PROVE FALSE
      BY <1>1 DEF LineEnds
    <3>1. \A k \in 1 .. p : i[k] = line[k]
      <4>1. p <= Len(i) /\ p <= Len(line)
        BY <1>1, <1>3
      <4>2. Divided(i, later, line, rest, p)
        BY <4>1, TwoWays
      <4> QED BY <4>2 DEF Divided
    <3>2. e \in 1 .. u /\ e # u
      BY <1>3
    <3> QED BY <1>2, <3>1, <3>2
  <2> QED BY <1>1, <1>3, <2>1
<1>4. CASE ~(p < u)
  <2>1. u <= Len(i) /\ u <= Len(line) /\ u \in 1 .. p
    BY <1>1, <1>2, <1>4
  <2>2. Past(i, u) \o later = Past(line, u) \o rest /\ \A k \in 1 .. u : i[k] = line[k]
    <3>1. Divided(i, later, line, rest, u)
      BY <2>1, TwoWays
    <3> QED BY <3>1, Zenon DEF Divided
  <2>3. Past(i, u) \o later = rest
    BY <2>2, AllOfIt, NothingAdded
  <2>4. u \in LineEnds(i)
    BY <1>1, <1>2, <2>1, <2>2 DEF LineEnds
  <2>5. PICK e : e = LineEnd(i)
    OBVIOUS
  <2>6. e \in 1 .. p /\ i[e] = "lf" /\ \A k \in 1 .. e - 1 : i[k] # "lf"
    BY <1>1, <2>4, <2>5, LineEndIs
  <2>7. e = u
    <3>1. ~(u < e)
      <4>1. u < e => u \in 1 .. e - 1
        BY <2>1, <2>6
      <4> QED BY <1>2, <2>2, <2>6, <4>1
    <3>2. ~(e < u)
      <4>1. e < u => e \in 1 .. u
        BY <2>6
      <4> QED BY <1>2, <2>2, <2>6, <4>1
    <3> QED BY <2>6, <3>1, <3>2
  <2>8. SubSeq(i, 1, u - 1) = SubSeq(line, 1, u - 1)
    <3>1. u - 1 \in Nat /\ u - 1 <= Len(i) /\ u - 1 <= Len(line)
      BY <1>1, <2>1
    <3>2. Divided(i, later, line, rest, u - 1)
      BY <3>1, TwoWays
    <3> QED BY <3>2, Zenon DEF Divided
  <2> QED BY <1>1, <2>1, <2>3, <2>4, <2>5, <2>7, <2>8
<1> QED BY <1>3, <1>4

\* The CR LF between the parts.
LEMMA CrLfIs ==
  CrLf \in Text /\ Len(CrLf) = 2 /\ CrLf[1] = "cr" /\ CrLf[2] = "lf"
<1>1. CrLf \in Text
  <2>1. ASSUME NEW x \in Characters, NEW y \in Characters
        PROVE  <<x, y>> \in Seq(Characters)
    OBVIOUS
  <2> QED BY <2>1, LineEndCharacters DEF CrLf, Text
<1>2. Len(CrLf) = 2
  BY DEF CrLf
<1>3. CrLf[1] = "cr" /\ CrLf[2] = "lf"
  BY DEF CrLf
<1> QED BY <1>1, <1>2, <1>3

\* And nothing else is.
LEMMA CrLfOnly ==
  ASSUME NEW s \in Text, Len(s) = 2, s[1] = "cr", s[2] = "lf"
  PROVE  s = CrLf
<1>1. PICK t \in Text : t = CrLf
  BY CrLfIs
<1>2. PICK l \in Nat : l = 2
  OBVIOUS
<1>3. l = Len(s) /\ l = Len(t) /\ t[1] = "cr" /\ t[2] = "lf"
  BY <1>1, <1>2, CrLfIs
<1>4. \A k \in 1 .. l : s[k] = t[k]
  <2>1. \A k \in 1 .. l : k = 1 \/ k = 2
    BY <1>2
  <2> QED BY <1>3, <2>1
<1>5. s = t
  BY <1>3, <1>4, SameText
<1> QED BY <1>1, <1>5

\* Digits that end are read for what they stand for.
LEMMA ReadDigits ==
  ASSUME NEW f \in Text, NEW digits \in Text, NEW a \in Nat, a = Len(digits), a # 0,
         NEW l \in Nat, l = Len(f), a <= l,
         \A k \in 1 .. a : IsDigit(digits[k]) /\ f[k] = digits[k],
         a # l => ~IsDigit(f[a + 1]),
         Value(digits) < Modulus
  PROVE  Strtoull(f) = Value(digits)
<1>1. 1 \in 1 .. a /\ 1 \in 1 .. l /\ f # <<>>
  OBVIOUS
<1>2. f[1] # "-"
  BY <1>1, DigitsBounds
<1> DEFINE at == {k \in 1 .. Len(f) : ~IsDigit(f[k])}
<1>3. PICK n \in 0 .. l :
        /\ Before(f, at) = SubSeq(f, 1, n)
        /\ \A k \in 1 .. n : k \notin at
        /\ n # l => n + 1 \in at
  <2>1. at \in SUBSET (1 .. Len(f))
    OBVIOUS
  <2> HIDE DEF at
  <2> QED BY <2>1, BeforeIs
<1>4. n = a
  <2>1. ~(n < a)
    <3>1. n < a => n + 1 \in 1 .. a /\ n # l
      OBVIOUS
    <3>2. n < a => n + 1 \in at
      BY <1>3, <3>1
    <3>3. n < a => ~IsDigit(f[n + 1])
      BY <3>2
    <3> QED BY <3>1, <3>3
  <2>2. ~(a < n)
    <3>1. a < n => a + 1 \in 1 .. n /\ a + 1 \in 1 .. l /\ a # l
      OBVIOUS
    <3>2. a < n => a + 1 \in at
      BY <3>1
    <3> QED BY <1>3, <3>1, <3>2
  <2> HIDE DEF at
  <2> QED BY <2>1, <2>2
<1>5. Numeral(f) = SubSeq(f, 1, a)
  <2>1. Numeral(f) = Before(f, at)
    BY Zenon DEF Numeral
  <2> HIDE DEF at
  <2> QED BY <1>3, <1>4, <2>1
<1>6. SubSeq(f, 1, a) = digits
  <2>1. a \in 0 .. l
    OBVIOUS
  <2>2. PICK t : t = SubSeq(f, 1, a)
    OBVIOUS
  <2>3. t \in Text /\ Len(t) = a /\ \A k \in 1 .. a : t[k] = f[k]
    BY <2>1, <2>2, FirstIs
  <2>4. \A k \in 1 .. a : t[k] = digits[k]
    BY <2>3
  <2> QED BY <2>2, <2>3, <2>4, SameText
<1>7. Value(digits) \in Nat
  <2>1. \A k \in 1 .. a : Digits[digits[k]] \in 0 .. 15
    BY DigitsBounds
  <2> QED BY <2>1, ValueType
<1>8. PICK v \in Nat : v = Value(digits)
  BY <1>7
<1>9. ~(v >= Modulus)
  BY <1>8, Bounds
<1>10. Value(Numeral(f)) = v
  BY <1>5, <1>6, <1>8, Zenon
<1> QED BY <1>2, <1>8, <1>9, <1>10, Zenon DEF Strtoull

\* A line with a size in it.
HasSize(line, n) ==
  /\ line \in Text /\ Len(line) \in Nat /\ Len(line) < LineCap
  /\ LineEnds(line) = {Len(line)}
  /\ Strtoull(Field(SubSeq(line, 1, Len(line) - 1))) = n

\* What is read from a size line, without its line end.
LEMMA SizeLineText ==
  ASSUME NEW chunk, chunk.size \in Text, chunk.ext \in Text, NEW n, IsSizeLine(chunk, n),
         n < Modulus
  PROVE  HasSize(SizeText(chunk), n)
<1>1. PICK size \in Text, ext \in Text : size = chunk.size /\ ext = chunk.ext
  OBVIOUS
<1>2. PICK a \in Nat, b \in Nat : a = Len(size) /\ b = Len(ext)
  BY DEF Text
<1>3. /\ size # <<>> /\ \A k \in 1 .. a : IsDigit(size[k])
      /\ Value(size) = n
      /\ ext # <<>> => ext[1] = ";"
      /\ LineEnds(ext) = {}
      /\ Len(SizeText(chunk)) < LineCap
  BY <1>1, <1>2, Zenon DEF IsSizeLine
<1>4. a # 0 /\ (b = 0 => ext = <<>>) /\ (b # 0 => ext[1] = ";")
  <2>1. (a = 0 => size = <<>>) /\ (b = 0 => ext = <<>>)
    BY <1>2, EmptySeq DEF Text
  <2>2. b # 0 => ext # <<>>
    BY <1>2, EmptySeq DEF Text
  <2> QED BY <1>3, <2>1, <2>2
<1>5. PICK field \in Text : field = size \o ext
  BY JoinIs
<1>6. /\ Len(field) = a + b /\ \A k \in 1 .. a : field[k] = size[k]
      /\ \A k \in 1 .. b : field[a + k] = ext[k]
  BY <1>2, <1>5, JoinIs
<1>7. PICK line \in Text : line = SizeText(chunk)
  <2>1. field \o CrLf \in Text
    BY CrLfIs, JoinIs
  <2> QED BY <1>1, <1>5, <2>1 DEF SizeText
<1>8. line = field \o CrLf
  BY <1>1, <1>5, <1>7, Zenon DEF SizeText
<1>9. PICK l \in Nat : l = a + b + 2
  OBVIOUS
<1>10. /\ Len(line) = l /\ \A k \in 1 .. a + b : line[k] = field[k]
       /\ line[l - 1] = "cr" /\ line[l] = "lf"
  <2>1. /\ Len(line) = Len(field) + Len(CrLf) /\ \A k \in 1 .. Len(field) : line[k] = field[k]
        /\ \A k \in 1 .. Len(CrLf) : line[Len(field) + k] = CrLf[k]
    <3>1. CrLf \in Text
      BY CrLfIs
    <3> QED BY <1>8, <3>1, JoinIs
  <2>2. 1 \in 1 .. 2 /\ 2 \in 1 .. 2 /\ (a + b) + 1 = l - 1 /\ (a + b) + 2 = l
    BY <1>9
  <2>3. line[(a + b) + 1] = CrLf[1] /\ line[(a + b) + 2] = CrLf[2]
    BY <1>6, <2>1, <2>2, CrLfIs
  <2> QED BY <1>6, <1>9, <2>1, <2>2, <2>3, CrLfIs
<1>11. ASSUME NEW k \in 1 .. a
       PROVE  line[k] = size[k] /\ IsDigit(size[k]) /\ line[k] # "lf" /\ line[k] # ";"
  <2>1. k \in 1 .. a + b
    OBVIOUS
  <2>2. line[k] = size[k]
    BY <1>6, <1>10, <2>1
  <2> QED BY <1>3, <2>2, DigitsBounds
<1>12. ASSUME NEW k \in 1 .. b
       PROVE  line[a + k] = ext[k] /\ line[a + k] # "lf"
  <2>1. a + k \in 1 .. a + b
    OBVIOUS
  <2>2. line[a + k] = ext[k]
    BY <1>6, <1>10, <2>1
  <2>3. ext[k] # "lf"
    BY <1>2, <1>3 DEF LineEnds
  <2> QED BY <2>2, <2>3
<1>13. LineEnds(line) = {l}
  <2>1. ASSUME NEW k \in 1 .. l, line[k] = "lf"
        PROVE  k = l
    <3>1. CASE k \in 1 .. a
      BY <1>11, <2>1, <3>1
    <3>2. CASE k \in a + 1 .. a + b
      <4>1. k - a \in 1 .. b /\ a + (k - a) = k
        BY <3>2
      <4> QED BY <1>12, <2>1, <4>1
    <3>3. CASE k = l - 1
      BY <1>10, <2>1, <3>3
    <3> QED BY <1>9, <3>1, <3>2, <3>3
  <2>2. l \in 1 .. l
    BY <1>9
  <2> QED BY <1>10, <2>1, <2>2 DEF LineEnds
<1>14. PICK t : t = SubSeq(line, 1, l - 1)
  OBVIOUS
<1>15. t \in Text /\ Len(t) = l - 1 /\ \A k \in 1 .. l - 1 : t[k] = line[k]
  <2>1. l - 1 \in 0 .. l
    BY <1>9
  <2> QED BY <1>10, <1>14, <2>1, FirstIs
<1> DEFINE at == {k \in 1 .. Len(t) : t[k] = ";"}
<1>16. PICK p \in 0 .. l - 1 :
         /\ Before(t, at) = SubSeq(t, 1, p)
         /\ \A k \in 1 .. p : k \notin at
         /\ p # l - 1 => p + 1 \in at
  <2>1. at \in SUBSET (1 .. Len(t))
    OBVIOUS
  <2> HIDE DEF at
  <2>2. PICK p \in 0 .. Len(t) :
          /\ Before(t, at) = SubSeq(t, 1, p)
          /\ \A k \in 1 .. p : k \notin at
          /\ p # Len(t) => p + 1 \in at
    BY <1>15, <2>1, BeforeIs
  <2> QED BY <1>15, <2>2
<1>17. a <= p /\ (p # a => b = 0 /\ p = a + 1)
  <2>1. ~(p < a)
    <3> SUFFICES ASSUME p < a PROVE FALSE
      OBVIOUS
    <3>1. p + 1 \in 1 .. a /\ p + 1 \in 1 .. l - 1 /\ p # l - 1
      BY <1>9
    <3>2. p + 1 \in at
      BY <1>16, <3>1
    <3>3. t[p + 1] = ";"
      BY <3>2
    <3> QED BY <1>11, <1>15, <3>1, <3>3
  <2>2. b # 0 => p = a
    <3> SUFFICES ASSUME b # 0, p # a PROVE FALSE
      OBVIOUS
    <3>1. a + 1 \in 1 .. p /\ a + 1 \in 1 .. l - 1 /\ 1 \in 1 .. b
      BY <1>9, <2>1
    <3>2. t[a + 1] = ";"
      BY <1>4, <1>12, <1>15, <3>1
    <3>3. a + 1 \in at
      BY <1>15, <3>1, <3>2
    <3> QED BY <1>16, <3>1, <3>3
  <2>3. b = 0 => p \in {a, a + 1}
    BY <1>9, <2>1
  <2> QED BY <2>1, <2>2, <2>3
<1>18. PICK f : f = SubSeq(t, 1, p)
  OBVIOUS
<1>19. f \in Text /\ Len(f) = p /\ \A k \in 1 .. p : f[k] = t[k]
  <2>1. l - 1 \in Nat
    BY <1>9
  <2> QED BY <1>15, <1>18, <2>1, FirstIs
<1>20. Field(t) = f
  <2>1. Field(t) = Before(t, at)
    BY Zenon DEF Field
  <2> HIDE DEF at
  <2> QED BY <1>16, <1>18, <2>1
<1>21. ASSUME NEW k \in 1 .. a
       PROVE  IsDigit(size[k]) /\ f[k] = size[k]
  <2>1. k \in 1 .. p /\ k \in 1 .. l - 1
    BY <1>9, <1>17
  <2> QED BY <1>11, <1>15, <1>19, <2>1
<1>22. a # p => ~IsDigit(f[a + 1])
  <2> SUFFICES ASSUME a # p PROVE ~IsDigit(f[a + 1])
    OBVIOUS
  <2>1. b = 0 /\ p = a + 1 /\ a + 1 = l - 1 /\ a + 1 \in 1 .. p
    BY <1>9, <1>17
  <2>2. f[a + 1] = "cr"
    BY <1>10, <1>15, <1>19, <2>1
  <2> QED BY <2>2, DigitsBounds
<1>23. Strtoull(f) = n
  <2>1. p \in Nat /\ a <= p
    BY <1>17
  <2>2. Value(size) < Modulus
    BY <1>3
  <2>3. Strtoull(f) = Value(size)
    BY <1>2, <1>4, <1>19, <1>21, <1>22, <2>1, <2>2, ReadDigits
  <2> QED BY <1>3, <2>3
<1> HIDE DEF at
<1>24. Len(line) \in Nat /\ Len(line) < LineCap
  BY <1>3, <1>7, <1>10
<1>25. LineEnds(line) = {Len(line)}
  BY <1>10, <1>13
<1>26. Strtoull(Field(SubSeq(line, 1, Len(line) - 1))) = n
  BY <1>10, <1>14, <1>20, <1>23, Zenon
<1> QED BY <1>7, <1>24, <1>25, <1>26, Zenon DEF HasSize

-----------------------------------------------------------------------------
(* The parts of a well-formed message.                                     *)

\* Texts that are joined from some piece on are texts.
LEMMA OnwardType ==
  ASSUME NEW pieces, NEW end \in Text, NEW n \in Nat, n = Len(pieces),
         \A k \in 1 .. n : pieces[k] \in Text
  PROVE  \A k \in 1 .. n + 1 : Onward(pieces, end)[k] \in Text
<1>1. PICK f : f = Onward(pieces, end)
  OBVIOUS
<1>2. f[n + 1] = end /\ \A k \in 1 .. n : f[k] = pieces[k] \o f[k + 1]
  <2>1. Links(Onward(pieces, end), pieces, end, n)
    BY <1>1, OnwardIs
  <2>2. Links(f, pieces, end, n)
    BY <1>1, <2>1, Zenon
  <2> QED BY <2>2, Zenon DEF Links
<1> DEFINE B == {k \in 1 .. n + 1 : f[k] \in Text}
<1>3. n + 1 \in B
  BY <1>2
<1>4. ASSUME NEW k \in 1 .. n, k + 1 \in B
      PROVE  k \in B
  <2>1. f[k + 1] \in Text /\ pieces[k] \in Text
    BY <1>4
  <2>2. pieces[k] \o f[k + 1] \in Text
    BY <2>1, JoinIs
  <2>3. k \in 1 .. n + 1
    OBVIOUS
  <2>4. f[k] = pieces[k] \o f[k + 1]
    BY <1>2, Zenon
  <2> QED BY <2>2, <2>3, <2>4, Zenon
<1>5. \A k \in 1 .. n + 1 : k \in B
  <2>1. \A k \in 1 .. n : k + 1 \in B => k \in B
    BY <1>4, Zenon
  <2> HIDE DEF B
  <2> QED BY <1>3, <2>1, Downwards, Zenon
<1> QED BY <1>1, <1>5

\* The types of the parts.
LEMMA PartsType ==
  ASSUME NEW m \in Messages
  PROVE  /\ Len(m.chunks) \in Nat /\ Len(m.trailer) \in Nat
         /\ \A k \in 1 .. Len(m.chunks) :
              m.chunks[k].size \in Text /\ m.chunks[k].ext \in Text /\ m.chunks[k].data \in Text
         /\ m.last.size \in Text /\ m.last.ext \in Text
         /\ \A k \in 1 .. Len(m.trailer) : m.trailer[k] \in Text
<1>1. m \in Message
  BY MessagesAssumption, Zenon
<1>2. /\ m.chunks \in Seq([size : Text, ext : Text, data : Text])
      /\ m.last \in [size : Text, ext : Text]
      /\ m.trailer \in Seq(Text)
  BY <1>1 DEF Message
<1> HIDE DEF Text
<1>3. Len(m.chunks) \in Nat /\ Len(m.trailer) \in Nat
  BY <1>2, LenProperties
<1>4. ASSUME NEW k \in 1 .. Len(m.chunks)
      PROVE  m.chunks[k].size \in Text /\ m.chunks[k].ext \in Text /\ m.chunks[k].data \in Text
  <2>1. m.chunks[k] \in [size : Text, ext : Text, data : Text]
    BY <1>2, ElementOfSeq
  <2> QED BY <2>1
<1>5. ASSUME NEW k \in 1 .. Len(m.trailer)
      PROVE  m.trailer[k] \in Text
  BY <1>2, ElementOfSeq
<1>6. m.last.size \in Text /\ m.last.ext \in Text
  BY <1>2
<1> QED BY <1>3, <1>4, <1>5, <1>6

\* The trailer of a message.
LEMMA TrailerIs ==
  ASSUME NEW m \in Messages, NEW n \in Nat, n = Len(m.trailer)
  PROVE  /\ \A k \in 1 .. n + 1 : TrailerFrom(m)[k] \in Text
         /\ TrailerFrom(m)[n + 1] = CrLf \o m.rest
         /\ \A k \in 1 .. n : TrailerFrom(m)[k] = m.trailer[k] \o TrailerFrom(m)[k + 1]
<1>1. CrLf \o m.rest \in Text
  BY CrLfIs, MessageIs, JoinIs
<1>2. \A k \in 1 .. n : m.trailer[k] \in Text
  BY PartsType
<1>3. TrailerFrom(m) = Onward(m.trailer, CrLf \o m.rest)
  BY DEF TrailerFrom
<1>4. PICK end \in Text : end = CrLf \o m.rest
  BY <1>1
<1>5. PICK lines : lines = m.trailer
  OBVIOUS
<1>6. PICK f : f = Onward(lines, end)
  OBVIOUS
<1>7. \A k \in 1 .. n + 1 : f[k] \in Text
  BY <1>2, <1>5, <1>6, OnwardType
<1>8. f[n + 1] = end /\ \A k \in 1 .. n : f[k] = lines[k] \o f[k + 1]
  <2>1. Links(Onward(lines, end), lines, end, n)
    BY <1>5, <1>6, OnwardIs
  <2>2. Links(f, lines, end, n)
    BY <1>5, <1>6, <2>1, Zenon
  <2> QED BY <2>2, Zenon DEF Links
<1>9. f = TrailerFrom(m)
  BY <1>3, <1>4, <1>5, <1>6, Zenon
<1> QED BY <1>4, <1>5, <1>7, <1>8, <1>9, Zenon

\* The chunks of a message, as they are sent.
LEMMA ChunksIs ==
  ASSUME NEW m \in Messages, NEW n \in Nat, n = Len(m.chunks)
  PROVE  /\ \A k \in 1 .. n + 1 : ChunksFrom(m)[k] \in Text
         /\ ChunksFrom(m)[n + 1] = SizeText(m.last) \o TrailerFrom(m)[1]
         /\ \A k \in 1 .. n :
              ChunksFrom(m)[k] = SizeText(m.chunks[k])
                                 \o (m.chunks[k].data \o (CrLf \o ChunksFrom(m)[k + 1]))
<1>1. PICK end \in Text : end = SizeText(m.last) \o TrailerFrom(m)[1]
  <2>1. TrailerFrom(m)[1] \in Text
    <3>1. PICK t \in Nat : t = Len(m.trailer)
      BY PartsType
    <3>2. 1 \in 1 .. t + 1
      OBVIOUS
    <3> QED BY <3>1, <3>2, TrailerIs
  <2>2. PICK size \in Text, ext \in Text : size = m.last.size /\ ext = m.last.ext
    BY PartsType
  <2>3. (size \o ext) \o CrLf \in Text
    <3>1. size \o ext \in Text
      BY JoinIs
    <3> QED BY <3>1, CrLfIs, JoinIs
  <2>4. SizeText(m.last) \in Text
    BY <2>2, <2>3, Zenon DEF SizeText
  <2> QED BY <2>1, <2>4, JoinIs
<1>2. PICK pieces : pieces = [k \in 1 .. n |-> ChunkText(m.chunks[k])]
  OBVIOUS
<1>3. ASSUME NEW k \in 1 .. n
      PROVE  /\ pieces[k] = SizeText(m.chunks[k]) \o m.chunks[k].data \o CrLf
             /\ SizeText(m.chunks[k]) \in Text /\ m.chunks[k].data \in Text
             /\ pieces[k] \in Text
  <2>1. PICK c : c = m.chunks[k]
    OBVIOUS
  <2>2. PICK size \in Text, ext \in Text, data \in Text :
          size = c.size /\ ext = c.ext /\ data = c.data
    BY <2>1, PartsType
  <2>3. pieces[k] = ChunkText(c)
    BY <1>2, <2>1
  <2>4. SizeText(c) \in Text
    <3>1. size \o ext \in Text
      BY JoinIs
    <3>2. (size \o ext) \o CrLf \in Text
      BY <3>1, CrLfIs, JoinIs
    <3> QED BY <2>2, <3>2, Zenon DEF SizeText
  <2>5. pieces[k] = SizeText(c) \o c.data \o CrLf
    BY <2>3, Zenon DEF ChunkText
  <2>6. SizeText(c) \o data \in Text
    BY <2>4, JoinIs
  <2>7. (SizeText(c) \o data) \o CrLf \in Text
    BY <2>6, CrLfIs, JoinIs
  <2> QED BY <2>1, <2>2, <2>4, <2>5, <2>7, Zenon
<1>4. Len(pieces) = n
  BY <1>2
<1>5. PICK f : f = Onward(pieces, end)
  OBVIOUS
<1>6. \A k \in 1 .. n + 1 : f[k] \in Text
  <2>1. \A k \in 1 .. n : pieces[k] \in Text
    BY <1>3, Zenon
  <2> QED BY <1>4, <1>5, <2>1, OnwardType
<1>7. f[n + 1] = end /\ \A k \in 1 .. n : f[k] = pieces[k] \o f[k + 1]
  <2>1. Links(Onward(pieces, end), pieces, end, n)
    BY <1>4, <1>5, OnwardIs
  <2>2. Links(f, pieces, end, n)
    BY <1>4, <1>5, <2>1, Zenon
  <2> QED BY <2>2, Zenon DEF Links
<1>8. f = ChunksFrom(m)
  BY <1>1, <1>2, <1>5, Zenon DEF ChunksFrom
<1>9. ASSUME NEW k \in 1 .. n
      PROVE  f[k] = SizeText(m.chunks[k]) \o (m.chunks[k].data \o (CrLf \o f[k + 1]))
  <2>1. PICK x \in Text, y \in Text : x = SizeText(m.chunks[k]) /\ y = m.chunks[k].data
    BY <1>3, Zenon
  <2>2. k + 1 \in 1 .. n + 1
    OBVIOUS
  <2>3. PICK z \in Text : z = f[k + 1]
    BY <1>6, <2>2, Zenon
  <2>4. CrLf \in Text
    BY CrLfIs
  <2>5. CrLf \o z \in Text /\ x \o y \in Text
    BY <2>4, JoinIs
  <2>6. ((x \o y) \o CrLf) \o z = (x \o y) \o (CrLf \o z)
    <3>1. PICK xy \in Text : xy = x \o y
      BY <2>5
    <3>2. (xy \o CrLf) \o z = xy \o (CrLf \o z)
      BY <2>4, Regrouped, Zenon
    <3> QED BY <3>1, <3>2, Zenon
  <2>7. (x \o y) \o (CrLf \o z) = x \o (y \o (CrLf \o z))
    BY <2>5, Regrouped, Zenon
  <2>8. f[k] = ((x \o y) \o CrLf) \o z
    BY <1>3, <1>7, <2>1, <2>3, Zenon
  <2> QED BY <2>1, <2>3, <2>6, <2>7, <2>8, Zenon
<1> QED BY <1>1, <1>6, <1>7, <1>8, <1>9, Zenon

\* The data of a message.
LEMMA DataFromIs ==
  ASSUME NEW m \in Messages, NEW n \in Nat, n = Len(m.chunks)
  PROVE  /\ \A k \in 1 .. n + 1 : DataFrom(m)[k] \in Text
         /\ DataFrom(m)[n + 1] = <<>>
         /\ \A k \in 1 .. n : DataFrom(m)[k] = m.chunks[k].data \o DataFrom(m)[k + 1]
<1>1. PICK pieces : pieces = [k \in 1 .. n |-> m.chunks[k].data]
  OBVIOUS
<1>2. \A k \in 1 .. n : pieces[k] = m.chunks[k].data /\ pieces[k] \in Text
  BY <1>1, PartsType
<1>3. Len(pieces) = n
  BY <1>1
<1>4. PICK end \in Text : end = <<>>
  BY NothingAdded, CrLfIs
<1>5. PICK f : f = Onward(pieces, end)
  OBVIOUS
<1>6. \A k \in 1 .. n + 1 : f[k] \in Text
  BY <1>2, <1>3, <1>5, OnwardType
<1>7. f[n + 1] = end /\ \A k \in 1 .. n : f[k] = pieces[k] \o f[k + 1]
  <2>1. Links(Onward(pieces, end), pieces, end, n)
    BY <1>3, <1>5, OnwardIs
  <2>2. Links(f, pieces, end, n)
    BY <1>3, <1>5, <2>1, Zenon
  <2> QED BY <2>2, Zenon DEF Links
<1>8. f = DataFrom(m)
  BY <1>1, <1>4, <1>5, Zenon DEF DataFrom
<1> QED BY <1>2, <1>4, <1>6, <1>7, <1>8, Zenon

-----------------------------------------------------------------------------
(* Where the decoder is in a well-formed message.                          *)

\* Before a chunk, or before the last one; in a chunk; before a trailer line,
\* or the end; behind the end.
AtSize(m, body, coming) ==
  \E k \in 1 .. Len(m.chunks) + 1 :
    coming = ChunksFrom(m)[k] /\ m.body = body \o DataFrom(m)[k]

AtData(m, body, rem, coming) ==
  \E k \in 1 .. Len(m.chunks), t \in Text :
    /\ Len(t) = rem
    /\ coming = t \o (CrLf \o ChunksFrom(m)[k + 1])
    /\ m.body = body \o (t \o DataFrom(m)[k + 1])

AtTrailer(m, body, coming) ==
  body = m.body /\ \E k \in 1 .. Len(m.trailer) + 1 : coming = TrailerFrom(m)[k]

AtEnd(m, body, coming) == body = m.body /\ coming = m.rest

\* The place that the decoder's stage says it is at.
Place(m, c, later) ==
  LET coming == c.in \o later
  IN  /\ c.verdict # "malformed"
      /\ c.verdict = "oversize" => Len(m.body) > MaxBody /\ Begins(c.body, m.body)
      /\ c.verdict = "done" => AtEnd(m, c.body, coming)
      /\ c.verdict \in {"more", "decoding"} =>
           /\ c.stage = "size" => AtSize(m, c.body, coming)
           /\ c.stage = "data" => AtData(m, c.body, c.rem, coming)
           /\ c.stage = "trailer" => AtTrailer(m, c.body, coming)

\* Before a chunk: its size is read, and its data come.
LEMMA ReadsSize ==
  ASSUME NEW m \in Messages, m.kind = "good", NEW i \in Text, NEW later \in Text, NEW b \in Text,
         NEW k \in 1 .. Len(m.chunks), i \o later = ChunksFrom(m)[k],
         m.body = b \o DataFrom(m)[k]
  PROVE  /\ LineEnds(i) = {} => Len(i) < LineCap
         /\ LineEnds(i) # {} =>
              /\ LineEnd(i) \in 1 .. Len(i) /\ LineEnd(i) < LineCap
              /\ SizeRead(i) # 0 /\ Len(b) + SizeRead(i) <= Len(m.body)
              /\ AtData(m, b, SizeRead(i), Past(i, LineEnd(i)) \o later)
<1>1. PICK n \in Nat : n = Len(m.chunks)
  BY PartsType
<1>2. k \in 1 .. n /\ k \in 1 .. n + 1 /\ k + 1 \in 1 .. n + 1
  BY <1>1
<1>3. PICK chunk : chunk = m.chunks[k]
  OBVIOUS
<1>4. chunk.size \in Text /\ chunk.ext \in Text /\ chunk.data \in Text
  BY <1>3, PartsType
<1>5. PICK data \in Text : data = chunk.data
  BY <1>4
<1>6. PICK size \in Nat : size = Len(data)
  BY DEF Text
<1>7. chunk.data # <<>> /\ IsSizeLine(chunk, Len(chunk.data)) /\ Len(m.body) < Modulus
  BY <1>3, MessageIs, Zenon DEF WellFormed
<1>8. size # 0 /\ IsSizeLine(chunk, size)
  <2>1. data # <<>>
    BY <1>5, <1>7
  <2>2. size # 0
    BY <1>6, <2>1, EmptySeq DEF Text
  <2> QED BY <1>5, <1>6, <1>7, <2>2, Zenon
<1>9. PICK x \in Text : x = ChunksFrom(m)[k + 1]
  BY <1>1, <1>2, ChunksIs
<1>10. PICK y \in Text : y = DataFrom(m)[k + 1]
  BY <1>1, <1>2, DataFromIs
<1>11. DataFrom(m)[k] = data \o y
  BY <1>1, <1>2, <1>3, <1>5, <1>10, DataFromIs, Zenon
<1>12. m.body = b \o (data \o y)
  BY <1>11, Zenon
<1>13. Len(b) + size <= Len(m.body)
  <2>1. data \o y \in Text /\ Len(data \o y) = Len(data) + Len(y)
    BY JoinIs
  <2>2. Len(b \o (data \o y)) = Len(b) + Len(data \o y)
    BY <2>1, JoinIs
  <2>3. PICK p \in Nat, q \in Nat : p = Len(b) /\ q = Len(y)
    BY DEF Text
  <2>4. Len(m.body) = p + (size + q)
    BY <1>6, <1>12, <2>1, <2>2, <2>3, Zenon
  <2> QED BY <2>3, <2>4
<1>14. size < Modulus
  <2>1. PICK p \in Nat, q \in Nat : p = Len(b) /\ q = Len(m.body)
    BY MessageIs DEF Text
  <2> QED BY <1>7, <1>13, <2>1, Bounds
<1>15. PICK line \in Text, u \in Nat :
         /\ line = SizeText(chunk) /\ u = Len(line) /\ u < LineCap /\ LineEnds(line) = {u}
         /\ Strtoull(Field(SubSeq(line, 1, u - 1))) = size
  <2>1. HasSize(SizeText(chunk), size)
    BY <1>4, <1>8, <1>14, SizeLineText
  <2> QED BY <2>1, Zenon DEF HasSize
<1>16. PICK rest \in Text : rest = data \o (CrLf \o x)
  <2>1. CrLf \o x \in Text
    BY CrLfIs, JoinIs
  <2> QED BY <2>1, JoinIs
<1>17. i \o later = line \o rest
  BY <1>1, <1>2, <1>3, <1>5, <1>9, <1>15, <1>16, ChunksIs, Zenon
<1>18. /\ LineEnds(i) = {} => Len(i) < u
       /\ LineEnds(i) # {} =>
            /\ u \in 1 .. Len(i) /\ LineEnd(i) = u
            /\ SubSeq(i, 1, u - 1) = SubSeq(line, 1, u - 1)
            /\ Past(i, u) \o later = rest
  <2>1. CutsOff(i, later, line, rest, u)
    BY <1>15, <1>17, LineOf
  <2> QED BY <2>1, Zenon DEF CutsOff
<1>19. LineEnds(i) = {} => Len(i) < LineCap
  <2>1. PICK p \in Nat : p = Len(i)
    BY DEF Text
  <2> QED BY <1>15, <1>18, <2>1, Bounds
<1>20. ASSUME LineEnds(i) # {}
       PROVE  /\ LineEnd(i) \in 1 .. Len(i) /\ LineEnd(i) < LineCap
              /\ SizeRead(i) = size /\ Past(i, LineEnd(i)) \o later = rest
  BY <1>15, <1>18, <1>20, Zenon DEF SizeRead
<1>21. AtData(m, b, size, rest)
  BY <1>6, <1>9, <1>10, <1>12, <1>16, Zenon DEF AtData
<1> QED BY <1>8, <1>13, <1>19, <1>20, <1>21, Zenon

\* Before the last chunk.
LEMMA ReadsLast ==
  ASSUME NEW m \in Messages, m.kind = "good", NEW i \in Text, NEW later \in Text, NEW b \in Text,
         i \o later = ChunksFrom(m)[Len(m.chunks) + 1],
         m.body = b \o DataFrom(m)[Len(m.chunks) + 1]
  PROVE  /\ LineEnds(i) = {} => Len(i) < LineCap
         /\ LineEnds(i) # {} =>
              /\ LineEnd(i) \in 1 .. Len(i) /\ LineEnd(i) < LineCap
              /\ SizeRead(i) = 0 /\ b = m.body
              /\ AtTrailer(m, b, Past(i, LineEnd(i)) \o later)
<1>1. PICK n \in Nat : n = Len(m.chunks)
  BY PartsType
<1>2. PICK chunk : chunk = m.last
  OBVIOUS
<1>3. chunk.size \in Text /\ chunk.ext \in Text
  BY <1>2, PartsType
<1>4. IsSizeLine(chunk, 0)
  BY <1>2, MessageIs, Zenon DEF WellFormed
<1>5. 0 < Modulus
  BY Bounds
<1>6. b = m.body
  BY <1>1, DataFromIs, NothingAdded
<1>7. PICK line \in Text, u \in Nat :
        /\ line = SizeText(chunk) /\ u = Len(line) /\ u < LineCap /\ LineEnds(line) = {u}
        /\ Strtoull(Field(SubSeq(line, 1, u - 1))) = 0
  <2>1. HasSize(SizeText(chunk), 0)
    BY <1>3, <1>4, <1>5, SizeLineText
  <2> QED BY <2>1, Zenon DEF HasSize
<1>8. PICK l \in Nat : l = Len(m.trailer)
  BY PartsType
<1>9. 1 \in 1 .. l + 1
  BY <1>8
<1>10. PICK rest \in Text : rest = TrailerFrom(m)[1]
  BY <1>8, <1>9, TrailerIs
<1>11. i \o later = line \o rest
  BY <1>1, <1>2, <1>7, <1>10, ChunksIs, Zenon
<1>12. /\ LineEnds(i) = {} => Len(i) < u
       /\ LineEnds(i) # {} =>
            /\ u \in 1 .. Len(i) /\ LineEnd(i) = u
            /\ SubSeq(i, 1, u - 1) = SubSeq(line, 1, u - 1)
            /\ Past(i, u) \o later = rest
  <2>1. CutsOff(i, later, line, rest, u)
    BY <1>7, <1>11, LineOf
  <2> QED BY <2>1, Zenon DEF CutsOff
<1>13. LineEnds(i) = {} => Len(i) < LineCap
  <2>1. PICK p \in Nat : p = Len(i)
    BY DEF Text
  <2> QED BY <1>7, <1>12, <2>1, Bounds
<1>14. ASSUME LineEnds(i) # {}
       PROVE  /\ LineEnd(i) \in 1 .. Len(i) /\ LineEnd(i) < LineCap
              /\ SizeRead(i) = 0 /\ Past(i, LineEnd(i)) \o later = rest
  BY <1>7, <1>12, <1>14, Zenon DEF SizeRead
<1>15. AtTrailer(m, b, rest)
  BY <1>6, <1>8, <1>9, <1>10, Zenon DEF AtTrailer
<1> QED BY <1>6, <1>13, <1>14, <1>15, Zenon

\* In a chunk: what is taken belongs to its data.
LEMMA ReadsData ==
  ASSUME NEW m \in Messages, m.kind = "good", NEW i \in Text, NEW later \in Text, NEW b \in Text,
         NEW rem \in Nat, AtData(m, b, rem, i \o later),
         NEW n \in Nat, n <= Len(i), n <= rem
  PROVE  AtData(m, b \o SubSeq(i, 1, n), rem - n, Past(i, n) \o later)
<1>1. PICK k \in 1 .. Len(m.chunks), t \in Text :
        /\ Len(t) = rem
        /\ i \o later = t \o (CrLf \o ChunksFrom(m)[k + 1])
        /\ m.body = b \o (t \o DataFrom(m)[k + 1])
  BY Zenon DEF AtData
<1>2. PICK l \in Nat : l = Len(m.chunks)
  BY PartsType
<1>3. k + 1 \in 1 .. l + 1
  BY <1>2
<1>4. PICK x \in Text : x = CrLf \o ChunksFrom(m)[k + 1]
  <2>1. ChunksFrom(m)[k + 1] \in Text
    BY <1>2, <1>3, ChunksIs
  <2> QED BY <2>1, CrLfIs, JoinIs
<1>5. PICK y \in Text : y = DataFrom(m)[k + 1]
  BY <1>2, <1>3, DataFromIs
<1>6. i \o later = t \o x /\ n <= Len(t)
  BY <1>1, <1>4
<1>7. Divided(i, later, t, x, n)
  BY <1>6, TwoWays
<1>8. n \in 0 .. rem
  OBVIOUS
<1>9. PICK p \in Text, q \in Text : p = SubSeq(t, 1, n) /\ q = Past(t, n)
  BY <1>1, <1>8, FirstIs, PastIs
<1>10. p \o q = t /\ Len(q) = rem - n
  <2>1. SubSeq(t, 1, n) \o Past(t, n) = t
    BY <1>1, <1>8, Whole
  <2>2. Len(Past(t, n)) = rem - n
    BY <1>1, <1>8, PastIs
  <2> QED BY <1>9, <2>1, <2>2, Zenon
<1>11. SubSeq(i, 1, n) = p /\ Past(i, n) \o later = q \o x
  BY <1>7, <1>9, Zenon DEF Divided
<1>12. b \o (t \o y) = (b \o p) \o (q \o y)
  <2>1. Moved(b, p, q, y)
    BY MovedOver
  <2> QED BY <1>10, <2>1, Zenon DEF Moved
<1>13. m.body = (b \o p) \o (q \o DataFrom(m)[k + 1])
  BY <1>1, <1>5, <1>12, Zenon
<1>14. Past(i, n) \o later = q \o (CrLf \o ChunksFrom(m)[k + 1])
  BY <1>4, <1>11, Zenon
<1>15. AtData(m, b \o p, rem - n, Past(i, n) \o later)
  BY <1>10, <1>13, <1>14, Zenon DEF AtData
<1> QED BY <1>11, <1>15, Zenon

\* Behind the data of a chunk: a line end, then the next chunk.
LEMMA ReadsChunkEnd ==
  ASSUME NEW m \in Messages, m.kind = "good", NEW i \in Text, NEW later \in Text, NEW b \in Text,
         AtData(m, b, 0, i \o later), ~(Len(i) < 2)
  PROVE  StartsWithCrLf(i) /\ AtSize(m, b, Past(i, 2) \o later)
<1>1. PICK k \in 1 .. Len(m.chunks), t \in Text :
        /\ Len(t) = 0
        /\ i \o later = t \o (CrLf \o ChunksFrom(m)[k + 1])
        /\ m.body = b \o (t \o DataFrom(m)[k + 1])
  BY Zenon DEF AtData
<1>2. PICK l \in Nat : l = Len(m.chunks)
  BY PartsType
<1>3. k + 1 \in 1 .. l + 1
  BY <1>2
<1>4. PICK x \in Text, y \in Text : x = ChunksFrom(m)[k + 1] /\ y = DataFrom(m)[k + 1]
  BY <1>2, <1>3, ChunksIs, DataFromIs
<1>5. t = <<>>
  BY <1>1, EmptySeq DEF Text
<1>6. PICK z \in Text : z = CrLf \o x
  BY CrLfIs, JoinIs
<1>7. i \o later = CrLf \o x /\ m.body = b \o y
  <2>1. <<>> \o z = z /\ <<>> \o y = y
    BY NothingAdded
  <2> QED BY <1>1, <1>4, <1>5, <1>6, <2>1, Zenon
<1>8. CrLf \in Text /\ Len(CrLf) = 2 /\ CrLf[1] = "cr" /\ CrLf[2] = "lf"
  BY CrLfIs
<1>9. 2 <= Len(i) /\ 2 <= Len(CrLf)
  BY <1>8 DEF Text
<1>10. Divided(i, later, CrLf, x, 2)
  BY <1>7, <1>8, <1>9, TwoWays
<1>11. i[1] = "cr" /\ i[2] = "lf"
  <2>1. 1 \in 1 .. 2 /\ 2 \in 1 .. 2
    OBVIOUS
  <2> QED BY <1>8, <1>10, <2>1, Zenon DEF Divided
<1>12. Past(i, 2) \o later = x
  <2>1. Past(CrLf, 2) = <<>>
    BY <1>8, AllOfIt
  <2>2. <<>> \o x = x
    BY NothingAdded
  <2> QED BY <1>10, <2>1, <2>2, Zenon DEF Divided
<1>13. AtSize(m, b, x)
  BY <1>2, <1>3, <1>4, <1>7, Zenon DEF AtSize
<1> QED BY <1>9, <1>11, <1>12, <1>13 DEF StartsWithCrLf

\* A text that starts with CR LF.
LEMMA StartsIs ==
  ASSUME NEW i \in Text, StartsWithCrLf(i)
  PROVE  /\ 2 \in 1 .. Len(i) /\ i[1] = "cr" /\ i[2] = "lf"
         /\ LineEnds(i) # {} /\ LineEnd(i) = 2
<1>1. PICK p \in Nat : p = Len(i)
  BY DEF Text
<1>2. 2 \in 1 .. p /\ i[1] = "cr" /\ i[2] = "lf"
  BY <1>1 DEF StartsWithCrLf
<1>3. 2 \in LineEnds(i)
  BY <1>1, <1>2 DEF LineEnds
<1>4. PICK e : e = LineEnd(i)
  OBVIOUS
<1>5. e \in 1 .. p /\ i[e] = "lf" /\ \A k \in 1 .. e - 1 : i[k] # "lf"
  BY <1>1, <1>3, <1>4, LineEndIs
<1>6. e = 2
  <2>1. e # 1
    BY <1>2, <1>5
  <2>2. ~(2 < e)
    <3>1. 2 < e => 2 \in 1 .. e - 1
      BY <1>5
    <3> QED BY <1>2, <1>5, <3>1
  <2> QED BY <1>5, <2>1, <2>2
<1> QED BY <1>1, <1>2, <1>3, <1>4, <1>6

\* What follows of a trailer.
TrailerGoesOn(m, i, later, b) ==
  /\ i # <<>> /\ StartsWithCrLf(i) => AtEnd(m, b, Past(i, 2) \o later)
  /\ LineEnds(i) = {} => ~(Len(i) > BlockCap)
  /\ i # <<>> /\ ~StartsWithCrLf(i) /\ LineEnds(i) # {} =>
       AtTrailer(m, b, Past(i, LineEnd(i)) \o later)

\* Before a trailer line.
LEMMA ReadsTrailerLine ==
  ASSUME NEW m \in Messages, m.kind = "good", NEW i \in Text, NEW later \in Text, NEW b \in Text,
         b = m.body, NEW k \in 1 .. Len(m.trailer), i \o later = TrailerFrom(m)[k]
  PROVE  TrailerGoesOn(m, i, later, b)
<1>1. PICK n \in Nat : n = Len(m.trailer)
  BY PartsType
<1>2. k \in 1 .. n /\ k + 1 \in 1 .. n + 1
  BY <1>1
<1>3. PICK line \in Text : line = m.trailer[k]
  BY PartsType
<1>4. PICK u \in Nat : u = Len(line)
  BY DEF Text
<1>5. line # CrLf /\ LineEnds(line) = {u} /\ u <= BlockCap
  <2>1. IsTrailerLine(line)
    BY <1>3, MessageIs, Zenon DEF WellFormed
  <2> QED BY <1>4, <2>1, Zenon DEF IsTrailerLine
<1>6. PICK rest \in Text : rest = TrailerFrom(m)[k + 1]
  BY <1>1, <1>2, TrailerIs
<1>7. i \o later = line \o rest
  BY <1>1, <1>2, <1>3, <1>6, TrailerIs, Zenon
<1>8. CutsOff(i, later, line, rest, u)
  BY <1>4, <1>5, <1>7, LineOf
<1>9. LineEnds(i) = {} => ~(Len(i) > BlockCap)
  <2>1. PICK p \in Nat : p = Len(i)
    BY DEF Text
  <2> QED BY <1>5, <1>8, <2>1, Bounds DEF CutsOff
<1>10. ~StartsWithCrLf(i)
  <2> SUFFICES ASSUME StartsWithCrLf(i) PROVE FALSE
    OBVIOUS
  <2>1. PICK p \in Nat : p = Len(i)
    BY DEF Text
  <2>2. 2 \in 1 .. Len(i) /\ i[1] = "cr" /\ i[2] = "lf" /\ u = 2
    BY <1>8, StartsIs, Zenon DEF CutsOff
  <2>3. 2 <= Len(i) /\ 2 <= Len(line)
    BY <1>4, <2>1, <2>2
  <2>4. Divided(i, later, line, rest, 2)
    BY <1>7, <2>3, TwoWays
  <2>5. 1 \in 1 .. 2 /\ 2 \in 1 .. 2
    OBVIOUS
  <2>6. line[1] = "cr" /\ line[2] = "lf"
    BY <2>2, <2>4, <2>5, Zenon DEF Divided
  <2>7. line = CrLf
    <3>1. Len(line) = 2
      BY <1>4, <2>2
    <3> QED BY <2>6, <3>1, CrLfOnly
  <2> QED BY <1>5, <2>7
<1>11. LineEnds(i) # {} => AtTrailer(m, b, Past(i, LineEnd(i)) \o later)
  <2> SUFFICES ASSUME LineEnds(i) # {}
               PROVE  AtTrailer(m, b, Past(i, LineEnd(i)) \o later)
    OBVIOUS
  <2>1. Past(i, LineEnd(i)) \o later = TrailerFrom(m)[k + 1]
    BY <1>6, <1>8, Zenon DEF CutsOff
  <2> QED BY <1>1, <1>2, <2>1, Zenon DEF AtTrailer
<1> QED BY <1>9, <1>10, <1>11, Zenon DEF TrailerGoesOn

\* Before the end of the trailer.
LEMMA ReadsEnd ==
  ASSUME NEW m \in Messages, m.kind = "good", NEW i \in Text, NEW later \in Text, NEW b \in Text,
         b = m.body, i \o later = TrailerFrom(m)[Len(m.trailer) + 1]
  PROVE  TrailerGoesOn(m, i, later, b)
<1>1. PICK n \in Nat : n = Len(m.trailer)
  BY PartsType
<1>2. PICK rest \in Text : rest = m.rest
  BY MessageIs
<1>3. i \o later = CrLf \o rest
  BY <1>1, <1>2, TrailerIs, Zenon
<1>4. CrLf \in Text /\ Len(CrLf) = 2 /\ CrLf[1] = "cr" /\ CrLf[2] = "lf"
  BY CrLfIs
<1>5. PICK p \in Nat : p = Len(i)
  BY DEF Text
<1>6. 1 <= BlockCap
  <2>1. PICK chunk : chunk = m.last
    OBVIOUS
  <2>2. HasSize(SizeText(chunk), 0)
    <3>1. 0 < Modulus
      BY Bounds
    <3>2. IsSizeLine(chunk, 0)
      BY <2>1, MessageIs, Zenon DEF WellFormed
    <3>3. chunk.size \in Text /\ chunk.ext \in Text
      BY <2>1, PartsType
    <3> QED BY <3>1, <3>2, <3>3, SizeLineText
  <2>3. PICK u \in Nat : u < LineCap
    BY <2>2, Zenon DEF HasSize
  <2> QED BY <2>3, Bounds
<1>7. StartsWithCrLf(i) => AtEnd(m, b, Past(i, 2) \o later)
  <2> SUFFICES ASSUME StartsWithCrLf(i) PROVE AtEnd(m, b, Past(i, 2) \o later)
    OBVIOUS
  <2>1. 2 <= Len(i) /\ 2 <= Len(CrLf)
    BY <1>4, <1>5, StartsIs
  <2>2. Divided(i, later, CrLf, rest, 2)
    BY <1>3, <1>4, <2>1, TwoWays
  <2>3. Past(CrLf, 2) = <<>>
    BY <1>4, AllOfIt
  <2>4. <<>> \o rest = rest
    BY NothingAdded
  <2>5. Past(i, 2) \o later = rest
    BY <2>2, <2>3, <2>4, Zenon DEF Divided
  <2> QED BY <1>2, <2>5, Zenon DEF AtEnd
<1>8. p >= 2 => StartsWithCrLf(i)
  <2> SUFFICES ASSUME p >= 2 PROVE StartsWithCrLf(i)
    OBVIOUS
  <2>1. 2 <= Len(i) /\ 2 <= Len(CrLf)
    BY <1>4, <1>5
  <2>2. Divided(i, later, CrLf, rest, 2)
    BY <1>3, <1>4, <2>1, TwoWays
  <2>3. 1 \in 1 .. 2 /\ 2 \in 1 .. 2
    OBVIOUS
  <2>4. i[1] = "cr" /\ i[2] = "lf"
    BY <1>4, <2>2, <2>3, Zenon DEF Divided
  <2> QED BY <1>5, <2>4 DEF StartsWithCrLf
<1>9. LineEnds(i) = {} => ~(Len(i) > BlockCap)
  <2> SUFFICES ASSUME LineEnds(i) = {}, p > BlockCap PROVE FALSE
    BY <1>5
  <2>1. StartsWithCrLf(i)
    BY <1>6, <1>8, Bounds
  <2> QED BY <2>1, StartsIs
<1>10. ASSUME LineEnds(i) # {}, ~StartsWithCrLf(i)
       PROVE  FALSE
  <2>1. PICK e \in 1 .. p : e = LineEnd(i) /\ i[e] = "lf"
    BY <1>5, <1>10, LineEndIs
  <2>2. e = 1 /\ p = 1
    BY <1>8, <1>10, <2>1
  <2>3. 1 <= Len(i) /\ 1 <= Len(CrLf)
    BY <1>4, <1>5, <2>2
  <2>4. Divided(i, later, CrLf, rest, 1)
    BY <1>3, <1>4, <2>3, TwoWays
  <2>5. 1 \in 1 .. 1
    OBVIOUS
  <2>6. i[1] = CrLf[1]
    BY <2>4, <2>5, Zenon DEF Divided
  <2> QED BY <1>4, <2>1, <2>2, <2>6
<1> QED BY <1>7, <1>9, <1>10, Zenon DEF TrailerGoesOn

\* In the trailer.
LEMMA ReadsTrailer ==
  ASSUME NEW m \in Messages, m.kind = "good", NEW i \in Text, NEW later \in Text, NEW b \in Text,
         AtTrailer(m, b, i \o later)
  PROVE  TrailerGoesOn(m, i, later, b)
<1>1. PICK n \in Nat : n = Len(m.trailer)
  BY PartsType
<1>2. PICK k \in 1 .. n + 1 : b = m.body /\ i \o later = TrailerFrom(m)[k]
  BY <1>1 DEF AtTrailer
<1>3. CASE k = n + 1
  <2>1. i \o later = TrailerFrom(m)[Len(m.trailer) + 1]
    BY <1>1, <1>2, <1>3, Zenon
  <2> QED BY <1>2, <2>1, ReadsEnd
<1>4. CASE k # n + 1
  <2>1. k \in 1 .. Len(m.trailer)
    BY <1>1, <1>4
  <2> QED BY <1>2, <2>1, ReadsTrailerLine
<1> QED BY <1>3, <1>4

-----------------------------------------------------------------------------
(* A turn in a well-formed message.                                        *)

\* A place, by its fields.
PlaceAt(m, i, b, s, rem, v, later) ==
  /\ v # "malformed"
  /\ v = "oversize" => Len(m.body) > MaxBody /\ Begins(b, m.body)
  /\ v = "done" => AtEnd(m, b, i \o later)
  /\ v \in {"more", "decoding"} =>
       /\ s = "size" => AtSize(m, b, i \o later)
       /\ s = "data" => AtData(m, b, rem, i \o later)
       /\ s = "trailer" => AtTrailer(m, b, i \o later)

\* It is the same.
LEMMA PlaceIs ==
  ASSUME NEW m, NEW i, NEW b, NEW s, NEW rem, NEW v, NEW later, NEW c, c = State(i, b, s, rem, v)
  PROVE  Place(m, c, later) <=> PlaceAt(m, i, b, s, rem, v, later)
<1>1. c.in = i /\ c.body = b /\ c.stage = s /\ c.rem = rem /\ c.verdict = v
  BY DEF State
<1> QED BY <1>1, Zenon DEF Place, PlaceAt

\* A sum below the modulus is not wrapped.
LEMMA NotWrapped ==
  ASSUME NEW n \in Nat, n < Modulus
  PROVE  n % Modulus = n
  BY Bounds

\* What precedes something begins the whole.
LEMMA Precedes ==
  ASSUME NEW s \in Text, NEW t \in Text
  PROVE  Begins(s, s \o t)
<1>1. PICK p \in Nat, q \in Nat : p = Len(s) /\ q = Len(t)
  BY DEF Text
<1>2. PICK w \in Text : w = s \o t
  BY JoinIs
<1>3. Len(w) = p + q /\ \A k \in 1 .. p : w[k] = s[k]
  BY <1>1, <1>2, JoinIs
<1>4. p \in 0 .. p + q /\ p + q \in Nat /\ p <= p + q
  OBVIOUS
<1>5. PICK v : v = SubSeq(w, 1, p)
  OBVIOUS
<1>6. v \in Text /\ Len(v) = p /\ \A k \in 1 .. p : v[k] = w[k]
  BY <1>3, <1>4, <1>5, FirstIs
<1>7. s = v
  <2>1. \A k \in 1 .. p : s[k] = v[k]
    BY <1>3, <1>6
  <2> QED BY <1>1, <1>6, <2>1, SameText
<1> QED BY <1>1, <1>2, <1>3, <1>4, <1>5, <1>7, Zenon DEF Begins

\* What has been stored begins the body.
LEMMA StoredBegins ==
  ASSUME NEW m \in Messages, NEW b \in Text, NEW coming, AtSize(m, b, coming)
  PROVE  Begins(b, m.body)
<1>1. PICK n \in Nat : n = Len(m.chunks)
  BY PartsType
<1>2. PICK k \in 1 .. n + 1 : m.body = b \o DataFrom(m)[k]
  BY <1>1 DEF AtSize
<1>3. PICK y \in Text : y = DataFrom(m)[k]
  BY <1>1, DataFromIs
<1>4. m.body = b \o y
  BY <1>2, <1>3, Zenon
<1> QED BY <1>4, Precedes

\* Where a size line is read.
SizeGoesOn(m, i, later, b) ==
  /\ LineEnds(i) = {} => Len(i) < LineCap
  /\ LineEnds(i) # {} =>
       /\ LineEnd(i) \in 1 .. Len(i) /\ LineEnd(i) < LineCap
       /\ SizeRead(i) \in Nat /\ Len(b) + SizeRead(i) <= Len(m.body)
       /\ SizeRead(i) = 0 => AtTrailer(m, b, Past(i, LineEnd(i)) \o later)
       /\ SizeRead(i) # 0 => AtData(m, b, SizeRead(i), Past(i, LineEnd(i)) \o later)

\* Before any chunk.
LEMMA ReadsAnySize ==
  ASSUME NEW m \in Messages, m.kind = "good", NEW i \in Text, NEW later \in Text, NEW b \in Text,
         AtSize(m, b, i \o later)
  PROVE  SizeGoesOn(m, i, later, b)
<1>1. PICK n \in Nat : n = Len(m.chunks)
  BY PartsType
<1>2. PICK k \in 1 .. n + 1 : i \o later = ChunksFrom(m)[k] /\ m.body = b \o DataFrom(m)[k]
  BY <1>1 DEF AtSize
<1>3. SizeRead(i) \in Nat \/ LineEnds(i) = {}
  <2> SUFFICES ASSUME LineEnds(i) # {} PROVE SizeRead(i) \in Nat
    OBVIOUS
  <2>1. PICK l \in Nat : l = Len(i)
    BY DEF Text
  <2>2. PICK e \in 1 .. l : e = LineEnd(i)
    BY <2>1, LineEndIs
  <2>3. e - 1 \in 0 .. l
    OBVIOUS
  <2>4. SubSeq(i, 1, e - 1) \in Text
    BY <2>1, <2>3, FirstIs
  <2>5. Field(SubSeq(i, 1, e - 1)) \in Text
    BY <2>4, FieldType
  <2>6. SizeRead(i) \in 0 .. Modulus - 1
    BY <2>2, <2>5, StrtoullType DEF SizeRead
  <2> QED BY <2>6, Bounds
<1>4. CASE k = n + 1
  <2>1. i \o later = ChunksFrom(m)[Len(m.chunks) + 1] /\ m.body = b \o DataFrom(m)[Len(m.chunks) + 1]
    BY <1>1, <1>2, <1>4, Zenon
  <2>2. /\ LineEnds(i) = {} => Len(i) < LineCap
        /\ LineEnds(i) # {} =>
             /\ LineEnd(i) \in 1 .. Len(i) /\ LineEnd(i) < LineCap
             /\ SizeRead(i) = 0 /\ b = m.body
             /\ AtTrailer(m, b, Past(i, LineEnd(i)) \o later)
    BY <2>1, ReadsLast
  <2>3. b = m.body => Len(b) + 0 <= Len(m.body)
    BY DEF Text
  <2> QED BY <1>3, <2>2, <2>3, Zenon DEF SizeGoesOn
<1>5. CASE k # n + 1
  <2>1. k \in 1 .. Len(m.chunks)
    BY <1>1, <1>5
  <2>2. /\ LineEnds(i) = {} => Len(i) < LineCap
        /\ LineEnds(i) # {} =>
             /\ LineEnd(i) \in 1 .. Len(i) /\ LineEnd(i) < LineCap
             /\ SizeRead(i) # 0 /\ Len(b) + SizeRead(i) <= Len(m.body)
             /\ AtData(m, b, SizeRead(i), Past(i, LineEnd(i)) \o later)
    BY <1>2, <2>1, ReadsSize
  <2> QED BY <1>3, <2>2, Zenon DEF SizeGoesOn
<1> QED BY <1>4, <1>5

\* A turn where a size line is expected.
LEMMA GoodSizeTurn ==
  ASSUME NEW m \in Messages, m.kind = "good", NEW c \in Decoder, c.verdict = "decoding",
         NEW later \in Text, Place(m, c, later), c.stage = "size"
  PROVE  Place(m, Turn(c), later)
<1>1. PICK i \in Text, b \in Text, rem \in 0 .. Modulus - 1 :
        c = State(i, b, "size", rem, "decoding")
  BY StateIs
<1>2. AtSize(m, b, i \o later)
  <2>1. PlaceAt(m, i, b, "size", rem, "decoding", later)
    BY <1>1, PlaceIs
  <2> QED BY <2>1 DEF PlaceAt
<1>3. SizeGoesOn(m, i, later, b)
  BY <1>2, ReadsAnySize
<1>4. CASE LineEnds(i) = {}
  <2>1. ~(Len(i) > BlockCap)
    <3>1. PICK p \in Nat : p = Len(i)
      BY DEF Text
    <3> QED BY <1>3, <1>4, <3>1, Bounds DEF SizeGoesOn
  <2>2. Turn(c) = State(i, b, "size", rem, "more")
    <3>1. Turn(c) = State(i, b, "size", rem, IF Len(i) > BlockCap THEN "malformed" ELSE "more")
      BY <1>1, <1>4, SizeTurn
    <3> QED BY <2>1, <3>1, Zenon
  <2>3. PlaceAt(m, i, b, "size", rem, "more", later)
    BY <1>2 DEF PlaceAt
  <2> QED BY <2>2, <2>3, PlaceIs
<1>5. CASE LineEnds(i) # {}
  <2>1. PICK size \in Nat, e \in Nat : size = SizeRead(i) /\ e = LineEnd(i)
    <3>1. PICK p \in Nat : p = Len(i)
      BY DEF Text
    <3>2. LineEnd(i) \in Nat
      BY <1>3, <1>5, <3>1 DEF SizeGoesOn
    <3> QED BY <1>3, <1>5, <3>2, Zenon DEF SizeGoesOn
  <2> DEFINE x == Past(i, e)
  <2> HIDE DEF x
  <2>2. PICK p \in Nat, q \in Nat : p = Len(b) /\ q = Len(m.body)
    BY MessageIs DEF Text
  <2>3. p + size <= q /\ q < Modulus /\ p + size \in Nat
    <3>1. Len(m.body) < Modulus
      BY MessageIs, Zenon DEF WellFormed
    <3>2. Len(b) + SizeRead(i) <= Len(m.body)
      BY <1>3, <1>5, Zenon DEF SizeGoesOn
    <3>3. p + size <= q /\ q < Modulus
      BY <2>1, <2>2, <3>1, <3>2, Zenon
    <3> QED BY <3>3
  <2>4. (p + size) % Modulus = p + size
    <3>1. p + size < Modulus
      BY <2>3, Bounds
    <3> QED BY <2>3, <3>1, NotWrapped
  <2>5. ~(LineEnd(i) >= LineCap)
    <3>1. e < LineCap
      BY <1>3, <1>5, <2>1, Zenon DEF SizeGoesOn
    <3>2. ~(e >= LineCap)
      BY <3>1, Bounds
    <3> QED BY <2>1, <3>2, Zenon
  <2>6. Turn(c) = IF (Len(b) + size) % Modulus > MaxBody
                  THEN State(x, b, "size", rem, "oversize")
                  ELSE State(x, b, IF size = 0 THEN "trailer" ELSE "data", size, "decoding")
    BY <1>1, <1>5, <2>1, <2>5, SizeTurn DEF x
  <2>7. CASE p + size > MaxBody
    <3>1. Turn(c) = State(x, b, "size", rem, "oversize")
      BY <2>2, <2>4, <2>6, <2>7, Zenon
    <3>2. Begins(b, m.body)
      BY <1>2, StoredBegins
    <3>3. Len(m.body) > MaxBody
      BY <2>2, <2>3, <2>7, Bounds
    <3>4. PlaceAt(m, x, b, "size", rem, "oversize", later)
      BY <3>2, <3>3 DEF PlaceAt
    <3> QED BY <3>1, <3>4, PlaceIs
  <2>8. CASE ~(p + size > MaxBody) /\ size = 0
    <3>1. Turn(c) = State(x, b, "trailer", 0, "decoding")
      BY <2>2, <2>4, <2>6, <2>8, Zenon
    <3>2. AtTrailer(m, b, x \o later)
      BY <1>3, <1>5, <2>1, <2>8, Zenon DEF SizeGoesOn, x
    <3>3. PlaceAt(m, x, b, "trailer", 0, "decoding", later)
      BY <3>2 DEF PlaceAt
    <3> QED BY <3>1, <3>3, PlaceIs
  <2>9. CASE ~(p + size > MaxBody) /\ size # 0
    <3>1. Turn(c) = State(x, b, "data", size, "decoding")
      BY <2>2, <2>4, <2>6, <2>9, Zenon
    <3>2. AtData(m, b, size, x \o later)
      BY <1>3, <1>5, <2>1, <2>9, Zenon DEF SizeGoesOn, x
    <3>3. PlaceAt(m, x, b, "data", size, "decoding", later)
      BY <3>2 DEF PlaceAt
    <3> QED BY <3>1, <3>3, PlaceIs
  <2> QED BY <2>7, <2>8, <2>9
<1> QED BY <1>4, <1>5

\* A turn in a chunk.
LEMMA GoodDataTurn ==
  ASSUME NEW m \in Messages, m.kind = "good", NEW c \in Decoder, c.verdict = "decoding",
         NEW later \in Text, Place(m, c, later), c.stage = "data"
  PROVE  Place(m, Turn(c), later)
<1>1. PICK i \in Text, b \in Text, rem \in 0 .. Modulus - 1 :
        c = State(i, b, "data", rem, "decoding")
  BY StateIs
<1>2. AtData(m, b, rem, i \o later)
  <2>1. PlaceAt(m, i, b, "data", rem, "decoding", later)
    BY <1>1, PlaceIs
  <2> QED BY <2>1 DEF PlaceAt
<1>3. CASE rem = 0
  <2>1. c = State(i, b, "data", 0, "decoding") /\ AtData(m, b, 0, i \o later)
    BY <1>1, <1>2, <1>3, Zenon
  <2>2. Turn(c) = IF Len(i) < 2 THEN State(i, b, "data", 0, "more")
                  ELSE IF StartsWithCrLf(i) THEN State(Past(i, 2), b, "size", 0, "decoding")
                  ELSE State(i, b, "data", 0, "malformed")
    BY <2>1, EndTurn
  <2>3. CASE Len(i) < 2
    <3>1. Turn(c) = State(i, b, "data", 0, "more")
      BY <2>2, <2>3, Zenon
    <3>2. PlaceAt(m, i, b, "data", 0, "more", later)
      BY <2>1 DEF PlaceAt
    <3> QED BY <3>1, <3>2, PlaceIs
  <2>4. CASE ~(Len(i) < 2)
    <3>1. PICK x : x = Past(i, 2)
      OBVIOUS
    <3>2. StartsWithCrLf(i) /\ AtSize(m, b, x \o later)
      BY <2>1, <2>4, <3>1, ReadsChunkEnd
    <3>3. Turn(c) = State(x, b, "size", 0, "decoding")
      BY <2>2, <2>4, <3>1, <3>2, Zenon
    <3>4. PlaceAt(m, x, b, "size", 0, "decoding", later)
      BY <3>2 DEF PlaceAt
    <3> QED BY <3>3, <3>4, PlaceIs
  <2> QED BY <2>3, <2>4
<1>4. CASE rem # 0
  <2>1. PICK l \in Nat : l = Len(i)
    BY DEF Text
  <2>2. PICK t : t = IF rem > Len(i) THEN Len(i) ELSE rem
    OBVIOUS
  <2>3. t \in Nat /\ t <= Len(i) /\ t <= rem /\ rem \in Nat
    BY <2>1, <2>2
  <2>4. PICK x, y : x = Past(i, t) /\ y = b \o SubSeq(i, 1, t)
    OBVIOUS
  <2>5. Turn(c) = State(x, y, "data", rem - t, "decoding")
    BY <1>1, <1>4, <2>2, <2>4, DataTurn
  <2>6. AtData(m, y, rem - t, x \o later)
    BY <1>2, <2>3, <2>4, ReadsData
  <2>7. PlaceAt(m, x, y, "data", rem - t, "decoding", later)
    BY <2>6, Zenon DEF PlaceAt
  <2> QED BY <2>5, <2>7, PlaceIs
<1> QED BY <1>3, <1>4

\* A turn in the trailer.
LEMMA GoodTrailerTurn ==
  ASSUME NEW m \in Messages, m.kind = "good", NEW c \in Decoder, c.verdict = "decoding",
         NEW later \in Text, Place(m, c, later), c.stage = "trailer"
  PROVE  Place(m, Turn(c), later)
<1>1. PICK i \in Text, b \in Text, rem \in 0 .. Modulus - 1 :
        c = State(i, b, "trailer", rem, "decoding")
  BY StateIs
<1>2. AtTrailer(m, b, i \o later)
  <2>1. PlaceAt(m, i, b, "trailer", rem, "decoding", later)
    BY <1>1, PlaceIs
  <2> QED BY <2>1 DEF PlaceAt
<1>3. TrailerGoesOn(m, i, later, b)
  BY <1>2, ReadsTrailer
<1>4. Turn(c) =
        IF i = <<>> THEN State(i, b, "trailer", rem, "more")
        ELSE IF StartsWithCrLf(i) THEN State(Past(i, 2), b, "trailer", rem, "done")
        ELSE IF LineEnds(i) = {}
        THEN State(i, b, "trailer", rem, IF Len(i) > BlockCap THEN "malformed" ELSE "more")
        ELSE State(Past(i, LineEnd(i)), b, "trailer", rem, "decoding")
  BY <1>1, TrailerTurn
<1>5. CASE i = <<>> \/ (~StartsWithCrLf(i) /\ LineEnds(i) = {})
  <2>1. Turn(c) = State(i, b, "trailer", rem, "more")
    BY <1>3, <1>4, <1>5, Zenon DEF TrailerGoesOn
  <2>2. PlaceAt(m, i, b, "trailer", rem, "more", later)
    BY <1>2 DEF PlaceAt
  <2> QED BY <2>1, <2>2, PlaceIs
<1>6. CASE i # <<>> /\ StartsWithCrLf(i)
  <2>1. PICK x : x = Past(i, 2)
    OBVIOUS
  <2>2. Turn(c) = State(x, b, "trailer", rem, "done")
    BY <1>4, <1>6, <2>1, Zenon
  <2>3. AtEnd(m, b, x \o later)
    BY <1>3, <1>6, <2>1, Zenon DEF TrailerGoesOn
  <2>4. PlaceAt(m, x, b, "trailer", rem, "done", later)
    BY <2>3 DEF PlaceAt
  <2> QED BY <2>2, <2>4, PlaceIs
<1>7. CASE i # <<>> /\ ~StartsWithCrLf(i) /\ LineEnds(i) # {}
  <2>1. PICK x : x = Past(i, LineEnd(i))
    OBVIOUS
  <2>2. Turn(c) = State(x, b, "trailer", rem, "decoding")
    BY <1>4, <1>7, <2>1, Zenon
  <2>3. AtTrailer(m, b, x \o later)
    BY <1>3, <1>7, <2>1, Zenon DEF TrailerGoesOn
  <2>4. PlaceAt(m, x, b, "trailer", rem, "decoding", later)
    BY <2>3 DEF PlaceAt
  <2> QED BY <2>2, <2>4, PlaceIs
<1> QED BY <1>5, <1>6, <1>7

-----------------------------------------------------------------------------
(* The body as the client encoded it.                                      *)

\* Where the decoder is, and what is still to be received.
PlaceInv == msg.kind = "good" => Place(msg, d, Past(msg.bytes, sent))

\* The message as it is sent.
LEMMA StillToCome ==
  ASSUME TypeInv
  PROVE  Past(msg.bytes, sent) \in Text
<1>1. PICK bytes \in Text, l \in Nat : bytes = msg.bytes /\ l = Len(bytes)
  BY MessageIs DEF TypeInv, Text
<1>2. sent \in 0 .. l
  BY <1>1 DEF TypeInv
<1> QED BY <1>1, <1>2, PastIs

\* A turn keeps the place.
LEMMA DecodeKeepsPlace ==
  ASSUME TypeInv, PlaceInv, Decode
  PROVE  PlaceInv'
<1> SUFFICES ASSUME msg.kind = "good" PROVE Place(msg, d', Past(msg.bytes, sent))
  BY DEF PlaceInv, Decode
<1>1. msg \in Messages /\ d \in Decoder /\ d.verdict = "decoding" /\ d' = Turn(d)
  BY DEF TypeInv, Decode
<1>2. PICK later \in Text : later = Past(msg.bytes, sent)
  BY StillToCome
<1>3. Place(msg, d, later)
  BY <1>2 DEF PlaceInv
<1>4. d.stage \in {"size", "data", "trailer"}
  BY <1>1 DEF Decoder, Stages
<1>5. Place(msg, Turn(d), later)
  BY <1>1, <1>3, <1>4, GoodSizeTurn, GoodDataTurn, GoodTrailerTurn
<1> QED BY <1>1, <1>2, <1>5

\* What is received was still to come.
LEMMA ReceiveKeepsPlace ==
  ASSUME TypeInv, PlaceInv, Receive
  PROVE  PlaceInv'
<1>1. msg \in Messages /\ d \in Decoder
  BY DEF TypeInv
<1>2. PICK bytes \in Text, l \in Nat : bytes = msg.bytes /\ l = Len(bytes)
  BY <1>1, MessageIs DEF Text
<1>3. PICK s \in sent + 1 .. l :
        /\ sent' = s /\ msg' = msg /\ d.verdict = "more"
        /\ d' = State(d.in \o SubSeq(bytes, sent + 1, s), d.body, d.stage, d.rem, "decoding")
  BY <1>2, Received
<1> SUFFICES ASSUME msg.kind = "good" PROVE Place(msg, d', Past(bytes, s))
  BY <1>2, <1>3 DEF PlaceInv
<1>4. PICK i \in Text, b \in Text, stage \in Stages, rem \in 0 .. Modulus - 1 :
        i = d.in /\ b = d.body /\ stage = d.stage /\ rem = d.rem
  BY <1>1, StateIs
<1>5. d = State(i, b, stage, rem, "more")
  BY <1>1, <1>3, <1>4, StateIs
<1>6. sent \in 0 .. l
  BY <1>2 DEF TypeInv
<1>7. PICK x \in Text, y \in Text, z \in Text :
        x = SubSeq(bytes, sent + 1, s) /\ y = Past(bytes, s) /\ z = Past(bytes, sent)
  <2>1. sent + 1 \in 1 .. l + 1 /\ s \in (sent + 1) - 1 .. l /\ s \in 0 .. l
    BY <1>6
  <2> QED BY <1>2, <1>6, <2>1, PartIs, PastIs
<1>8. x \o y = z
  <2>1. s \in sent .. l /\ l \in s .. l
    BY <1>6
  <2>2. SubSeq(bytes, sent + 1, s) \o SubSeq(bytes, s + 1, l) = SubSeq(bytes, sent + 1, l)
    BY <1>2, <1>6, <2>1, JoinedParts
  <2>3. y = SubSeq(bytes, s + 1, l) /\ z = SubSeq(bytes, sent + 1, l)
    BY <1>2, <1>7 DEF Past
  <2>4. x \o y = SubSeq(bytes, sent + 1, s) \o SubSeq(bytes, s + 1, l)
    BY <1>7, <2>3
  <2> QED BY <2>2, <2>3, <2>4
<1>9. (i \o x) \o y = i \o z
  <2>1. Taken(i, x, y, z)
    BY <1>8, TakenOver
  <2> QED BY <2>1 DEF Taken
<1>10. PlaceAt(msg, i, b, stage, rem, "more", z)
  <2>1. Place(msg, d, z)
    BY <1>2, <1>7 DEF PlaceInv
  <2> QED BY <1>5, <2>1, PlaceIs
<1>11. PlaceAt(msg, i \o x, b, stage, rem, "decoding", y)
  <2>1. PICK w : w = i \o z /\ w = (i \o x) \o y
    BY <1>9
  <2>2. /\ stage = "size" => AtSize(msg, b, w)
        /\ stage = "data" => AtData(msg, b, rem, w)
        /\ stage = "trailer" => AtTrailer(msg, b, w)
    BY <1>10, <2>1 DEF PlaceAt
  <2> QED BY <2>1, <2>2 DEF PlaceAt
<1>12. d' = State(i \o x, b, stage, rem, "decoding")
  BY <1>3, <1>4, <1>7, Zenon
<1>13. Place(msg, d', y)
  <2>1. PICK w : w = i \o x
    OBVIOUS
  <2>2. d' = State(w, b, stage, rem, "decoding") /\ PlaceAt(msg, w, b, stage, rem, "decoding", y)
    BY <1>11, <1>12, <2>1, Zenon
  <2> QED BY <2>2, PlaceIs
<1> QED BY <1>7, <1>13

\* The decoder starts before the first chunk.
LEMMA FirstPlace == Init => PlaceInv
<1> SUFFICES ASSUME Init, msg.kind = "good" PROVE Place(msg, d, Past(msg.bytes, sent))
  BY DEF PlaceInv
<1>1. msg \in Messages /\ sent = 0 /\ d = Start
  BY DEF Init
<1>2. PICK n \in Nat : n = Len(msg.chunks)
  BY <1>1, PartsType
<1>3. 1 \in 1 .. n + 1
  BY <1>2
<1>4. PICK x \in Text, y \in Text : x = ChunksFrom(msg)[1] /\ y = DataFrom(msg)[1]
  BY <1>1, <1>2, <1>3, ChunksIs, DataFromIs
<1>5. msg.bytes = x /\ msg.body = y
  BY <1>1, <1>4, MessageIs, Zenon DEF WellFormed
<1>6. PICK l \in Nat : l = Len(x)
  BY DEF Text
<1>7. Past(msg.bytes, sent) = x
  BY <1>1, <1>5, <1>6, AllOfIt
<1>8. <<>> \o x = x /\ <<>> \o y = y
  BY NothingAdded
<1>9. AtSize(msg, <<>>, <<>> \o x)
  BY <1>2, <1>3, <1>4, <1>5, <1>8, Zenon DEF AtSize
<1>10. PlaceAt(msg, <<>>, <<>>, "size", 0, "more", x)
  BY <1>9 DEF PlaceAt
<1>11. d = State(<<>>, <<>>, "size", 0, "more")
  BY <1>1, StartType, Zenon
<1>12. Place(msg, d, x)
  BY <1>10, <1>11, PlaceIs
<1> QED BY <1>7, <1>12

\* The place is kept in every behaviour.
LEMMA Places == Spec => []PlaceInv
<1>1. TypeInv /\ PlaceInv /\ [Next]_vars => PlaceInv'
  <2> SUFFICES ASSUME TypeInv, PlaceInv, [Next]_vars PROVE PlaceInv'
    OBVIOUS
  <2>1. CASE Receive
    BY <2>1, ReceiveKeepsPlace
  <2>2. CASE Decode
    BY <2>2, DecodeKeepsPlace
  <2>3. CASE UNCHANGED vars
    BY <2>3 DEF PlaceInv, vars
  <2> QED BY <2>1, <2>2, <2>3 DEF Next
<1> QED BY <1>1, FirstPlace, Types, PTL DEF Spec

\* What the place says of the body.
LEMMA PlaceSays ==
  ASSUME TypeInv, PlaceInv
  PROVE  BodyAsEncoded
<1> SUFFICES ASSUME msg.kind = "good"
             PROVE  /\ Begins(d.body, msg.body)
                    /\ d.verdict # "malformed"
                    /\ d.verdict = "oversize" => Len(msg.body) > MaxBody
                    /\ d.verdict = "done" => d.body = msg.body /\ Begins(d.in, msg.rest)
  BY DEF BodyAsEncoded
<1>1. msg \in Messages /\ d \in Decoder
  BY DEF TypeInv
<1>2. PICK later \in Text : later = Past(msg.bytes, sent)
  BY StillToCome
<1>3. PICK i \in Text, b \in Text, v \in Verdict : i = d.in /\ b = d.body /\ v = d.verdict
  BY <1>1, StateIs
<1>4. PICK stage \in Stages, rem \in 0 .. Modulus - 1 : stage = d.stage /\ rem = d.rem
  BY <1>1, StateIs
<1>5. PlaceAt(msg, i, b, stage, rem, v, later)
  <2>1. d = State(i, b, stage, rem, v)
    BY <1>1, <1>3, <1>4, StateIs
  <2>2. Place(msg, d, later)
    BY <1>2 DEF PlaceInv
  <2> QED BY <2>1, <2>2, PlaceIs
<1>6. v # "malformed" /\ (v = "oversize" => Len(msg.body) > MaxBody /\ Begins(b, msg.body))
  BY <1>5, Zenon DEF PlaceAt
<1>7. msg.body \in Text
  BY <1>1, MessageIs
<1>8. Begins(msg.body, msg.body)
  <2>1. msg.body \o <<>> = msg.body /\ <<>> \in Text
    BY <1>7, NothingAdded
  <2>2. Begins(msg.body, msg.body \o <<>>)
    BY <1>7, <2>1, Precedes
  <2> QED BY <2>1, <2>2, Zenon
<1>9. CASE v = "oversize"
  BY <1>3, <1>6, <1>9
<1>10. CASE v = "done"
  <2>1. b = msg.body /\ i \o later = msg.rest
    BY <1>5, <1>10, Zenon DEF PlaceAt, AtEnd
  <2>2. Begins(i, msg.rest)
    <3>1. Begins(i, i \o later)
      BY Precedes
    <3> QED BY <2>1, <3>1, Zenon
  <2> QED BY <1>3, <1>8, <1>10, <2>1, <2>2
<1>11. CASE v \in {"more", "decoding"}
  <2>1. CASE stage = "size"
    <3>1. AtSize(msg, b, i \o later)
      BY <1>5, <1>11, <2>1 DEF PlaceAt
    <3>2. Begins(b, msg.body)
      BY <1>1, <3>1, StoredBegins
    <3> QED BY <1>3, <1>11, <3>2
  <2>2. CASE stage = "data"
    <3>1. AtData(msg, b, rem, i \o later)
      BY <1>5, <1>11, <2>2 DEF PlaceAt
    <3>2. PICK n \in Nat : n = Len(msg.chunks)
      BY <1>1, PartsType
    <3>3. PICK k \in 1 .. n, t \in Text : msg.body = b \o (t \o DataFrom(msg)[k + 1])
      BY <3>1, <3>2, Zenon DEF AtData
    <3>4. k + 1 \in 1 .. n + 1
      BY <3>2
    <3>5. t \o DataFrom(msg)[k + 1] \in Text
      <4>1. DataFrom(msg)[k + 1] \in Text
        BY <1>1, <3>2, <3>4, DataFromIs
      <4> QED BY <4>1, JoinIs
    <3>6. Begins(b, msg.body)
      <4>1. PICK y \in Text : y = t \o DataFrom(msg)[k + 1]
        BY <3>5
      <4>2. Begins(b, b \o y)
        BY Precedes
      <4> QED BY <3>3, <4>1, <4>2, Zenon
    <3> QED BY <1>3, <1>11, <3>6
  <2>3. CASE stage = "trailer"
    <3>1. b = msg.body
      BY <1>5, <1>11, <2>3 DEF PlaceAt, AtTrailer
    <3> QED BY <1>3, <1>8, <1>11, <3>1
  <2> QED BY <2>1, <2>2, <2>3 DEF Stages
<1> QED BY <1>6, <1>9, <1>10, <1>11 DEF Verdict

(***************************************************************************)
(* Wherever TCP cuts it, a well-formed body is never refused for its form, *)
(* never stored in part or with anything else in it, and ends where the    *)
(* next request begins; it is too large only where it exceeds the cap.     *)
(***************************************************************************)
THEOREM ChunkedBody == Spec => []BodyAsEncoded
<1>1. TypeInv /\ PlaceInv => BodyAsEncoded
  BY PlaceSays
<1> QED BY <1>1, Types, Places, PTL

-----------------------------------------------------------------------------
(* The cap.                                                                *)

\* The body, with what a chunk still promises.
Fits(c) == Len(c.body) + c.rem <= MaxBody

\* The sizes add up without wrapping.
Exact(c) ==
  c.stage = "size" /\ LineEnds(c.in) # {} /\ ~(LineEnd(c.in) >= LineCap) =>
    Len(c.body) + SizeRead(c.in) < Modulus

\* The same, by the fields.
LEMMA FitsIs ==
  ASSUME NEW i, NEW b, NEW s, NEW m, NEW v, NEW c, c = State(i, b, s, m, v)
  PROVE  Fits(c) <=> Len(b) + m <= MaxBody
<1>1. c.body = b /\ c.rem = m
  BY DEF State
<1> QED BY <1>1, Zenon DEF Fits

\* The size that is read is a number.
LEMMA SizeReadType ==
  ASSUME NEW i \in Text, LineEnds(i) # {}
  PROVE  SizeRead(i) \in 0 .. Modulus - 1
<1>1. PICK l \in Nat : l = Len(i)
  BY DEF Text
<1>2. PICK e \in 1 .. l : e = LineEnd(i)
  BY <1>1, LineEndIs
<1>3. e - 1 \in 0 .. l
  OBVIOUS
<1>4. SubSeq(i, 1, e - 1) \in Text
  BY <1>1, <1>3, FirstIs
<1>5. Field(SubSeq(i, 1, e - 1)) \in Text
  BY <1>4, FieldType
<1> QED BY <1>2, <1>5, StrtoullType DEF SizeRead

\* A turn keeps within the cap.
LEMMA TurnFits ==
  ASSUME NEW c \in Decoder, c.verdict = "decoding", Fits(c), Exact(c)
  PROVE  Fits(Turn(c))
<1>1. PICK i \in Text, b \in Text, m \in 0 .. Modulus - 1, s \in Stages :
        c = State(i, b, s, m, "decoding") /\ i = c.in /\ b = c.body /\ s = c.stage
  BY StateIs
<1>2. PICK p \in Nat : p = Len(b)
  BY DEF Text
<1>3. p + m <= MaxBody
  BY <1>1, <1>2, FitsIs
<1>4. CASE s = "size"
  <2>1. c = State(i, b, "size", m, "decoding")
    BY <1>1, <1>4, Zenon
  <2>2. CASE LineEnds(i) = {} \/ LineEnd(i) >= LineCap
    <3>1. PICK v : Turn(c) = State(i, b, "size", m, v)
      BY <2>1, <2>2, SizeTurn
    <3> QED BY <1>2, <1>3, <3>1, FitsIs
  <2>3. CASE LineEnds(i) # {} /\ ~(LineEnd(i) >= LineCap)
    <3>1. PICK size \in Nat : size = SizeRead(i)
      BY <2>3, SizeReadType
    <3> DEFINE x == Past(i, LineEnd(i))
    <3>2. Turn(c) = IF (Len(b) + size) % Modulus > MaxBody
                    THEN State(x, b, "size", m, "oversize")
                    ELSE State(x, b, IF size = 0 THEN "trailer" ELSE "data", size, "decoding")
      BY <2>1, <2>3, <3>1, SizeTurn
    <3> HIDE DEF x
    <3>3. p + size < Modulus /\ p + size \in Nat
      <4>1. Len(c.body) + SizeRead(c.in) < Modulus
        BY <1>1, <1>4, <2>3, Zenon DEF Exact
      <4>2. Len(b) + SizeRead(i) < Modulus
        BY <1>1, <4>1, Zenon
      <4>3. Len(b) + SizeRead(i) = p + size
        BY <1>2, <3>1
      <4> QED BY <4>2, <4>3
    <3>4. (p + size) % Modulus = p + size
      BY <3>3, NotWrapped
    <3>5. CASE p + size > MaxBody
      <4>1. Turn(c) = State(x, b, "size", m, "oversize")
        BY <1>2, <3>2, <3>4, <3>5, Zenon
      <4> QED BY <1>2, <1>3, <4>1, FitsIs
    <3>6. CASE ~(p + size > MaxBody)
      <4>1. PICK stage : Turn(c) = State(x, b, stage, size, "decoding")
        BY <1>2, <3>2, <3>4, <3>6, Zenon
      <4>2. p + size <= MaxBody
        BY <3>6, Bounds
      <4> QED BY <1>2, <4>1, <4>2, FitsIs
    <3> QED BY <3>5, <3>6
  <2> QED BY <2>2, <2>3
<1>5. CASE s = "data" /\ m = 0
  <2>1. c = State(i, b, "data", 0, "decoding")
    BY <1>1, <1>5, Zenon
  <2>2. PICK x, stage, v : Turn(c) = State(x, b, stage, 0, v)
    BY <2>1, EndTurn
  <2> QED BY <1>2, <1>3, <1>5, <2>2, FitsIs
<1>6. CASE s = "data" /\ m # 0
  <2>1. c = State(i, b, "data", m, "decoding")
    BY <1>1, <1>6, Zenon
  <2>2. PICK l \in Nat : l = Len(i)
    BY DEF Text
  <2>3. PICK t : t = IF m > Len(i) THEN Len(i) ELSE m
    OBVIOUS
  <2>4. t \in 0 .. l /\ t <= m
    BY <2>2, <2>3
  <2>5. PICK y \in Text : y = SubSeq(i, 1, t) /\ Len(y) = t
    BY <2>2, <2>4, FirstIs
  <2>6. Len(b \o y) = p + t
    BY <1>2, <2>5, JoinIs
  <2> DEFINE x == Past(i, t)
             z == b \o SubSeq(i, 1, t)
  <2>7. Turn(c) = State(x, z, "data", m - t, "decoding")
    BY <1>6, <2>1, <2>3, DataTurn
  <2>8. Len(z) = p + t
    BY <2>5, <2>6
  <2> HIDE DEF x, z
  <2>9. (p + t) + (m - t) <= MaxBody
    BY <1>3, <2>4, Bounds
  <2> QED BY <2>7, <2>8, <2>9, FitsIs
<1>7. CASE s = "trailer"
  <2>1. c = State(i, b, "trailer", m, "decoding")
    BY <1>1, <1>7, Zenon
  <2>2. PICK x, v : Turn(c) = State(x, b, "trailer", m, v)
    BY <2>1, TrailerTurn
  <2> QED BY <1>2, <1>3, <2>2, FitsIs
<1> QED BY <1>4, <1>5, <1>6, <1>7 DEF Stages

\* In a well-formed message the sizes add up.
LEMMA GoodExact ==
  ASSUME TypeInv, PlaceInv, msg.kind = "good", d.verdict = "decoding"
  PROVE  Exact(d)
<1>1. msg \in Messages /\ d \in Decoder
  BY DEF TypeInv
<1>2. PICK later \in Text : later = Past(msg.bytes, sent)
  BY StillToCome
<1>3. PICK i \in Text, b \in Text : i = d.in /\ b = d.body
  BY <1>1, StateIs
<1> SUFFICES ASSUME d.stage = "size", LineEnds(i) # {} PROVE Len(b) + SizeRead(i) < Modulus
  BY <1>3, Zenon DEF Exact
<1>4. AtSize(msg, b, i \o later)
  <2>1. Place(msg, d, later)
    BY <1>2 DEF PlaceInv
  <2> QED BY <1>3, <2>1 DEF Place
<1>5. SizeGoesOn(msg, i, later, b)
  BY <1>1, <1>4, ReadsAnySize
<1>6. PICK p \in Nat, q \in Nat, size \in Nat : p = Len(b) /\ q = Len(msg.body) /\ size = SizeRead(i)
  BY <1>1, <1>5, MessageIs DEF SizeGoesOn, Text
<1>7. p + size <= q
  BY <1>5, <1>6, Zenon DEF SizeGoesOn
<1>8. q < Modulus
  BY <1>1, <1>6, MessageIs, Zenon DEF WellFormed
<1> QED BY <1>6, <1>7, <1>8, Bounds

\* In a message without huge numbers they do too.
LEMMA SmallExact ==
  ASSUME TypeInv, msg.kind = "malformed", Fits(d)
  PROVE  Exact(d)
<1>1. msg \in Messages /\ d \in Decoder
  BY DEF TypeInv
<1>2. PICK i \in Text, b \in Text, m \in 0 .. Modulus - 1 : i = d.in /\ b = d.body /\ m = d.rem
  BY <1>1, StateIs
<1> SUFFICES ASSUME LineEnds(i) # {} PROVE Len(b) + SizeRead(i) < Modulus
  BY <1>2, Zenon DEF Exact
<1>3. PICK bytes \in Text, l \in Nat : bytes = msg.bytes /\ l = Len(bytes)
  BY <1>1, MessageIs DEF Text
<1>4. sent \in 0 .. l
  BY <1>3 DEF TypeInv
<1>5. PICK n \in 0 .. sent : i = SubSeq(bytes, n + 1, sent)
  BY <1>2, <1>3 DEF TypeInv
<1>6. Len(i) = sent - n
  <2>1. n + 1 \in 1 .. l + 1 /\ sent \in (n + 1) - 1 .. l /\ sent - (n + 1) + 1 = sent - n
    BY <1>4
  <2> QED BY <1>3, <1>5, <2>1, PartIs
<1>7. PICK e \in 1 .. sent - n : e = LineEnd(i)
  BY <1>6, LineEndIs
<1>8. SubSeq(i, 1, e - 1) = SubSeq(bytes, n + 1, n + (e - 1))
  <2>1. e - 1 \in 0 .. sent - n
    BY <1>4
  <2> QED BY <1>3, <1>4, <1>5, <2>1, PartOfPart
<1>9. n + 1 \in 1 .. l /\ n + (e - 1) \in (n + 1) - 1 .. l
  BY <1>4
<1>10. Strtoull(Field(SubSeq(bytes, n + 1, n + (e - 1)))) < Modulus - MaxBody
  <2>1. SmallSizes(msg)
    BY <1>1, MessageIs
  <2> QED BY <1>3, <1>9, <2>1, Zenon DEF SmallSizes
<1>11. SizeRead(i) < Modulus - MaxBody
  BY <1>7, <1>8, <1>10, Zenon DEF SizeRead
<1>12. PICK p \in Nat, size \in Nat : p = Len(b) /\ size = SizeRead(i)
  <2>1. SizeRead(i) \in Nat
    BY SizeReadType, Bounds
  <2> QED BY <2>1 DEF Text
<1>13. p + m <= MaxBody
  BY <1>2, <1>12 DEF Fits
<1> QED BY <1>11, <1>12, <1>13, Bounds

\* Nothing is received into the body.
LEMMA ReceiveFits ==
  ASSUME TypeInv, Receive, Fits(d)
  PROVE  Fits(d')
<1>1. PICK x : d' = State(x, d.body, d.stage, d.rem, "decoding")
  BY Received
<1> QED BY <1>1, FitsIs DEF Fits

(***************************************************************************)
(* CTTP_MAX_BODY_SZ bounds the body of every message in which no size      *)
(* comes near the word size, what a chunk still promises included.         *)
(***************************************************************************)
THEOREM ChunkedCap == Spec => []BodyWithinCap
<1>1. Init => BodyWithinCap
  <2> SUFFICES ASSUME Init PROVE Len(d.body) + d.rem <= MaxBody
    BY DEF BodyWithinCap
  <2>1. d.body = <<>> /\ d.rem = 0
    BY DEF Init, Start
  <2> QED BY <2>1, Bounds
<1>2. TypeInv /\ PlaceInv /\ BodyWithinCap /\ [Next]_vars => BodyWithinCap'
  <2> SUFFICES ASSUME TypeInv, PlaceInv, BodyWithinCap, [Next]_vars PROVE BodyWithinCap'
    OBVIOUS
  <2>1. CASE UNCHANGED vars
    BY <2>1 DEF BodyWithinCap, vars
  <2>2. CASE Next
    <3>1. msg' = msg
      BY <2>2 DEF Next, Receive, Decode
    <3> SUFFICES ASSUME msg.kind # "huge" PROVE Fits(d')
      BY <3>1 DEF BodyWithinCap, Fits
    <3>2. Fits(d)
      BY DEF BodyWithinCap, Fits
    <3>3. CASE Receive
      BY <3>2, <3>3, ReceiveFits
    <3>4. CASE Decode
      <4>1. d \in Decoder /\ d.verdict = "decoding" /\ d' = Turn(d)
        BY <3>4 DEF TypeInv, Decode
      <4>2. msg.kind \in {"good", "malformed"}
        BY MessageIs DEF TypeInv
      <4>3. Exact(d)
        BY <3>2, <4>1, <4>2, GoodExact, SmallExact
      <4> QED BY <3>2, <4>1, <4>3, TurnFits
    <3> QED BY <2>2, <3>3, <3>4 DEF Next
  <2> QED BY <2>1, <2>2
<1> QED BY <1>1, <1>2, Types, Places, PTL DEF Spec

=============================================================================
