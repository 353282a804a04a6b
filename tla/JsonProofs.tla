----------------------------- MODULE JsonProofs -----------------------------
(* Commas are right at every depth: the proofs about module Json.          *)
EXTENDS Json, TLAPS

\* Adding tokens that fit to a body that is right leaves it right.
LEMMA AppendKeeps ==
  ASSUME NEW b \in Token, body \in Seq(Token), body # <<>>, CommasSeparate,
         MayFollow(body[Len(body)], b), body' = Append(body, b)
  PROVE  /\ CommasSeparate'
         /\ body' \in Seq(Token)
         /\ body' # <<>>
         /\ body'[Len(body')] = b
<1>1. /\ body' \in Seq(Token)
      /\ Len(body') = Len(body) + 1
      /\ body'[Len(body) + 1] = b
      /\ \A n \in 1 .. Len(body) : body'[n] = body[n]
  OBVIOUS
<1>2. ASSUME NEW n \in 1 .. (Len(body') - 1)
      PROVE  MayFollow(body'[n], body'[n + 1])
  <2>1. CASE n = Len(body)
    BY <1>1, <2>1
  <2>2. CASE n < Len(body)
    <3>1. n \in 1 .. (Len(body) - 1) /\ n \in 1 .. Len(body) /\ n + 1 \in 1 .. Len(body)
      BY <2>2
    <3>2. body'[n] = body[n] /\ body'[n + 1] = body[n + 1]
      BY <1>1, <3>1
    <3> QED BY <3>1, <3>2 DEF CommasSeparate
  <2> QED BY <1>1, <2>1, <2>2
<1>3. CommasSeparate'
  BY <1>2 DEF CommasSeparate
<1> QED BY <1>1, <1>3

\* The same for two tokens, which a comma and what it introduces are.
LEMMA AppendTwoKeeps ==
  ASSUME NEW b \in Token, body \in Seq(Token), body # <<>>, CommasSeparate,
         MayFollow(body[Len(body)], "comma"), MayFollow("comma", b),
         body' = body \o <<"comma">> \o <<b>>
  PROVE  /\ CommasSeparate'
         /\ body' \in Seq(Token)
         /\ body' # <<>>
         /\ body'[Len(body')] = b
<1>1. /\ body' \in Seq(Token)
      /\ Len(body') = Len(body) + 2
      /\ body'[Len(body) + 1] = "comma"
      /\ body'[Len(body) + 2] = b
      /\ \A n \in 1 .. Len(body) : body'[n] = body[n]
  BY DEF Token
<1>2. ASSUME NEW n \in 1 .. (Len(body') - 1)
      PROVE  MayFollow(body'[n], body'[n + 1])
  <2>1. CASE n = Len(body)
    BY <1>1, <2>1
  <2>2. CASE n = Len(body) + 1
    BY <1>1, <2>2
  <2>3. CASE n < Len(body)
    <3>1. n \in 1 .. (Len(body) - 1) /\ n \in 1 .. Len(body) /\ n + 1 \in 1 .. Len(body)
      BY <2>3
    <3>2. body'[n] = body[n] /\ body'[n + 1] = body[n + 1]
      BY <1>1, <3>1
    <3> QED BY <3>1, <3>2 DEF CommasSeparate
  <2> QED BY <1>1, <2>1, <2>2, <2>3
<1>3. CommasSeparate'
  BY <1>2 DEF CommasSeparate
<1> QED BY <1>1, <1>3

\* json_key and what follows it: a comma is put exactly where one is due.
LEMMA AddKeeps ==
  ASSUME IndInv, open > 0, NEW b \in {"item", "open"},
         body' = body \o Separator \o <<b>>
  PROVE  /\ CommasSeparate'
         /\ body' \in Seq(Token)
         /\ body' # <<>>
         /\ body'[Len(body')] = b
<1>1. /\ body \in Seq(Token) /\ body # <<>> /\ CommasSeparate
      /\ body[Len(body)] \in {"open", "close", "item"}
      /\ jf[jd] = 1 <=> body[Len(body)] = "open"
      /\ b \in Token
  BY DEF IndInv, TypeOK, FlagIsFresh, Token
<1>2. CASE jf[jd] = 1
  <2>1. body' = Append(body, b)
    BY <1>1, <1>2 DEF Separator
  <2>2. MayFollow(body[Len(body)], b)
    BY <1>1, <1>2 DEF MayFollow
  <2> QED BY <1>1, <2>1, <2>2, AppendKeeps
<1>3. CASE jf[jd] # 1
  <2>1. body' = body \o <<"comma">> \o <<b>>
    BY <1>3 DEF Separator
  <2>2. MayFollow(body[Len(body)], "comma") /\ MayFollow("comma", b)
    BY <1>1, <1>3 DEF MayFollow
  <2> QED BY <1>1, <2>1, <2>2, AppendTwoKeeps
<1> QED BY <1>2, <1>3

\* The level stays among the flags, whatever the nesting.
LEMMA LevelsInRange ==
  ASSUME TypeOK
  PROVE  /\ Deeper \in 0 .. (Levels - 1)
         /\ FlagOfNext = Deeper
         /\ Shallower \in 0 .. (Levels - 1)
         /\ 0 \in 0 .. (Levels - 1)
BY LevelsAssumption DEF TypeOK, Deeper, FlagOfNext, Shallower

\* A blank builder satisfies the invariant.
LEMMA BlankIsInv ==
  ASSUME body = <<>>, jd = 0, jf = [l \in 0 .. (Levels - 1) |-> 0],
         open = 0, done = FALSE
  PROVE  IndInv
<1>1. jf \in [0 .. (Levels - 1) -> 0 .. 1]
  OBVIOUS
<1>2. body \in Seq(Token) /\ jd \in 0 .. (Levels - 1) /\ open \in Nat
  BY LevelsAssumption
<1>3. done \in BOOLEAN
  OBVIOUS
<1>4. FlagIsFresh /\ CommasSeparate
  BY DEF FlagIsFresh, CommasSeparate
<1> QED BY <1>1, <1>2, <1>3, <1>4 DEF IndInv, TypeOK

\* Every call of the builder keeps the flag in step with the text.
LEMMA StepKeepsInv ==
  ASSUME IndInv, [Next]_vars
  PROVE  IndInv'
<1> USE LevelsAssumption
<1>0. TypeOK
  BY DEF IndInv
<1>1. CASE Begin
  <2>1. body' = <<"open">> /\ open' = 1 /\ jd' = 0 /\ done' = done
    BY <1>1 DEF Begin, OuterLevel
  <2>2. jf' = [jf EXCEPT ![0] = 1]
    BY <1>1 DEF Begin, OuterLevel
  <2>3. TypeOK'
    BY <1>0, <2>1, <2>2, LevelsInRange DEF TypeOK, Token
  <2>4. jf'[jd'] = 1
    BY <1>0, <2>1, <2>2, LevelsInRange DEF TypeOK
  <2>5. CommasSeparate' /\ FlagIsFresh'
    BY <2>1, <2>4 DEF CommasSeparate, FlagIsFresh
  <2> QED BY <2>3, <2>5 DEF IndInv
<1>2. CASE Item
  <2>1. /\ CommasSeparate' /\ body' \in Seq(Token)
        /\ body' # <<>> /\ body'[Len(body')] = "item"
    BY <1>2, AddKeeps DEF Item, Adding
  <2>2. jd' = jd /\ open' = open /\ done' = done /\ jf' = [jf EXCEPT ![jd] = 0]
    BY <1>2 DEF Item
  <2>3. TypeOK'
    BY <1>0, <2>1, <2>2 DEF TypeOK
  <2>4. jf'[jd'] = 0
    BY <1>0, <2>2 DEF TypeOK
  <2>5. FlagIsFresh'
    BY <2>1, <2>4 DEF FlagIsFresh
  <2> QED BY <2>1, <2>3, <2>5 DEF IndInv
<1>3. CASE Open
  <2>1. /\ CommasSeparate' /\ body' \in Seq(Token)
        /\ body' # <<>> /\ body'[Len(body')] = "open"
    BY <1>3, AddKeeps DEF Open, Adding
  <2>2. /\ jd' = Deeper /\ open' = open + 1 /\ done' = done
        /\ jf' = [jf EXCEPT ![jd] = 0, ![Deeper] = 1]
    BY <1>0, <1>3, LevelsInRange DEF Open
  <2>3. TypeOK'
    BY <1>0, <2>1, <2>2, LevelsInRange DEF TypeOK
  <2>4. jf'[jd'] = 1
    BY <1>0, <2>2, LevelsInRange DEF TypeOK
  <2>5. FlagIsFresh'
    BY <2>1, <2>4 DEF FlagIsFresh
  <2> QED BY <2>1, <2>3, <2>5 DEF IndInv
<1>4. CASE Close
  <2>1. MayFollow(body[Len(body)], "close") /\ body # <<>> /\ "close" \in Token
    <3>1. body # <<>> /\ body[Len(body)] \in {"open", "close", "item"}
      BY <1>4 DEF Close, IndInv, TypeOK, FlagIsFresh, Token
    <3> QED BY <3>1 DEF MayFollow, Token
  <2>2. /\ CommasSeparate' /\ body' \in Seq(Token)
        /\ body' # <<>> /\ body'[Len(body')] = "close"
    BY <1>0, <1>4, <2>1, AppendKeeps DEF Close, IndInv, TypeOK
  <2>3. /\ jd' = Shallower /\ open' = open - 1 /\ open > 1 /\ done' = done
        /\ jf' = [jf EXCEPT ![Shallower] = 0]
    BY <1>4 DEF Close
  <2>4. TypeOK'
    BY <1>0, <2>2, <2>3, LevelsInRange DEF TypeOK
  <2>5. jf'[jd'] = 0
    BY <1>0, <2>3, LevelsInRange DEF TypeOK
  <2>6. FlagIsFresh'
    BY <2>2, <2>5 DEF FlagIsFresh
  <2> QED BY <2>2, <2>4, <2>6 DEF IndInv
<1>5. CASE End
  <2>1. MayFollow(body[Len(body)], "close") /\ body # <<>> /\ "close" \in Token
    <3>1. body # <<>> /\ body[Len(body)] \in {"open", "close", "item"}
      BY <1>5 DEF End, IndInv, TypeOK, FlagIsFresh, Token
    <3> QED BY <3>1 DEF MayFollow, Token
  <2>2. CommasSeparate' /\ body' \in Seq(Token)
    BY <1>0, <1>5, <2>1, AppendKeeps DEF End, IndInv, TypeOK
  <2>3. open' = 0 /\ done' = TRUE /\ jd' = jd /\ jf' = jf
    BY <1>5 DEF End
  <2> QED BY <1>0, <2>2, <2>3 DEF IndInv, TypeOK, FlagIsFresh
<1>6. CASE Reset
  <2>1. /\ body' = <<>> /\ jd' = 0 /\ open' = 0 /\ done' = FALSE
        /\ jf' = [l \in 0 .. (Levels - 1) |-> 0]
    BY <1>6 DEF Reset
  <2>2. TypeOK'
    <3>1. jf' \in [0 .. (Levels - 1) -> 0 .. 1]
      BY <2>1
    <3>2. body' \in Seq(Token) /\ jd' \in 0 .. (Levels - 1) /\ open' \in Nat
      BY <2>1
    <3>3. done' \in BOOLEAN
      BY <2>1
    <3> QED BY <3>1, <3>2, <3>3 DEF TypeOK
  <2>3. FlagIsFresh' /\ CommasSeparate'
    BY <2>1 DEF FlagIsFresh, CommasSeparate
  <2> QED BY <2>2, <2>3 DEF IndInv
<1>7. CASE UNCHANGED vars
  BY <1>7 DEF vars, IndInv, TypeOK, FlagIsFresh, CommasSeparate
<1> QED BY <1>1, <1>2, <1>3, <1>4, <1>5, <1>6, <1>7 DEF Next

(***************************************************************************)
(* The invariant of the builder, for any number of flags and any depth.    *)
(***************************************************************************)
THEOREM BuilderInvariance == Spec => []IndInv
<1>1. Init => IndInv
  BY BlankIsInv DEF Init
<1>2. IndInv /\ [Next]_vars => IndInv'
  BY StepKeepsInv
<1> QED BY <1>1, <1>2, PTL DEF Spec

(***************************************************************************)
(* Whatever a handler builds, commas stand exactly between the items of a  *)
(* container, also where levels share the last flag.                       *)
(***************************************************************************)
THEOREM CommasAreRight == Spec => []CommasSeparate
<1>1. IndInv => CommasSeparate
  BY DEF IndInv
<1> QED BY <1>1, BuilderInvariance, PTL

=============================================================================
