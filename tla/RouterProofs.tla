---------------------------- MODULE RouterProofs ----------------------------
(***************************************************************************)
(* The inductive invariant of the router, for any route table, paths,      *)
(* number of middlewares and of capture slots.                             *)
(***************************************************************************)
EXTENDS RouterProperties, FiniteSetTheorems, TLAPS

-----------------------------------------------------------------------------
(* Counting captures.                                                      *)

\* The captures among the first n segments are finitely many, and counted.
LEMMA CapturesFinite ==
  ASSUME NEW p, NEW n \in Nat
  PROVE  /\ IsFiniteSet(Captures(p) \cap (1 .. n))
         /\ Cardinality(Captures(p) \cap (1 .. n)) \in Nat
<1>1. IsFiniteSet(1 .. n)
  BY FS_Interval
<1>2. Captures(p) \cap (1 .. n) \in SUBSET (1 .. n)
  OBVIOUS
<1> QED BY <1>1, <1>2, FS_Subset, FS_CardinalityType

\* A longer prefix has no fewer captures.
LEMMA CapturesMonotone ==
  ASSUME NEW p, NEW m \in Nat, NEW n \in Nat, m <= n
  PROVE  Cardinality(Captures(p) \cap (1 .. m)) <= Cardinality(Captures(p) \cap (1 .. n))
<1>1. Captures(p) \cap (1 .. m) \in SUBSET (Captures(p) \cap (1 .. n))
  OBVIOUS
<1> QED BY <1>1, CapturesFinite, FS_Subset

\* One more segment is one more capture, unless it is a literal word.
LEMMA CapturesStep ==
  ASSUME NEW p, NEW n \in 1 .. Len(p), Len(p) \in Nat
  PROVE  Cardinality(Captures(p) \cap (1 .. n)) =
           IF p[n].kind = "word" THEN Cardinality(Captures(p) \cap (1 .. (n - 1)))
                                 ELSE Cardinality(Captures(p) \cap (1 .. (n - 1))) + 1
<1> DEFINE S == Captures(p) \cap (1 .. (n - 1))
<1>1. IsFiniteSet(S)
  BY CapturesFinite
<1>2. CASE p[n].kind = "word"
  <2>1. Captures(p) \cap (1 .. n) = S
    BY <1>2 DEF Captures
  <2> QED BY <1>2, <2>1
<1>3. CASE p[n].kind # "word"
  <2>1. Captures(p) \cap (1 .. n) = S \cup {n}
    BY <1>3 DEF Captures
  <2>2. n \notin S
    OBVIOUS
  <2> HIDE DEF S
  <2>3. Cardinality(S \cup {n}) = Cardinality(S) + 1
    BY <1>1, <2>2, FS_AddElement
  <2> QED BY <1>3, <2>1, <2>3 DEF S
<1> QED BY <1>2, <1>3

\* If a longer prefix has room for its captures, so has a shorter one.
LEMMA RoomMonotone ==
  ASSUME NEW p, NEW m \in Nat, NEW n \in Nat, m <= n, RoomFor(p, n)
  PROVE  RoomFor(p, m)
<1> DEFINE A == Cardinality(Captures(p) \cap (1 .. m))
<1> DEFINE B == Cardinality(Captures(p) \cap (1 .. n))
<1>1. A \in Nat /\ B \in Nat /\ MaxParams \in Nat
  BY CapturesFinite, MaxParamsAssumption
<1>2. A <= B
  BY CapturesMonotone
<1>3. B <= MaxParams
  BY DEF RoomFor
<1> HIDE DEF A, B
<1>4. A <= MaxParams
  BY <1>1, <1>2, <1>3
<1> QED BY <1>4 DEF A, RoomFor

-----------------------------------------------------------------------------
(* What it means that a pattern fits, seen from segment m.                 *)

(***************************************************************************)
(* If the first m - 1 segments fit, a pattern that fits either ends there  *)
(* with the path, or goes on with a segment that fits and has a slot left. *)
(***************************************************************************)
LEMMA FitsBeyond ==
  ASSUME NEW p \in Seq(Segment), NEW q \in Seq(Words), NEW m \in Nat \ {0},
         m <= Len(p) + 1, PrefixFits(p, q, m - 1), Fits(p, q)
  PROVE  \/ m = Len(p) + 1 /\ Len(p) = Len(q)
         \/ /\ m <= Len(p)
            /\ RoomFor(p, m)
            /\ \/ p[m].kind = "rest" /\ \A j \in m .. Len(q) : Decodes(q[j])
               \/ p[m].kind # "rest" /\ m <= Len(q) /\ SegmentFits(p[m], q[m])
<1>0. Len(p) \in Nat /\ Len(q) \in Nat /\ MaxParams \in Nat
  BY MaxParamsAssumption
<1>1. CASE Len(p) = Len(q) /\ PrefixFits(p, q, Len(p)) /\ RoomFor(p, Len(p))
  <2>1. CASE m = Len(p) + 1
    BY <1>1, <2>1
  <2>2. CASE m <= Len(p)
    <3>1. RoomFor(p, m)
      BY <1>0, <1>1, <2>2, RoomMonotone
    <3>2. p[m].kind # "rest" /\ m <= Len(q) /\ SegmentFits(p[m], q[m])
      BY <1>0, <1>1, <2>2 DEF PrefixFits
    <3> QED BY <2>2, <3>1, <3>2
  <2> QED BY <1>0, <2>1, <2>2
<1>2. ASSUME NEW w \in 1 .. Len(p), p[w].kind = "rest", PrefixFits(p, q, w - 1),
             \A j \in w .. Len(q) : Decodes(q[j]), RoomFor(p, w)
      PROVE  /\ m <= Len(p)
             /\ RoomFor(p, m)
             /\ \/ p[m].kind = "rest" /\ \A j \in m .. Len(q) : Decodes(q[j])
                \/ p[m].kind # "rest" /\ m <= Len(q) /\ SegmentFits(p[m], q[m])
  <2>1. m <= w
    BY <1>0, <1>2 DEF PrefixFits
  <2>2. m <= Len(p)
    BY <1>0, <2>1
  <2>3. RoomFor(p, m)
    BY <1>0, <1>2, <2>1, RoomMonotone
  <2>4. CASE m = w
    BY <1>2, <2>2, <2>3, <2>4
  <2>5. CASE m < w
    <3>1. p[m].kind # "rest" /\ m <= Len(q) /\ SegmentFits(p[m], q[m])
      BY <1>0, <1>2, <2>5 DEF PrefixFits
    <3> QED BY <2>2, <2>3, <3>1
  <2> QED BY <1>0, <2>1, <2>4, <2>5
<1> QED BY <1>1, <1>2 DEF Fits

-----------------------------------------------------------------------------
(* Types.                                                                  *)

\* The pattern of a registered route.
LEMMA PatternType ==
  ASSUME NEW t \in Seq(Route), NEW n \in 1 .. Len(t)
  PROVE  /\ t[n] \in Route
         /\ t[n].pattern \in Seq(Segment)
         /\ Len(t[n].pattern) \in Nat
<1>1. t[n] \in Route
  OBVIOUS
<1>2. t[n].pattern \in Seq(Segment)
  BY <1>1 DEF Route
<1> QED BY <1>1, <1>2

\* The same of the route being tried, and of the path.
LEMMA WalkTypes ==
  ASSUME TypeOK, Trying
  PROVE  /\ r \in 1 .. Len(routes)
         /\ Len(routes) \in Nat
         /\ routes[r] \in Route
         /\ pattern \in Seq(Segment)
         /\ Len(pattern) \in Nat
         /\ path \in Seq(Words)
         /\ Len(path) \in Nat
<1>1. routes \in Seq(Route) /\ path \in Seq(Words) /\ r \in 1 .. Len(routes)
  BY DEF TypeOK, Trying
<1>2. Len(routes) \in Nat /\ Len(path) \in Nat
  BY <1>1
<1> QED BY <1>1, <1>2, PatternType DEF pattern

\* A slot that is filled keeps the slots typed.
LEMMA FillType ==
  ASSUME TypeOK, NEW whole \in BOOLEAN, np < MaxParams, Fill(whole)
  PROVE  /\ params' \in [1 .. MaxParams -> Capture]
         /\ params'[np + 1] = [route |-> r, seg |-> k, whole |-> whole]
         /\ \A x \in 1 .. np : params'[x] = params[x]
<1>1. np \in Nat /\ np + 1 \in 1 .. MaxParams
  BY MaxParamsAssumption DEF TypeOK
<1>2. [route |-> r, seg |-> k, whole |-> whole] \in Capture
  BY DEF TypeOK, Capture
<1>3. params \in [1 .. MaxParams -> Capture]
  BY DEF TypeOK
<1> DEFINE new == [route |-> r, seg |-> k, whole |-> whole]
<1>4. params' = [params EXCEPT ![np + 1] = new]
  BY DEF Fill
<1>5. new \in Capture
  BY <1>2
<1> HIDE DEF new
<1>6. params' \in [1 .. MaxParams -> Capture]
  BY <1>3, <1>4, <1>5
<1>7. params'[np + 1] = new
  BY <1>1, <1>3, <1>4
<1>8. \A x \in 1 .. np : params'[x] = params[x]
  BY <1>1, <1>3, <1>4
<1> QED BY <1>6, <1>7, <1>8 DEF new

-----------------------------------------------------------------------------
(* The three ways an iteration of route_match may end.                     *)

\* What no step of the walk changes.
Untouched == UNCHANGED <<routes, method, path, mwCur, marked, chainVars, responded, logged>>

\* Fitting and Allowed do not depend on where the walk is.
LEMMA TableUntouched ==
  ASSUME Untouched
  PROVE  /\ routes' = routes /\ method' = method /\ path' = path
         /\ mwCur' = mwCur /\ marked' = marked /\ stack' = stack
         /\ entered' = entered /\ responded' = responded /\ logged' = logged
         /\ Fitting' = Fitting
         /\ \A n : Allowed(n)' <=> Allowed(n)
BY DEF Untouched, chainVars, Fitting, Allowed, Fits

\* A route that does not fit is left behind.
LEMMA NoMatchKeeps ==
  ASSUME IndInv, Trying, NoMatch, Untouched, ~Fits(pattern, path),
         params' \in [1 .. MaxParams -> Capture]
  PROVE  IndInv'
<1>0. TypeOK /\ MaxParams \in Nat
  BY MaxParamsAssumption DEF IndInv
<1>1. /\ r \in 1 .. Len(routes) /\ Len(routes) \in Nat
      /\ r' = r + 1 /\ k' = 1 /\ np' = 0 /\ pc = "match"
      /\ nparams' = nparams /\ mismatch' = mismatch /\ pc' = pc /\ outcome' = outcome
  BY <1>0, WalkTypes DEF NoMatch, Trying
<1>2. TypeOK'
  BY <1>0, <1>1, TableUntouched DEF TypeOK
<1>3. ChainInOrder' /\ PhaseSound' /\ outcome = "none"
  BY <1>1, TableUntouched DEF IndInv, ChainInOrder, PhaseSound
<1>4. WalkSound'
  <2>1. SUFFICES ASSUME r' <= Len(routes')
                 PROVE  /\ k' <= Len(pattern') + 1
                        /\ PrefixFits(pattern', path', k' - 1)
                        /\ np' = Cardinality(Captures(pattern') \cap (1 .. (k' - 1)))
                        /\ SlotsHold(np, k)'
    BY DEF WalkSound
  <2>2. pattern' \in Seq(Segment) /\ Len(pattern') \in Nat
    BY <1>0, <1>1, <2>1, PatternType, TableUntouched DEF TypeOK, pattern
  <2>3. PrefixFits(pattern', path', 0) /\ Len(path') \in Nat
    BY <1>0, <2>2, TableUntouched DEF PrefixFits, TypeOK
  <2>4. Captures(pattern') \cap (1 .. 0) = {}
    OBVIOUS
  <2>5. Cardinality(Captures(pattern') \cap (1 .. 0)) = 0
    BY <2>4, FS_EmptySet
  <2>6. \A j \in Captures(pattern') : j \in Nat \ {0}
    BY <2>2 DEF Captures
  <2>7. SlotsHold(np, k)'
    BY <1>1, <2>6 DEF SlotsHold
  <2> QED BY <1>1, <2>2, <2>3, <2>5, <2>7
<1>5. PastSound'
  <2>1. r \notin Fitting
    BY <1>1 DEF Fitting, pattern
  <2>2. /\ \A n \in 1 .. (r - 1) : n \in Fitting => ~Allowed(n)
        /\ mismatch <=> \E n \in 1 .. (r - 1) : n \in Fitting
    BY <1>1 DEF IndInv, PastSound
  <2>3. \A n \in 1 .. r : n \in 1 .. (r - 1) \/ n = r
    BY <1>1
  <2>4. \A n \in 1 .. (r - 1) : n \in 1 .. r
    BY <1>1
  <2>5. /\ \A n \in 1 .. r : n \in Fitting => ~Allowed(n)
        /\ mismatch <=> \E n \in 1 .. r : n \in Fitting
    BY <2>1, <2>2, <2>3, <2>4
  <2>6. r' - 1 = r /\ r' <= Len(routes') + 1
    BY <1>1, TableUntouched
  <2> QED BY <1>1, <2>5, <2>6, TableUntouched DEF PastSound
<1>6. RoutedAsSpecified' /\ OwnCaptures'
  BY <1>1, <1>3 DEF RoutedAsSpecified, OwnCaptures
<1> QED BY <1>2, <1>3, <1>4, <1>5, <1>6 DEF IndInv

\* What OwnCaptures says of n slots and the route being tried.
AllCaptured(n) ==
  /\ \A x \in 1 .. n :
       /\ params'[x].route = r
       /\ params'[x].whole
       /\ params'[x].seg \in Captures(pattern)
       /\ \A y \in 1 .. (x - 1) : params'[y].seg < params'[x].seg
  /\ \A j \in Captures(pattern) :
       (\A w \in 1 .. (j - 1) : pattern[w].kind # "rest") =>
         j \in {params'[x].seg : x \in 1 .. n}

\* A route that fits is run, or counts as a mismatch of the method.
LEMMA MatchedKeeps ==
  ASSUME IndInv, Trying, NEW n \in 0 .. MaxParams, Matched(n), Untouched,
         Fits(pattern, path), AllCaptured(n),
         params' \in [1 .. MaxParams -> Capture]
  PROVE  IndInv'
<1>0. TypeOK /\ MaxParams \in Nat
  BY MaxParamsAssumption DEF IndInv
<1>1. /\ r \in 1 .. Len(routes) /\ Len(routes) \in Nat /\ pc = "match" /\ outcome = "none"
      /\ nparams' = n
      /\ r \in Fitting
      /\ Allowed(r) <=> Serves(method)
  BY <1>0, WalkTypes DEF Matched, Trying, IndInv, PhaseSound, Fitting, pattern, Allowed, Serves
<1>2. /\ \A x \in 1 .. (r - 1) : x \in Fitting => ~Allowed(x)
      /\ mismatch <=> \E x \in 1 .. (r - 1) : x \in Fitting
  BY <1>1 DEF IndInv, PastSound
<1>3. CASE Serves(method)
  <2>1. /\ pc' = "handler" /\ outcome' = "handler"
        /\ r' = r /\ k' = k /\ np' = np /\ mismatch' = mismatch
    BY <1>3 DEF Matched
  <2>2. TypeOK'
    BY <1>0, <1>1, <2>1, TableUntouched DEF TypeOK, Outcome
  <2>3. ChainInOrder' /\ PhaseSound' /\ WalkSound' /\ PastSound'
    BY <2>1, TableUntouched
    DEF IndInv, ChainInOrder, PhaseSound, WalkSound, PastSound
  <2>4. RoutedAsSpecified'
    <3>1. \A x \in Fitting : Allowed(x) => r <= x
      <4>1. SUFFICES ASSUME NEW x \in Fitting, Allowed(x), x < r PROVE FALSE
        BY <1>1 DEF Fitting
      <4>2. x \in 1 .. (r - 1)
        BY <1>1, <4>1 DEF Fitting
      <4> QED BY <1>2, <4>1, <4>2
    <3>2. outcome' = "handler" =>
            /\ r' \in {x \in Fitting' : Allowed(x)'}
            /\ \A x \in {y \in Fitting' : Allowed(y)'} : r' <= x
      BY <1>1, <1>3, <2>1, <3>1, TableUntouched
    <3> QED BY <2>1, <3>2 DEF RoutedAsSpecified
  <2>5. OwnCaptures'
    <3>1. routes'[r'].pattern = pattern
      BY <2>1, TableUntouched DEF pattern
    <3> QED BY <1>1, <2>1, <3>1 DEF OwnCaptures, AllCaptured, Seen
  <2> QED BY <2>2, <2>3, <2>4, <2>5 DEF IndInv
<1>4. CASE ~Serves(method)
  <2>1. /\ pc' = pc /\ outcome' = outcome
        /\ r' = r + 1 /\ k' = 1 /\ np' = 0 /\ mismatch' = TRUE
    BY <1>4 DEF Matched
  <2>2. TypeOK'
    BY <1>0, <1>1, <2>1, TableUntouched DEF TypeOK
  <2>3. ChainInOrder' /\ PhaseSound'
    BY <1>1, <2>1, TableUntouched DEF IndInv, ChainInOrder, PhaseSound
  <2>4. WalkSound'
    <3>1. SUFFICES ASSUME r' <= Len(routes')
                   PROVE  /\ k' <= Len(pattern') + 1
                          /\ PrefixFits(pattern', path', k' - 1)
                          /\ np' = Cardinality(Captures(pattern') \cap (1 .. (k' - 1)))
                          /\ SlotsHold(np, k)'
      BY DEF WalkSound
    <3>2. pattern' \in Seq(Segment) /\ Len(pattern') \in Nat
      BY <1>0, <1>1, <2>1, <3>1, PatternType, TableUntouched DEF TypeOK, pattern
    <3>3. PrefixFits(pattern', path', 0) /\ Len(path') \in Nat
      BY <1>0, <3>2, TableUntouched DEF PrefixFits, TypeOK
    <3>4. Captures(pattern') \cap (1 .. 0) = {}
      OBVIOUS
    <3>5. Cardinality(Captures(pattern') \cap (1 .. 0)) = 0
      BY <3>4, FS_EmptySet
    <3>6. \A j \in Captures(pattern') : j \in Nat \ {0}
      BY <3>2 DEF Captures
    <3>7. SlotsHold(np, k)'
      BY <2>1, <3>6 DEF SlotsHold
    <3> QED BY <2>1, <3>2, <3>3, <3>5, <3>7
  <2>5. PastSound'
    <3>1. \A x \in 1 .. r : x \in 1 .. (r - 1) \/ x = r
      BY <1>1
    <3>2. /\ \A x \in 1 .. r : x \in Fitting => ~Allowed(x)
          /\ \E x \in 1 .. r : x \in Fitting
      BY <1>1, <1>2, <1>4, <3>1
    <3>3. r' - 1 = r /\ r' <= Len(routes') + 1
      BY <1>1, <2>1, TableUntouched
    <3> QED BY <2>1, <3>2, <3>3, TableUntouched DEF PastSound
  <2>6. RoutedAsSpecified' /\ OwnCaptures'
    BY <1>1, <2>1 DEF RoutedAsSpecified, OwnCaptures
  <2> QED BY <2>2, <2>3, <2>4, <2>5, <2>6 DEF IndInv
<1> QED BY <1>3, <1>4

\* What SlotsHold will say once the walk stands at segment m with n captures.
SlotsAfter(n, m) ==
  /\ \A x \in 1 .. n :
       /\ params'[x].route = r
       /\ params'[x].whole
       /\ params'[x].seg \in Captures(pattern)
       /\ params'[x].seg < m
       /\ \A y \in 1 .. (x - 1) : params'[y].seg < params'[x].seg
  /\ \A j \in Captures(pattern) : j < m => j \in {params'[x].seg : x \in 1 .. n}

\* A segment that fits: the walk goes on behind it.
LEMMA AdvanceKeeps ==
  ASSUME IndInv, Trying, NEW n \in 0 .. MaxParams, Advance(n), Untouched,
         HasP, HasQ, pattern[k].kind # "rest", SegmentFits(pattern[k], path[k]),
         n = Cardinality(Captures(pattern) \cap (1 .. k)),
         params' \in [1 .. MaxParams -> Capture],
         SlotsAfter(n, k + 1)
  PROVE  IndInv'
<1>0. TypeOK /\ MaxParams \in Nat
  BY MaxParamsAssumption DEF IndInv
<1>1. /\ r \in 1 .. Len(routes) /\ pc = "match"
      /\ r' = r /\ k' = k + 1 /\ np' = n /\ k \in Nat \ {0}
      /\ nparams' = nparams /\ mismatch' = mismatch /\ pc' = pc /\ outcome' = outcome
      /\ pattern' = pattern /\ Len(pattern) \in Nat /\ Len(path) \in Nat
  BY <1>0, WalkTypes, TableUntouched DEF Advance, Trying, pattern, TypeOK
<1>2. TypeOK'
  BY <1>0, <1>1, TableUntouched DEF TypeOK
<1>3. ChainInOrder' /\ PhaseSound' /\ PastSound'
  BY <1>1, TableUntouched DEF IndInv, ChainInOrder, PhaseSound, PastSound
<1>4. WalkSound'
  <2>1. PrefixFits(pattern, path, k - 1)
    BY <1>1 DEF IndInv, WalkSound
  <2>2. PrefixFits(pattern, path, k)
    BY <1>1, <2>1 DEF PrefixFits, HasP, HasQ
  <2>3. k' - 1 = k /\ k' <= Len(pattern') + 1 /\ path' = path
    BY <1>1, TableUntouched DEF HasP
  <2>4. SlotsHold(np, k)'
    BY <1>1 DEF SlotsHold, SlotsAfter, Seen
  <2> QED BY <1>1, <2>2, <2>3, <2>4 DEF WalkSound
<1>5. RoutedAsSpecified' /\ OwnCaptures'
  BY <1>1 DEF IndInv, PhaseSound, RoutedAsSpecified, OwnCaptures
<1> QED BY <1>2, <1>3, <1>4, <1>5 DEF IndInv

-----------------------------------------------------------------------------
(* route_match, iteration by iteration.                                    *)

\* A capture that is stored: the slots are those of one segment more.
LEMMA FilledSlots ==
  ASSUME IndInv, Trying, HasP, pattern[k].kind # "word", np < MaxParams, Fill(TRUE)
  PROVE  /\ SlotsAfter(np + 1, k + 1)
         /\ np + 1 = Cardinality(Captures(pattern) \cap (1 .. k))
         /\ RoomFor(pattern, k)
<1>0. /\ TypeOK /\ MaxParams \in Nat /\ np \in Nat /\ k \in 1 .. Len(pattern)
      /\ Len(pattern) \in Nat /\ pc = "match" /\ r <= Len(routes)
  BY MaxParamsAssumption, WalkTypes DEF IndInv, TypeOK, HasP, Trying
<1>1. SlotsHold(np, k) /\ np = Cardinality(Captures(pattern) \cap (1 .. (k - 1)))
  BY <1>0 DEF IndInv, WalkSound
<1>2. /\ params'[np + 1].route = r
      /\ params'[np + 1].seg = k
      /\ params'[np + 1].whole
      /\ \A x \in 1 .. np : params'[x] = params[x]
  <2> DEFINE all == TRUE
  <2>1. all \in BOOLEAN /\ all /\ Fill(all)
    OBVIOUS
  <2> HIDE DEF all
  <2>2. /\ params'[np + 1] = [route |-> r, seg |-> k, whole |-> all]
        /\ \A x \in 1 .. np : params'[x] = params[x]
    BY <1>0, <2>1, FillType
  <2> QED BY <2>1, <2>2
<1>3. k \in Captures(pattern)
  BY <1>0 DEF Captures
<1>4. ASSUME NEW x \in 1 .. (np + 1)
      PROVE  /\ params'[x].route = r
             /\ params'[x].whole
             /\ params'[x].seg \in Captures(pattern)
             /\ params'[x].seg < k + 1
             /\ \A y \in 1 .. (x - 1) : params'[y].seg < params'[x].seg
  <2>1. CASE x = np + 1
    <3>1. \A y \in 1 .. np : params'[y].seg < k
      BY <1>1, <1>2 DEF SlotsHold
    <3>2. x - 1 = np /\ k < k + 1
      BY <1>0, <2>1
    <3> QED BY <1>2, <1>3, <2>1, <3>1, <3>2
  <2>2. CASE x \in 1 .. np
    <3>1. params'[x] = params[x] /\ \A y \in 1 .. (x - 1) : params'[y] = params[y]
      BY <1>0, <1>2, <2>2
    <3>2. /\ params[x].route = r
          /\ params[x].whole
          /\ params[x].seg \in Captures(pattern)
          /\ params[x].seg < k
          /\ \A y \in 1 .. (x - 1) : params[y].seg < params[x].seg
      BY <1>1, <2>2 DEF SlotsHold
    <3>3. params[x].seg \in Nat
      BY <1>0, <3>2 DEF Captures
    <3>4. params[x].seg < k + 1
      BY <1>0, <3>2, <3>3
    <3> QED BY <3>1, <3>2, <3>4
  <2> QED BY <1>0, <2>1, <2>2
<1>5. ASSUME NEW j \in Captures(pattern), j < k + 1
      PROVE  j \in {params'[x].seg : x \in 1 .. (np + 1)}
  <2>1. CASE j = k
    BY <1>0, <1>2, <2>1
  <2>2. CASE j # k
    <3>1. j < k
      BY <1>0, <1>5, <2>2 DEF Captures
    <3>2. PICK x \in 1 .. np : j = params[x].seg
      BY <1>1, <1>5, <3>1 DEF SlotsHold, Seen
    <3>3. x \in 1 .. (np + 1) /\ params'[x] = params[x]
      BY <1>0, <1>2
    <3> QED BY <3>2, <3>3
  <2> QED BY <2>1, <2>2
<1>6. SlotsAfter(np + 1, k + 1)
  BY <1>4, <1>5 DEF SlotsAfter
<1>7. np + 1 = Cardinality(Captures(pattern) \cap (1 .. k))
  BY <1>0, <1>1, CapturesStep
<1>8. np + 1 <= MaxParams
  BY <1>0
<1> QED BY <1>6, <1>7, <1>8 DEF RoomFor

\* A walk that stands at a segment has a pattern that fits so far.
LEMMA SoFar ==
  ASSUME IndInv, Trying
  PROVE  /\ PrefixFits(pattern, path, k - 1)
         /\ np = Cardinality(Captures(pattern) \cap (1 .. (k - 1)))
         /\ SlotsHold(np, k)
         /\ k <= Len(pattern) + 1 /\ k \in Nat \ {0}
         /\ np \in 0 .. MaxParams
         /\ params \in [1 .. MaxParams -> Capture]
         /\ k - 1 <= Len(path) /\ k - 1 <= Len(pattern)
BY DEF IndInv, WalkSound, TypeOK, Trying, PrefixFits

\* No slot left for a capture: the pattern does not fit.
LEMMA NoRoom ==
  ASSUME IndInv, Trying, HasP, pattern[k].kind # "word", ~(np < MaxParams)
  PROVE  ~RoomFor(pattern, k)
<1>1. k \in 1 .. Len(pattern) /\ Len(pattern) \in Nat
  BY SoFar, WalkTypes DEF HasP, IndInv
<1>2. Cardinality(Captures(pattern) \cap (1 .. k)) = np + 1
  BY <1>1, SoFar, CapturesStep
<1>3. np \in Nat /\ MaxParams \in Nat /\ ~(np + 1 <= MaxParams)
  BY SoFar, MaxParamsAssumption
<1> QED BY <1>2, <1>3 DEF RoomFor

\* Every iteration of the walk keeps the invariant.
LEMMA MatchStepKeeps ==
  ASSUME IndInv, MatchStep
  PROVE  IndInv'
<1>0. /\ Trying /\ Untouched /\ TypeOK
      /\ MaxParams \in Nat /\ np \in 0 .. MaxParams /\ k \in Nat \ {0}
      /\ pattern \in Seq(Segment) /\ Len(pattern) \in Nat
      /\ path \in Seq(Words) /\ Len(path) \in Nat
  BY SoFar, WalkTypes, MaxParamsAssumption DEF MatchStep, Untouched, IndInv
<1> USE <1>0
<1>1. CASE BothEnd
  <2>1. k = Len(pattern) + 1 /\ Len(path) = Len(pattern)
    BY <1>1, SoFar DEF BothEnd, HasP, HasQ
  <2>2. np = Cardinality(Captures(pattern) \cap (1 .. Len(pattern)))
    BY <2>1, SoFar
  <2>3. Fits(pattern, path)
    BY <2>1, <2>2, SoFar DEF Fits, RoomFor
  <2>4. params' = params /\ Matched(np)
    BY <1>1 DEF BothEnd
  <2>5. \A j \in Captures(pattern) : j < k
    BY <2>1 DEF Captures
  <2>6. AllCaptured(np)
    BY <2>4, <2>5, SoFar DEF SlotsHold, AllCaptured, Seen
  <2> QED BY <2>3, <2>4, <2>6, SoFar, MatchedKeeps
<1>2. CASE CaptureNothing
  <2>1. /\ HasP /\ ~HasQ /\ pattern[k].kind = "rest" /\ np < MaxParams
        /\ Fill(TRUE) /\ Matched(np + 1)
    BY <1>2 DEF CaptureNothing, RestIsEmpty
  <2>2. SlotsAfter(np + 1, k + 1) /\ RoomFor(pattern, k)
    BY <2>1, FilledSlots
  <2>3. Fits(pattern, path)
    <3>1. k \in 1 .. Len(pattern) /\ \A j \in k .. Len(path) : Decodes(path[j])
      BY <2>1 DEF HasP, HasQ
    <3> QED BY <2>1, <2>2, <3>1, SoFar DEF Fits
  <2>4. AllCaptured(np + 1)
    <3>1. ASSUME NEW j \in Captures(pattern),
                 \A w \in 1 .. (j - 1) : pattern[w].kind # "rest"
          PROVE  j < k + 1
      BY <2>1, <3>1 DEF Captures
    <3> QED BY <2>2, <3>1 DEF SlotsAfter, AllCaptured
  <2>5. params' \in [1 .. MaxParams -> Capture]
    BY <2>1, FillType
  <2>6. np + 1 \in 0 .. MaxParams
    BY <2>1
  <2> QED BY <2>1, <2>3, <2>4, <2>5, <2>6, MatchedKeeps
<1>3. CASE OneRunsOut
  <2>1. HasP # HasQ /\ ~RestIsEmpty /\ NoMatch /\ params' = params
    BY <1>3 DEF OneRunsOut
  <2>2. ~Fits(pattern, path)
    <3>1. SUFFICES ASSUME Fits(pattern, path) PROVE FALSE
      OBVIOUS
    <3>2. \/ k = Len(pattern) + 1 /\ Len(pattern) = Len(path)
          \/ /\ k <= Len(pattern)
             /\ RoomFor(pattern, k)
             /\ pattern[k].kind = "rest" \/ k <= Len(path)
      BY <3>1, SoFar, FitsBeyond
    <3>3. CASE k = Len(pattern) + 1 /\ Len(pattern) = Len(path)
      BY <2>1, <3>3 DEF HasP, HasQ
    <3>4. CASE /\ k <= Len(pattern)
               /\ RoomFor(pattern, k)
               /\ pattern[k].kind = "rest" \/ k <= Len(path)
      <4>1. HasP /\ ~HasQ /\ pattern[k].kind = "rest"
        BY <2>1, <3>4 DEF HasP, HasQ
      <4>2. ~(np < MaxParams)
        BY <2>1, <4>1 DEF RestIsEmpty
      <4> QED BY <3>4, <4>1, <4>2, NoRoom
    <3> QED BY <3>2, <3>3, <3>4
  <2> QED BY <2>1, <2>2, SoFar, NoMatchKeeps
<1>4. CASE TooManyCaptures
  <2>1. /\ HasP /\ HasQ /\ pattern[k].kind # "word" /\ ~(np < MaxParams)
        /\ NoMatch /\ params' = params
    BY <1>4 DEF TooManyCaptures
  <2>2. ~RoomFor(pattern, k) /\ k <= Len(pattern)
    BY <2>1, NoRoom DEF HasP
  <2>3. ~Fits(pattern, path)
    BY <2>2, SoFar, FitsBeyond
  <2> QED BY <2>1, <2>3, SoFar, NoMatchKeeps
<1>5. CASE CaptureSegment
  <2>1. /\ HasP /\ HasQ /\ pattern[k].kind = "param" /\ np < MaxParams
        /\ Fill(Decodes(path[k])) /\ Decodes(path[k]) \in BOOLEAN
    BY <1>5 DEF CaptureSegment, Decodes
  <2>2. params' \in [1 .. MaxParams -> Capture]
    BY <2>1, FillType
  <2>3. CASE Decodes(path[k]) /\ Advance(np + 1)
    <3>1. Fill(TRUE)
      BY <2>1, <2>3
    <3>2. SlotsAfter(np + 1, k + 1) /\ np + 1 = Cardinality(Captures(pattern) \cap (1 .. k))
      BY <2>1, <3>1, FilledSlots
    <3>3. SegmentFits(pattern[k], path[k]) /\ pattern[k].kind # "rest"
      BY <2>1, <2>3 DEF SegmentFits
    <3>4. np + 1 \in 0 .. MaxParams
      BY <2>1
    <3> QED BY <2>1, <2>2, <2>3, <3>2, <3>3, <3>4, AdvanceKeeps
  <2>4. CASE ~Decodes(path[k]) /\ NoMatch
    <3>1. ~SegmentFits(pattern[k], path[k]) /\ pattern[k].kind # "rest" /\ k <= Len(pattern)
      BY <2>1, <2>4 DEF SegmentFits, HasP
    <3>2. ~Fits(pattern, path)
      BY <3>1, SoFar, FitsBeyond
    <3> QED BY <2>2, <2>4, <3>2, NoMatchKeeps
  <2> QED BY <1>5, <2>3, <2>4 DEF CaptureSegment
<1>6. CASE CaptureRest
  <2>1. /\ HasP /\ HasQ /\ pattern[k].kind = "rest" /\ np < MaxParams
        /\ Fill(RestDecodes) /\ RestDecodes \in BOOLEAN
    BY <1>6 DEF CaptureRest, RestDecodes
  <2>2. params' \in [1 .. MaxParams -> Capture]
    BY <2>1, FillType
  <2>3. CASE RestDecodes /\ Matched(np + 1)
    <3>1. Fill(TRUE)
      BY <2>1, <2>3
    <3>2. SlotsAfter(np + 1, k + 1) /\ RoomFor(pattern, k)
      BY <2>1, <3>1, FilledSlots
    <3>3. Fits(pattern, path)
      <4>1. k \in 1 .. Len(pattern) /\ \A j \in k .. Len(path) : Decodes(path[j])
        BY <2>1, <2>3 DEF HasP, RestDecodes
      <4> QED BY <2>1, <3>2, <4>1, SoFar DEF Fits
    <3>4. AllCaptured(np + 1)
      <4>1. ASSUME NEW j \in Captures(pattern),
                   \A w \in 1 .. (j - 1) : pattern[w].kind # "rest"
            PROVE  j < k + 1
        BY <2>1, <4>1 DEF Captures
      <4> QED BY <3>2, <4>1 DEF SlotsAfter, AllCaptured
    <3>5. np + 1 \in 0 .. MaxParams
      BY <2>1
    <3> QED BY <2>2, <2>3, <3>3, <3>4, <3>5, MatchedKeeps
  <2>4. CASE ~RestDecodes /\ NoMatch
    <3>1. k <= Len(pattern) /\ pattern[k].kind = "rest"
          /\ ~(\A j \in k .. Len(path) : Decodes(path[j]))
      BY <2>1, <2>4 DEF HasP, RestDecodes
    <3>2. ~Fits(pattern, path)
      BY <3>1, SoFar, FitsBeyond
    <3> QED BY <2>2, <2>4, <3>2, NoMatchKeeps
  <2> QED BY <1>6, <2>3, <2>4 DEF CaptureRest
<1>7. CASE Compare
  <2>1. HasP /\ HasQ /\ pattern[k].kind = "word" /\ params' = params
    BY <1>7 DEF Compare
  <2>2. k \in 1 .. Len(pattern)
    BY <2>1 DEF HasP
  <2>3. CASE pattern[k].word = path[k] /\ Advance(np)
    <3>1. SegmentFits(pattern[k], path[k]) /\ pattern[k].kind # "rest"
      BY <2>1, <2>3 DEF SegmentFits
    <3>2. np = Cardinality(Captures(pattern) \cap (1 .. k))
      BY <2>1, <2>2, SoFar, CapturesStep
    <3>3. SlotsAfter(np, k + 1)
      <4>1. ASSUME NEW j \in Captures(pattern), j < k + 1 PROVE j < k
        BY <2>1, <4>1 DEF Captures
      <4>2. ASSUME NEW x \in 1 .. np PROVE params[x].seg < k + 1
        <5>1. params[x].seg \in Captures(pattern) /\ params[x].seg < k
          BY SoFar DEF SlotsHold
        <5> QED BY <5>1 DEF Captures
      <4> QED BY <2>1, <4>1, <4>2, SoFar DEF SlotsHold, SlotsAfter, Seen
    <3> QED BY <2>1, <2>3, <3>1, <3>2, <3>3, SoFar, AdvanceKeeps
  <2>4. CASE pattern[k].word # path[k] /\ NoMatch
    <3>1. ~SegmentFits(pattern[k], path[k]) /\ pattern[k].kind # "rest"
      BY <2>1, <2>4 DEF SegmentFits
    <3>2. ~Fits(pattern, path)
      BY <2>2, <3>1, SoFar, FitsBeyond
    <3> QED BY <2>1, <2>4, <3>2, SoFar, NoMatchKeeps
  <2> QED BY <1>7, <2>3, <2>4 DEF Compare
<1> QED BY <1>1, <1>2, <1>3, <1>4, <1>5, <1>6, <1>7 DEF MatchStep

-----------------------------------------------------------------------------
(* The other steps of a request.                                           *)

\* A conjunct about a phase the step does not lead to holds of its result.
LEMMA OutsideWalk ==
  ASSUME pc' \in {"idle", "chain", "finish"}
  PROVE  WalkSound' /\ PastSound' /\ OwnCaptures'
BY DEF WalkSound, PastSound, OwnCaptures

\* Before any request has come nothing has been promised.
LEMMA InitHolds == Init => IndInv
<1> SUFFICES ASSUME Init PROVE IndInv
  OBVIOUS
<1>1. routes \in Seq(Route) /\ Nmw \in Nat /\ MaxParams \in Nat
  BY TablesAssumption, NmwAssumption, MaxParamsAssumption DEF Init
<1>2. params \in [1 .. MaxParams -> Capture]
  <2>1. NoCapture \in Capture
    BY DEF NoCapture, Capture
  <2> HIDE DEF NoCapture
  <2> QED BY <2>1 DEF Init
<1>3. TypeOK
  <2>1. stack \in Seq(0 .. (Nmw - 1)) /\ entered \in Seq(0 .. (Nmw - 1)) /\ path \in Seq(Words)
    BY DEF Init
  <2>2. /\ pc = "idle" /\ method = "GET" /\ nparams = 0 /\ mwCur = -1
        /\ r = 1 /\ k = 1 /\ np = 0 /\ outcome = "none"
    BY DEF Init
  <2>3. /\ responded \in BOOLEAN /\ marked \in BOOLEAN /\ logged \in BOOLEAN
        /\ mismatch \in BOOLEAN
    BY DEF Init
  <2>4. method \in Method /\ outcome \in Outcome
    BY <2>2 DEF Method, Outcome
  <2>5. /\ pc \in {"idle", "chain", "match", "handler", "finish"}
        /\ nparams \in 0 .. MaxParams /\ mwCur \in -1 .. (Nmw - 1)
        /\ r \in Nat \ {0} /\ k \in Nat \ {0} /\ np \in 0 .. MaxParams
    BY <1>1, <2>2
  <2> QED BY <1>1, <1>2, <2>1, <2>3, <2>4, <2>5 DEF TypeOK
<1>4. ChainInOrder /\ PhaseSound
  BY DEF Init, ChainInOrder, PhaseSound
<1>5. WalkSound /\ PastSound /\ OwnCaptures /\ RoutedAsSpecified
  BY DEF Init, WalkSound, PastSound, OwnCaptures, RoutedAsSpecified
<1> QED BY <1>3, <1>4, <1>5 DEF IndInv

\* A request begins with no captures and, at most, the first middleware.
LEMMA BeginKeeps ==
  ASSUME IndInv, NEW m \in Method, NEW p \in Paths, Begin(m, p)
  PROVE  IndInv'
<1>0. TypeOK /\ MaxParams \in Nat /\ Nmw \in Nat /\ p \in Seq(Words)
  BY MaxParamsAssumption, NmwAssumption, PathsAssumption DEF IndInv
<1>1. /\ pc' = "chain" /\ method' = m /\ path' = p /\ nparams' = 0
      /\ marked' = FALSE /\ responded' = FALSE /\ outcome' = "none" /\ logged' = FALSE
      /\ routes' = routes /\ r' = r /\ k' = k /\ np' = np /\ mismatch' = mismatch
  BY DEF Begin, RequestCleared, matchVars
<1>2. params' \in [1 .. MaxParams -> Capture]
  <2>1. NoCapture \in Capture
    BY DEF NoCapture, Capture
  <2>2. params' = [n \in 1 .. MaxParams |-> NoCapture]
    BY DEF Begin, RequestCleared
  <2> HIDE DEF NoCapture
  <2> QED BY <2>1, <2>2
<1>3. /\ mwCur' \in -1 .. (Nmw - 1)
      /\ stack' \in Seq(0 .. (Nmw - 1))
      /\ entered' \in Seq(0 .. (Nmw - 1))
      /\ ChainInOrder'
  <2>1. CASE Nmw > 0
    <3>1. mwCur' = 0 /\ stack' = <<0>> /\ entered' = <<0>> /\ 0 \in 0 .. (Nmw - 1)
      BY <1>0, <2>1 DEF Begin
    <3> QED BY <1>0, <2>1, <3>1 DEF ChainInOrder
  <2>2. CASE ~(Nmw > 0)
    <3>1. mwCur' = -1 /\ stack' = <<>> /\ entered' = <<>>
      BY <2>2 DEF Begin
    <3> QED BY <1>0, <3>1 DEF ChainInOrder
  <2> QED BY <2>1, <2>2
<1>4. TypeOK'
  <2>1. pc' = "chain" /\ outcome' \in Outcome /\ nparams' \in 0 .. MaxParams
    BY <1>0, <1>1 DEF Outcome
  <2>3. marked' \in BOOLEAN /\ responded' \in BOOLEAN /\ logged' \in BOOLEAN
    BY <1>1
  <2>2. /\ method' \in Method /\ path' \in Seq(Words) /\ routes' = routes
        /\ r' = r /\ k' = k /\ np' = np /\ mismatch' = mismatch
    BY <1>0, <1>1
  <2> QED BY <1>0, <1>2, <1>3, <2>1, <2>2, <2>3 DEF TypeOK
<1>5. PhaseSound' /\ RoutedAsSpecified'
  BY <1>1 DEF PhaseSound, RoutedAsSpecified
<1> QED BY <1>1, <1>3, <1>4, <1>5, OutsideWalk DEF IndInv

\* next enters the first middleware that has not run.
LEMMA CallNextKeeps ==
  ASSUME IndInv, CallNext
  PROVE  IndInv'
<1>0. /\ TypeOK /\ ChainInOrder /\ Nmw \in Nat
      /\ mwCur \in -1 .. (Nmw - 1)
      /\ stack \in Seq(0 .. (Nmw - 1)) /\ entered \in Seq(0 .. (Nmw - 1))
  BY NmwAssumption DEF IndInv, TypeOK
<1>1. /\ pc = "chain" /\ pc' = pc /\ routes' = routes /\ method' = method /\ path' = path
      /\ nparams' = nparams /\ params' = params /\ marked' = marked
      /\ responded' = responded /\ outcome' = outcome /\ logged' = logged
      /\ r' = r /\ k' = k /\ np' = np /\ mismatch' = mismatch
  BY DEF CallNext, matchVars
<1> DEFINE m == mwCur + 1
<1>2. /\ m < Nmw /\ mwCur' = m
      /\ stack' = <<m>> \o stack /\ entered' = Append(entered, m)
  BY DEF CallNext, IsRegistered, NextCursor, Enter
<1>3. m \in 0 .. (Nmw - 1)
  BY <1>0, <1>2
<1> HIDE DEF m
<1>4. stack' \in Seq(0 .. (Nmw - 1))
  <2>1. <<m>> \in Seq(0 .. (Nmw - 1))
    BY <1>3
  <2> QED BY <1>0, <1>2, <2>1
<1>5. entered' \in Seq(0 .. (Nmw - 1))
  BY <1>0, <1>2, <1>3
<1>6. ChainInOrder'
  <2>1. Len(entered) = m /\ \A n \in 1 .. Len(entered) : entered[n] = n - 1
    BY <1>0 DEF ChainInOrder, m
  <2>2. /\ Len(entered') = Len(entered) + 1
        /\ \A n \in 1 .. Len(entered) : entered'[n] = entered[n]
        /\ entered'[Len(entered) + 1] = m
    BY <1>0, <1>2
  <2>3. \A n \in 1 .. (m + 1) : n \in 1 .. m \/ n = m + 1
    BY <1>3
  <2> QED BY <1>2, <1>3, <2>1, <2>2, <2>3 DEF ChainInOrder
<1>7. TypeOK'
  BY <1>0, <1>1, <1>2, <1>3, <1>4, <1>5 DEF TypeOK
<1>8. PhaseSound' /\ RoutedAsSpecified'
  BY <1>1 DEF IndInv, PhaseSound, RoutedAsSpecified
<1> QED BY <1>1, <1>6, <1>7, <1>8, OutsideWalk DEF IndInv

\* A middleware that answers or returns leaves the chain's order alone.
LEMMA RespondKeeps ==
  ASSUME IndInv, Respond
  PROVE  IndInv'
<1>1. /\ pc = "chain" /\ pc' = pc /\ responded' = TRUE
      /\ routes' = routes /\ method' = method /\ path' = path
      /\ nparams' = nparams /\ params' = params /\ mwCur' = mwCur /\ marked' = marked
      /\ stack' = stack /\ entered' = entered /\ outcome' = outcome /\ logged' = logged
      /\ r' = r /\ k' = k /\ np' = np /\ mismatch' = mismatch
  BY DEF Respond, requestVars, chainVars, matchVars
<1>2. TypeOK'
  BY <1>1 DEF IndInv, TypeOK
<1>3. ChainInOrder' /\ PhaseSound' /\ RoutedAsSpecified'
  BY <1>1 DEF IndInv, ChainInOrder, PhaseSound, RoutedAsSpecified
<1> QED BY <1>1, <1>2, <1>3, OutsideWalk DEF IndInv

\* The same for its return.
LEMMA ReturnKeeps ==
  ASSUME IndInv, Return
  PROVE  IndInv'
<1>1. /\ pc = "chain" /\ pc' = pc /\ responded' = responded
      /\ routes' = routes /\ method' = method /\ path' = path
      /\ nparams' = nparams /\ params' = params /\ mwCur' = mwCur /\ marked' = marked
      /\ stack # <<>> /\ stack' = Tail(stack)
      /\ entered' = entered /\ outcome' = outcome /\ logged' = logged
      /\ r' = r /\ k' = k /\ np' = np /\ mismatch' = mismatch
  BY DEF Return, requestVars, matchVars
<1>2. stack' \in Seq(0 .. (Nmw - 1))
  BY <1>1 DEF IndInv, TypeOK
<1>3. TypeOK'
  BY <1>1, <1>2 DEF IndInv, TypeOK
<1>4. ChainInOrder' /\ PhaseSound' /\ RoutedAsSpecified'
  BY <1>1 DEF IndInv, ChainInOrder, PhaseSound, RoutedAsSpecified
<1> QED BY <1>1, <1>3, <1>4, OutsideWalk DEF IndInv

\* The chain ends in an answer, or the walk begins with the first route.
LEMMA ChainDoneKeeps ==
  ASSUME IndInv, ChainDone
  PROVE  IndInv'
<1>0. TypeOK /\ MaxParams \in Nat /\ outcome = "none" /\ pc = "chain"
  BY MaxParamsAssumption DEF IndInv, PhaseSound, ChainDone
<1>1. /\ routes' = routes /\ method' = method /\ path' = path
      /\ nparams' = nparams /\ params' = params /\ mwCur' = mwCur /\ marked' = marked
      /\ stack' = stack /\ entered' = entered
      /\ responded' = responded /\ logged' = logged
      /\ r' = 1 /\ k' = 1 /\ np' = 0 /\ mismatch' = FALSE
  BY DEF ChainDone, requestVars, chainVars
<1>2. ChainInOrder'
  BY <1>1 DEF IndInv, ChainInOrder
<1>3. CASE responded /\ outcome' = "chain" /\ pc' = "finish"
  <2>1. TypeOK'
    <3>1. pc' = "finish" /\ outcome' \in Outcome /\ mismatch' \in BOOLEAN
      BY <1>1, <1>3 DEF Outcome
    <3> QED BY <1>0, <1>1, <3>1 DEF TypeOK
  <2>2. PhaseSound' /\ RoutedAsSpecified'
    BY <1>3 DEF PhaseSound, RoutedAsSpecified
  <2> QED BY <1>2, <1>3, <2>1, <2>2, OutsideWalk DEF IndInv
<1>4. CASE ~responded /\ outcome' = outcome /\ pc' = "match"
  <2>1. TypeOK'
    <3>1. pc' = "match" /\ outcome' = outcome /\ mismatch' \in BOOLEAN
      BY <1>1, <1>4
    <3> QED BY <1>0, <1>1, <3>1 DEF TypeOK
  <2>2. PhaseSound' /\ RoutedAsSpecified' /\ OwnCaptures'
    BY <1>0, <1>4 DEF PhaseSound, RoutedAsSpecified, OwnCaptures
  <2>3. WalkSound'
    <3>1. SUFFICES ASSUME 1 <= Len(routes')
                   PROVE  /\ k' <= Len(pattern') + 1
                          /\ PrefixFits(pattern', path', k' - 1)
                          /\ np' = Cardinality(Captures(pattern') \cap (1 .. (k' - 1)))
                          /\ SlotsHold(np, k)'
      BY <1>1 DEF WalkSound
    <3>2. pattern' \in Seq(Segment) /\ Len(pattern') \in Nat
      BY <1>0, <1>1, <3>1, PatternType DEF TypeOK, pattern
    <3>3. PrefixFits(pattern', path', 0) /\ Len(path') \in Nat
      BY <1>0, <1>1, <3>2 DEF PrefixFits, TypeOK
    <3>4. Captures(pattern') \cap (1 .. 0) = {}
      OBVIOUS
    <3>5. Cardinality(Captures(pattern') \cap (1 .. 0)) = 0
      BY <3>4, FS_EmptySet
    <3>6. \A j \in Captures(pattern') : j \in Nat \ {0}
      BY <3>2 DEF Captures
    <3>7. SlotsHold(np, k)'
      BY <1>1, <3>6 DEF SlotsHold
    <3> QED BY <1>1, <3>2, <3>3, <3>5, <3>7
  <2>4. PastSound'
    <3>1. Len(routes') \in Nat
      BY <1>0, <1>1 DEF TypeOK
    <3>2. r' - 1 = 0 /\ r' <= Len(routes') + 1 /\ ~mismatch'
      BY <1>1, <3>1
    <3> QED BY <3>2 DEF PastSound
  <2> QED BY <1>2, <2>1, <2>2, <2>3, <2>4 DEF IndInv
<1> QED BY <1>3, <1>4 DEF ChainDone

\* The handler changes nothing the invariant looks at.
LEMMA RunHandlerKeeps ==
  ASSUME IndInv, RunHandler
  PROVE  IndInv'
<1>1. /\ pc' = "finish" /\ responded' \in BOOLEAN
      /\ routes' = routes /\ method' = method /\ path' = path
      /\ nparams' = nparams /\ params' = params /\ mwCur' = mwCur /\ marked' = marked
      /\ stack' = stack /\ entered' = entered /\ outcome' = outcome /\ logged' = logged
      /\ r' = r /\ k' = k /\ np' = np /\ mismatch' = mismatch
  BY DEF RunHandler, requestVars, chainVars, matchVars
<1>2. TypeOK'
  BY <1>1 DEF IndInv, TypeOK
<1>3. ChainInOrder' /\ PhaseSound'
  BY <1>1 DEF IndInv, ChainInOrder, PhaseSound
<1>4. RoutedAsSpecified'
  <2>1. Fitting' = Fitting /\ \A n : Allowed(n)' <=> Allowed(n)
    BY <1>1 DEF Fitting, Fits, Allowed
  <2> QED BY <1>1, <2>1 DEF IndInv, RoutedAsSpecified
<1> QED BY <1>1, <1>2, <1>3, <1>4, OutsideWalk DEF IndInv

\* Behind the last route it is known which routes fit, and that none serves.
LEMMA FallbackKeeps ==
  ASSUME IndInv, Fallback
  PROVE  IndInv'
<1>0. /\ TypeOK /\ pc = "match" /\ Len(routes) \in Nat /\ r \in Nat \ {0} /\ r > Len(routes)
  BY DEF IndInv, TypeOK, Fallback
<1>1. /\ pc' = "finish" /\ responded' = TRUE /\ outcome' = FallbackOf
      /\ routes' = routes /\ method' = method /\ path' = path
      /\ nparams' = nparams /\ params' = params /\ mwCur' = mwCur /\ marked' = marked
      /\ stack' = stack /\ entered' = entered /\ logged' = logged
      /\ r' = r /\ k' = k /\ np' = np /\ mismatch' = mismatch
  BY DEF Fallback, requestVars, chainVars, matchVars
<1>2. /\ FallbackOf \in {"options", "405", "static", "404"}
      /\ FallbackOf = "options" <=> method = "OPTIONS"
      /\ FallbackOf = "405" <=> method # "OPTIONS" /\ mismatch
      /\ FallbackOf = "static" => Webroot /\ method \in {"GET", "HEAD"}
      /\ FallbackOf = "404" => ~(Webroot /\ method \in {"GET", "HEAD"})
  BY DEF FallbackOf
<1>3. TypeOK'
  BY <1>0, <1>1, <1>2 DEF TypeOK, Outcome
<1>4. ChainInOrder' /\ PhaseSound'
  BY <1>1 DEF IndInv, ChainInOrder, PhaseSound
<1>5. /\ \A n \in Fitting : ~Allowed(n)
      /\ mismatch <=> Fitting # {}
  <2>1. /\ r <= Len(routes) + 1
        /\ \A n \in 1 .. (r - 1) : n \in Fitting => ~Allowed(n)
        /\ mismatch <=> \E n \in 1 .. (r - 1) : n \in Fitting
    BY <1>0 DEF IndInv, PastSound
  <2>2. Fitting \subseteq 1 .. (r - 1)
    BY <1>0, <2>1 DEF Fitting
  <2> QED BY <2>1, <2>2
<1>6. RoutedAsSpecified'
  <2>1. Fitting' = Fitting /\ \A n : Allowed(n)' <=> Allowed(n)
    BY <1>1 DEF Fitting, Fits, Allowed
  <2> HIDE DEF FallbackOf
  <2>2. {n \in Fitting' : Allowed(n)'} = {}
    BY <1>5, <2>1
  <2>3. outcome' # "handler"
    BY <1>1, <1>2
  <2>4. /\ outcome' = "options" <=> method' = "OPTIONS"
        /\ outcome' = "405" <=> method' # "OPTIONS" /\ Fitting' # {}
        /\ outcome' = "static" => Webroot /\ method' \in {"GET", "HEAD"}
        /\ outcome' = "404" => ~(Webroot /\ method' \in {"GET", "HEAD"})
    BY <1>1, <1>2, <1>5, <2>1
  <2> QED BY <2>2, <2>3, <2>4 DEF RoutedAsSpecified
<1> QED BY <1>1, <1>3, <1>4, <1>6, OutsideWalk DEF IndInv

\* The hook changes nothing the invariant looks at.
LEMMA FinishKeeps ==
  ASSUME IndInv, Finish
  PROVE  IndInv'
<1>1. /\ pc' = "idle" /\ logged' = marked
      /\ routes' = routes /\ method' = method /\ path' = path
      /\ nparams' = nparams /\ params' = params /\ mwCur' = mwCur /\ marked' = marked
      /\ stack' = stack /\ entered' = entered /\ outcome' = outcome
      /\ responded' = responded
      /\ r' = r /\ k' = k /\ np' = np /\ mismatch' = mismatch
  BY DEF Finish, requestVars, chainVars, matchVars
<1>2. TypeOK'
  BY <1>1 DEF IndInv, TypeOK
<1>3. ChainInOrder' /\ PhaseSound'
  BY <1>1 DEF IndInv, ChainInOrder, PhaseSound
<1>4. RoutedAsSpecified'
  <2>1. Fitting' = Fitting /\ \A n : Allowed(n)' <=> Allowed(n)
    BY <1>1 DEF Fitting, Fits, Allowed
  <2> QED BY <1>1, <2>1 DEF IndInv, RoutedAsSpecified
<1> QED BY <1>1, <1>2, <1>3, <1>4, OutsideWalk DEF IndInv

\* A step that changes no variable.
LEMMA StutterKeeps ==
  ASSUME IndInv, UNCHANGED vars
  PROVE  IndInv'
<1>1. /\ pc' = pc /\ logged' = logged /\ responded' = responded
      /\ routes' = routes /\ method' = method /\ path' = path
      /\ nparams' = nparams /\ params' = params /\ mwCur' = mwCur /\ marked' = marked
      /\ stack' = stack /\ entered' = entered /\ outcome' = outcome
      /\ r' = r /\ k' = k /\ np' = np /\ mismatch' = mismatch
  BY DEF vars, requestVars, chainVars, matchVars
<1>2. TypeOK'
  BY <1>1 DEF IndInv, TypeOK
<1>3. ChainInOrder' /\ PhaseSound'
  BY <1>1 DEF IndInv, ChainInOrder, PhaseSound
<1>4. /\ Fitting' = Fitting /\ pattern' = pattern
      /\ \A n : Allowed(n)' <=> Allowed(n)
      /\ \A n : Seen(n)' = Seen(n)
  BY <1>1 DEF Fitting, Fits, Allowed, pattern, Seen
<1>5. WalkSound' /\ PastSound'
  BY <1>1, <1>4 DEF IndInv, WalkSound, PastSound, SlotsHold
<1>6. RoutedAsSpecified' /\ OwnCaptures'
  BY <1>1, <1>4 DEF IndInv, RoutedAsSpecified, OwnCaptures
<1> QED BY <1>2, <1>3, <1>5, <1>6 DEF IndInv

-----------------------------------------------------------------------------
(* The theorems.                                                           *)

(***************************************************************************)
(* The invariant of router_dispatch: for every route table and path, every *)
(* number of middlewares and of capture slots.                             *)
(***************************************************************************)
THEOREM RouterInvariance == Spec => []IndInv
<1>1. Init => IndInv
  BY InitHolds
<1>2. IndInv /\ [Next]_vars => IndInv'
  <2> SUFFICES ASSUME IndInv, [Next]_vars PROVE IndInv'
    OBVIOUS
  <2>1. ASSUME NEW m \in Method, NEW p \in Paths, Begin(m, p) PROVE IndInv'
    BY <2>1, BeginKeeps
  <2>2. CASE CallNext
    BY <2>2, CallNextKeeps
  <2>3. CASE Respond
    BY <2>3, RespondKeeps
  <2>4. CASE Return
    BY <2>4, ReturnKeeps
  <2>5. CASE ChainDone
    BY <2>5, ChainDoneKeeps
  <2>6. CASE MatchStep
    BY <2>6, MatchStepKeeps
  <2>7. CASE RunHandler
    BY <2>7, RunHandlerKeeps
  <2>8. CASE Fallback
    BY <2>8, FallbackKeeps
  <2>9. CASE Finish
    BY <2>9, FinishKeeps
  <2>10. CASE UNCHANGED vars
    BY <2>10, StutterKeeps
  <2> QED BY <2>1, <2>2, <2>3, <2>4, <2>5, <2>6, <2>7, <2>8, <2>9, <2>10 DEF Next
<1> QED BY <1>1, <1>2, PTL DEF Spec

(***************************************************************************)
(* Each middleware runs at most once for a request, in the order they were *)
(* registered, whatever any of them does with next.                        *)
(***************************************************************************)
THEOREM ChainRunsInOrder == Spec => []ChainInOrder
<1>1. IndInv => ChainInOrder
  BY DEF IndInv
<1> QED BY <1>1, RouterInvariance, PTL

(***************************************************************************)
(* The walk over the table finds the first route that serves the request,  *)
(* or falls back exactly as the table without the walk says.               *)
(***************************************************************************)
THEOREM RoutedRight == Spec => []RoutedAsSpecified
<1>1. IndInv => RoutedAsSpecified
  BY DEF IndInv
<1> QED BY <1>1, RouterInvariance, PTL

(***************************************************************************)
(* A handler sees the captures of its own route, all of them, decoded.     *)
(***************************************************************************)
THEOREM CapturesAreOwn == Spec => []OwnCaptures
<1>1. IndInv => OwnCaptures
  BY DEF IndInv
<1> QED BY <1>1, RouterInvariance, PTL

=============================================================================
