-------------------------- MODULE RouterProperties --------------------------
(* What the router promises the application.                               *)
EXTENDS Router, FiniteSets

(***************************************************************************)
(* "middleware: runs before handlers, in order": whatever the middlewares  *)
(* do with next (call it twice, or after the one they called has returned),*)
(* each runs at most once for a request, in the order of registration.     *)
(***************************************************************************)
ChainInOrder ==
  /\ Len(entered) = mwCur + 1
  /\ \A n \in 1 .. Len(entered) : entered[n] = n - 1

-----------------------------------------------------------------------------
(* What a pattern means, without the walk of route_match.                  *)

Captures(p) == {j \in 1 .. Len(p) : p[j].kind # "word"}

SegmentFits(seg, w) == IF seg.kind = "word" THEN seg.word = w ELSE Decodes(w)

\* The first n segments of pattern p fit those of path q, without a "*".
PrefixFits(p, q, n) ==
  /\ n <= Len(p) /\ n <= Len(q)
  /\ \A j \in 1 .. n : p[j].kind # "rest" /\ SegmentFits(p[j], q[j])

\* The first n segments of p hold no more captures than there are slots.
RoomFor(p, n) == Cardinality(Captures(p) \cap (1 .. n)) <= MaxParams

Fits(p, q) ==
  \/ /\ Len(p) = Len(q)
     /\ PrefixFits(p, q, Len(p))
     /\ RoomFor(p, Len(p))
  \/ \E w \in 1 .. Len(p) :
       /\ p[w].kind = "rest"
       /\ PrefixFits(p, q, w - 1)
       /\ \A j \in w .. Len(q) : Decodes(q[j])
       /\ RoomFor(p, w)

Allowed(n) ==
  routes[n].method = method \/ (method = "HEAD" /\ routes[n].method = "GET")

Fitting == {n \in 1 .. Len(routes) : Fits(routes[n].pattern, path)}

(***************************************************************************)
(* The order of the fallbacks: the first route that fits path and method,  *)
(* else the Allow list for OPTIONS, else 405 exactly if the path exists    *)
(* under another method, else the webroot, else 404.                       *)
(***************************************************************************)
RoutedAsSpecified ==
  LET serving == {n \in Fitting : Allowed(n)}
  IN  /\ outcome = "handler" => r \in serving /\ \A n \in serving : r <= n
      /\ outcome \in {"options", "405", "static", "404"} =>
           /\ serving = {}
           /\ outcome = "options" <=> method = "OPTIONS"
           /\ outcome = "405" <=> method # "OPTIONS" /\ Fitting # {}
           /\ outcome = "static" => Webroot /\ method \in {"GET", "HEAD"}
           /\ outcome = "404" => ~(Webroot /\ method \in {"GET", "HEAD"})

(***************************************************************************)
(* A handler sees the captures of its own route and no others, all of them *)
(* decoded and in the order of the pattern, although every route tried     *)
(* before it wrote into the same slots.                                    *)
(***************************************************************************)
Seen(n) == {params[j].seg : j \in 1 .. n}

OwnCaptures ==
  pc = "handler" =>
    LET p == routes[r].pattern
    IN  /\ \A n \in 1 .. nparams :
             /\ params[n].route = r
             /\ params[n].whole
             /\ params[n].seg \in Captures(p)
             /\ \A m \in 1 .. (n - 1) : params[m].seg < params[n].seg
        /\ \A j \in Captures(p) :
             (\A w \in 1 .. (j - 1) : p[w].kind # "rest") => j \in Seen(nparams)

(***************************************************************************)
(* The inductive invariant.  While route r is tried at segment k, the      *)
(* segments before k fit and their captures, one slot each, are all there  *)
(* (WalkSound); no earlier route serves the request, and mismatch says     *)
(* whether one fits (PastSound).                                           *)
(***************************************************************************)
SlotsHold(n, m) ==
  /\ \A x \in 1 .. n :
       /\ params[x].route = r
       /\ params[x].whole
       /\ params[x].seg \in Captures(pattern)
       /\ params[x].seg < m
       /\ \A y \in 1 .. (x - 1) : params[y].seg < params[x].seg
  /\ \A j \in Captures(pattern) : j < m => j \in Seen(n)

WalkSound ==
  pc = "match" /\ r <= Len(routes) =>
    /\ k <= Len(pattern) + 1
    /\ PrefixFits(pattern, path, k - 1)
    /\ np = Cardinality(Captures(pattern) \cap (1 .. (k - 1)))
    /\ SlotsHold(np, k)

PastSound ==
  pc = "match" =>
    /\ r <= Len(routes) + 1
    /\ \A n \in 1 .. (r - 1) : n \in Fitting => ~Allowed(n)
    /\ mismatch <=> \E n \in 1 .. (r - 1) : n \in Fitting

PhaseSound ==
  /\ pc \in {"chain", "match"} => outcome = "none"
  /\ pc = "handler" => outcome = "handler"

IndInv ==
  /\ TypeOK
  /\ ChainInOrder
  /\ PhaseSound
  /\ WalkSound
  /\ PastSound
  /\ RoutedAsSpecified
  /\ OwnCaptures

=============================================================================
