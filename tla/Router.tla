------------------------------- MODULE Router -------------------------------
(***************************************************************************)
(* One request at a time through internals/router.c: the middleware chain, *)
(* the walk over the route table, the fallbacks, and the access-log hook   *)
(* of dispatch_request around them.  The middlewares and handlers are the  *)
(* application's; they are modelled by every use they may make of the      *)
(* request, the response and next.                                         *)
(*                                                                         *)
(* A pattern is a sequence of '/'-segments: a literal word, ":name" or     *)
(* "*".  A path is a sequence of words, some of which do not percent-      *)
(* decode (or not into 256 bytes).  Middlewares are numbered from 0.       *)
(***************************************************************************)
EXTENDS Integers, Sequences

CONSTANTS
  Words,        \* the literal segments of patterns, and what paths hold
  BadWords,     \* the words cttp_url_decode refuses
  Tables,       \* the route tables an application may register
  Paths,        \* the paths a client may ask for
  Nmw,          \* s->nmw
  MaxParams,    \* CTTP_MAX_PARAMS
  Webroot       \* whether s->webroot is set

Method == {"GET", "HEAD", "POST", "OPTIONS"}

Segment == [kind : {"word", "param", "rest"}, word : Words]
Route == [pattern : Seq(Segment), method : Method]

ASSUME TablesAssumption == Tables \subseteq Seq(Route)
ASSUME PathsAssumption == Paths \subseteq Seq(Words) /\ BadWords \subseteq Words
ASSUME NmwAssumption == Nmw \in Nat
ASSUME MaxParamsAssumption == MaxParams \in Nat
ASSUME WebrootAssumption == Webroot \in BOOLEAN

VARIABLES
  pc,        \* where router_dispatch is
  routes,    \* s->routes, registered before the server listens
  method,    \* req.method
  path,      \* req.path
  nparams,   \* req.nparams
  params,    \* req.params and req.pvalues: what each slot was filled from
  mwCur,     \* req.mw_cur
  stack,     \* the middlewares that have been entered and have not returned
  entered,   \* history: the middlewares this request has entered
  responded, \* res.responded
  marked,    \* req.responded
  r,         \* the route being tried
  k,         \* the segment of pattern and path being compared
  np,        \* captures made so far in this attempt
  mismatch,  \* method_mismatch
  outcome,   \* who answered: what router_dispatch came to
  logged     \* whether on_log was called for this request

requestVars == <<method, path, nparams, params, mwCur, marked>>
chainVars == <<stack, entered>>
matchVars == <<r, k, np, mismatch>>
vars == <<pc, routes, requestVars, chainVars, responded, matchVars, outcome, logged>>

Outcome == {"none", "chain", "handler", "options", "405", "static", "404"}

\* What filled a slot: the segment of a route, wholly decoded or not.
Capture == [route : Nat, seg : Nat, whole : BOOLEAN]

TypeOK ==
  /\ pc \in {"idle", "chain", "match", "handler", "finish"}
  /\ routes \in Seq(Route)
  /\ method \in Method
  /\ path \in Seq(Words)
  /\ nparams \in 0 .. MaxParams
  /\ params \in [1 .. MaxParams -> Capture]
  /\ mwCur \in -1 .. (Nmw - 1)
  /\ stack \in Seq(0 .. (Nmw - 1))
  /\ entered \in Seq(0 .. (Nmw - 1))
  /\ responded \in BOOLEAN
  /\ marked \in BOOLEAN
  /\ r \in Nat \ {0}
  /\ k \in Nat \ {0}
  /\ np \in 0 .. MaxParams
  /\ mismatch \in BOOLEAN
  /\ outcome \in Outcome
  /\ logged \in BOOLEAN

NoCapture == [route |-> 0, seg |-> 0, whole |-> FALSE]

Init ==
  /\ pc = "idle"
  /\ routes \in Tables
  /\ method = "GET"
  /\ path = <<>>
  /\ nparams = 0
  /\ params = [n \in 1 .. MaxParams |-> NoCapture]
  /\ mwCur = -1
  /\ stack = <<>>
  /\ entered = <<>>
  /\ responded = FALSE
  /\ marked = FALSE
  /\ r = 1
  /\ k = 1
  /\ np = 0
  /\ mismatch = FALSE
  /\ outcome = "none"
  /\ logged = FALSE

-----------------------------------------------------------------------------
(* The middleware chain.                                                   *)

\* Middleware m is called; it may call next before it returns.
Enter(m) ==
  /\ mwCur' = m
  /\ stack' = <<m>> \o stack
  /\ entered' = Append(entered, m)

\* The memset of http_init_request, between two requests of a connection.
RequestCleared ==
  /\ nparams' = 0
  /\ params' = [n \in 1 .. MaxParams |-> NoCapture]
  /\ marked' = FALSE

\* dispatch_request has a blank response; the chain is entered if there is one.
Begin(m, p) ==
  /\ pc = "idle"
  /\ pc' = "chain"
  /\ method' = m
  /\ path' = p
  /\ RequestCleared
  /\ responded' = FALSE
  /\ outcome' = "none"
  /\ logged' = FALSE
  /\ IF Nmw > 0
       THEN mwCur' = 0 /\ stack' = <<0>> /\ entered' = <<0>>
       ELSE mwCur' = -1 /\ stack' = <<>> /\ entered' = <<>>
  /\ UNCHANGED <<routes, matchVars>>

CursorOfCaller == Head(stack) + 1     \* broken: next counts from its caller

NextCursor == mwCur + 1

OnePastLast(m) == m <= Nmw     \* broken: off by one

IsRegistered(m) == m < Nmw

\* mw_next.  At the end of the chain it changes nothing.
CallNext ==
  /\ pc = "chain"
  /\ stack # <<>>
  /\ IsRegistered(NextCursor)
  /\ Enter(NextCursor)
  /\ UNCHANGED <<pc, routes, method, path, nparams, params, marked, responded,
                 matchVars, outcome, logged>>

\* The running middleware calls one of the cttp_* helpers that answer.
Respond ==
  /\ pc = "chain"
  /\ stack # <<>>
  /\ ~responded
  /\ responded' = TRUE
  /\ UNCHANGED <<pc, routes, requestVars, chainVars, matchVars, outcome, logged>>

Return ==
  /\ pc = "chain"
  /\ stack # <<>>
  /\ stack' = Tail(stack)
  /\ UNCHANGED <<pc, routes, requestVars, entered, responded, matchVars, outcome, logged>>

ChainDone ==
  /\ pc = "chain"
  /\ stack = <<>>
  /\ \/ /\ responded
        /\ outcome' = "chain"
        /\ pc' = "finish"
     \/ /\ ~responded
        /\ UNCHANGED outcome
        /\ pc' = "match"
  /\ r' = 1
  /\ k' = 1
  /\ np' = 0
  /\ mismatch' = FALSE
  /\ UNCHANGED <<routes, requestVars, chainVars, responded, logged>>

-----------------------------------------------------------------------------
(* route_match: pattern and path advance in step, segment by segment.      *)

Trying == pc = "match" /\ r <= Len(routes)

pattern == routes[r].pattern
HasP == k <= Len(pattern)
HasQ == k <= Len(path)

Decodes(w) == w \notin BadWords

GetOnly(m) == routes[r].method = m     \* broken: HEAD is not served by GET

Serves(m) == routes[r].method = m \/ (m = "HEAD" /\ routes[r].method = "GET")

\* The next free slot is filled from the segment being compared.
Fill(whole) ==
  params' = [params EXCEPT ![np + 1] = [route |-> r, seg |-> k, whole |-> whole]]

\* result # 0 with n captures: the handler, or one more method mismatch.
Matched(n) ==
  /\ nparams' = n
  /\ \/ /\ Serves(method)
        /\ pc' = "handler"
        /\ outcome' = "handler"
        /\ UNCHANGED <<r, k, np, mismatch>>
     \/ /\ ~Serves(method)
        /\ mismatch' = TRUE
        /\ r' = r + 1
        /\ k' = 1
        /\ np' = 0
        /\ UNCHANGED <<pc, outcome>>

CountKept ==        \* broken: np is not reset for the next route
  /\ r' = r + 1
  /\ k' = 1
  /\ UNCHANGED <<np, nparams, mismatch, pc, outcome>>

NoMatch ==
  /\ r' = r + 1
  /\ k' = 1
  /\ np' = 0
  /\ UNCHANGED <<nparams, mismatch, pc, outcome>>

Advance(n) ==
  /\ k' = k + 1
  /\ np' = n
  /\ UNCHANGED <<r, nparams, mismatch, pc, outcome>>

BothEnd ==
  /\ ~HasP /\ ~HasQ
  /\ Matched(np)
  /\ UNCHANGED params

\* "*" with nothing left of the path captures the empty rest.
RestIsEmpty == HasP /\ ~HasQ /\ pattern[k].kind = "rest" /\ np < MaxParams

CaptureNothing ==
  /\ RestIsEmpty
  /\ Fill(TRUE)
  /\ Matched(np + 1)

OneRunsOut ==
  /\ HasP # HasQ
  /\ ~RestIsEmpty
  /\ NoMatch
  /\ UNCHANGED params

TooManyCaptures ==
  /\ HasP /\ HasQ
  /\ pattern[k].kind # "word"
  /\ np >= MaxParams
  /\ NoMatch
  /\ UNCHANGED params

CaptureSegment ==
  /\ HasP /\ HasQ
  /\ pattern[k].kind = "param"
  /\ np < MaxParams
  /\ Fill(Decodes(path[k]))
  /\ \/ Decodes(path[k]) /\ Advance(np + 1)
     \/ ~Decodes(path[k]) /\ NoMatch

RestDecodes == \A j \in k .. Len(path) : Decodes(path[j])

CaptureRest ==
  /\ HasP /\ HasQ
  /\ pattern[k].kind = "rest"
  /\ np < MaxParams
  /\ Fill(RestDecodes)
  /\ \/ RestDecodes /\ Matched(np + 1)
     \/ ~RestDecodes /\ NoMatch

Compare ==
  /\ HasP /\ HasQ
  /\ pattern[k].kind = "word"
  /\ \/ pattern[k].word = path[k] /\ Advance(np)
     \/ pattern[k].word # path[k] /\ NoMatch
  /\ UNCHANGED params

MatchStep ==
  /\ Trying
  /\ \/ BothEnd
     \/ CaptureNothing
     \/ OneRunsOut
     \/ TooManyCaptures
     \/ CaptureSegment
     \/ CaptureRest
     \/ Compare
  /\ UNCHANGED <<routes, method, path, mwCur, marked, chainVars, responded, logged>>

\* The handler of the matched route; it need not answer.
RunHandler ==
  /\ pc = "handler"
  /\ pc' = "finish"
  /\ responded' \in BOOLEAN
  /\ UNCHANGED <<routes, requestVars, chainVars, matchVars, outcome, logged>>

-----------------------------------------------------------------------------
(* No route serves the request.                                            *)

FallbackOf ==
  IF method = "OPTIONS" THEN "options"
  ELSE IF mismatch THEN "405"
  ELSE IF method \in {"GET", "HEAD"} /\ Webroot THEN "static"
  ELSE "404"

Fallback ==
  /\ pc = "match"
  /\ r > Len(routes)
  /\ outcome' = FallbackOf
  /\ responded' = TRUE
  /\ pc' = "finish"
  /\ UNCHANGED <<routes, requestVars, chainVars, matchVars, logged>>

\* The rest of dispatch_request: the hook looks at req.responded.
Finish ==
  /\ pc = "finish"
  /\ logged' = marked
  /\ pc' = "idle"
  /\ UNCHANGED <<routes, requestVars, chainVars, responded, matchVars, outcome>>

Next ==
  \/ \E m \in Method, p \in Paths : Begin(m, p)
  \/ CallNext
  \/ Respond
  \/ Return
  \/ ChainDone
  \/ MatchStep
  \/ RunHandler
  \/ Fallback
  \/ Finish

Spec == Init /\ [][Next]_vars

=============================================================================
