------------------------------ MODULE Accessors ------------------------------
(***************************************************************************)
(* What a handler reads of a request: cttp_query, cttp_query_has,          *)
(* cttp_form, cttp_cookie and cttp_param, with the buffers they return     *)
(* pointers into.  cttp_query and cttp_form have two static buffers each,  *)
(* which live as long as the program; cookies are parsed on demand into    *)
(* the request struct.  One request follows the other on a connection.     *)
(***************************************************************************)
EXTENDS Codec

CONSTANTS
  MaxCookies,   \* 16: how many cookies are kept
  PairLists,    \* what clients encode into queries, forms and cookies
  RawTexts,     \* queries, forms and cookies of other clients
  Segments,     \* what clients encode into a segment of the path
  Keys,         \* what handlers ask for
  MaxCalls,     \* bound: accessor calls per request
  MaxRequests   \* bound: requests

ASSUME AccessorsAssumption == {MaxCookies, MaxCalls, MaxRequests} \subseteq Nat

\* Texts are C strings; a segment ends before the next slash.
ASSUME TextsAssumption ==
  /\ PairLists \subseteq Seq([key : Seq(Char), val : Seq(Char)])
  /\ RawTexts \cup Keys \cup Garbage \subseteq Seq(Char)
  /\ Segments \subseteq Seq(Char \ {Slash})

VARIABLES
  req,      \* source of the text, the text, the pairs it was made from, the captured segment
  ncookies, \* nccookies, -1 before they are parsed
  cookies,
  out,      \* the two buffers of cttp_query and of cttp_form
  slot,     \* which of them was used last
  requests, \* how many requests there have been
  calls,    \* how many calls the last one has seen
  last,     \* the last call and what it returned
  held      \* of each: the last two calls' buffers and the strings in them

vars == <<req, ncookies, cookies, out, slot, requests, calls, last, held>>

Rotating == {"query", "form"}
Sources == Rotating \cup {"cookie", "json"}     \* "json": a body of another Content-Type

Other(k) == 3 - k

NoCall == [call |-> "none", key |-> <<>>, result |-> NULL]
NotFound == [at |-> 0, value |-> NULL]

NoRequest == [source |-> "json", text |-> <<>>, pairs |-> <<>>, encoded |-> FALSE,
              segment |-> <<>>, param |-> NULL]

Init ==
  /\ req = NoRequest
  /\ ncookies = -1
  /\ cookies = <<>>
  /\ out = [f \in Rotating |-> <<<<>>, <<>>>>]
  /\ slot = [f \in Rotating |-> 1]
  /\ requests = 0
  /\ calls = 0
  /\ last = NoCall
  /\ held = [f \in Rotating |-> <<NotFound, NotFound>>]

-----------------------------------------------------------------------------
(* A request arrives.                                                      *)

Between(source) == IF source = "cookie" THEN <<Semi, Blank>> ELSE <<Amp>>

\* The pairs a client encodes, with "&", or with "; " as in a Cookie line.
Text(source, pairs) ==
  FlattenSeq([i \in DOMAIN pairs |->
    (IF i = 1 THEN <<>> ELSE Between(source))
      \o Encode(pairs[i].key) \o <<Equals>> \o Encode(pairs[i].val)])

CacheKept == ncookies       \* broken: the sentinel is not set again
CacheReset == -1

\* http_init_request; then the path is decoded, and route_match decodes the
\* segment it captures once more.
Arrive(source, text, pairs, encoded, segment) ==
  LET path  == Decode(Encode(segment), Len(Encode(segment)) + 1, FALSE).written
      param == Decode(path, ValueCap, FALSE)
  IN  /\ requests < MaxRequests
      /\ requests' = requests + 1
      /\ req' = [source |-> source, text |-> text, pairs |-> pairs, encoded |-> encoded,
                 segment |-> segment,
                 param |-> IF param.ok THEN Upto0(param.written) ELSE NULL]
      /\ ncookies' = CacheReset
      /\ cookies' = IF ncookies' = -1 THEN <<>> ELSE cookies
      /\ calls' = 0
      /\ last' = NoCall
      /\ UNCHANGED <<out, slot, held>>

Request ==
  \/ \E source \in Sources \ {"json"}, pairs \in PairLists :
       Arrive(source, Text(source, pairs), pairs, TRUE, <<>>)
  \/ \E source \in Sources, text \in RawTexts :
       Arrive(source, text, <<>>, FALSE, <<>>)
  \/ \E segment \in Segments :
       Arrive("json", <<>>, <<>>, FALSE, segment)

-----------------------------------------------------------------------------
(* Calls of a handler.                                                     *)

Returns(call, key, result) ==
  /\ calls' = calls + 1
  /\ UNCHANGED requests
  /\ last' = [call |-> call, key |-> key, result |-> result]

SlotKept(f) == slot[f]                 \* broken: one buffer
NextSlot(f) == Other(slot[f])

\* A search of the text with the buffers of f; a miss uses up a buffer too.
Search(f, text) ==
  \E garbage \in Garbage :
    LET pairs == PairsOf(text, Amp, TRUE, garbage)
        now   == NextSlot(f)
    IN  \E key \in Keys :
          LET value == Find(pairs, key)
          IN  /\ slot' = [slot EXCEPT ![f] = now]
              /\ out' = IF value = NULL THEN out ELSE [out EXCEPT ![f][now] = value]
              /\ held' = [held EXCEPT ![f] =
                   <<@[2], IF value = NULL THEN NotFound ELSE [at |-> now, value |-> value]>>]
              /\ Returns(f, key, value)
              /\ UNCHANGED <<req, ncookies, cookies>>

\* cttp_query and cttp_query_has.
Query == calls < MaxCalls /\ Search("query", IF req.source = "query" THEN req.text ELSE <<>>)

Form ==
  /\ calls < MaxCalls
  /\ req.source = "form" /\ req.text # <<>>
  /\ Search("form", req.text)

\* No body, or a body of another type: no buffer is used up.
FormOfNone ==
  /\ calls < MaxCalls
  /\ req.source # "form" \/ req.text = <<>>
  /\ \E key \in Keys : Returns("form", key, NULL)
  /\ UNCHANGED <<req, ncookies, cookies, out, slot, held>>

HeaderPairs(garbage) ==
  IF req.source # "cookie" THEN <<>>
  ELSE LET pairs == PairsOf(req.text, Semi, FALSE, garbage)
       IN  SubSeq(pairs, 1, IF Len(pairs) < MaxCookies THEN Len(pairs) ELSE MaxCookies)

Cookie ==
  /\ calls < MaxCalls
  /\ \E garbage \in Garbage :
       cookies' = IF ncookies < 0 THEN HeaderPairs(garbage) ELSE cookies
  /\ ncookies' = Len(cookies')
  /\ \E key \in Keys : Returns("cookie", key, Find(cookies', key))
  /\ UNCHANGED <<req, out, slot, held>>

\* cttp_param: there is one capture, and this is its name.
ParamName == <<97>>

Param ==
  /\ calls < MaxCalls
  /\ \E key \in Keys : Returns("param", key, IF key = ParamName THEN req.param ELSE NULL)
  /\ UNCHANGED <<req, ncookies, cookies, out, slot, held>>

Next == Request \/ Query \/ Form \/ FormOfNone \/ Cookie \/ Param

Spec == Init /\ [][Next]_vars

-----------------------------------------------------------------------------
(* Properties.                                                             *)

Fits(p) == Len(Encode(p.key)) < KeyCap /\ Len(Encode(p.val)) < ValueCap

\* The first value sent under a key.
ValueSent(key) == Find(req.pairs, key)

(***************************************************************************)
(* cttp_query and cttp_form return the first value a client sent under a   *)
(* key, and NULL for the keys it has not sent, whatever characters keys    *)
(* and values consist of (if their encodings fit the scanner's buffers).   *)
(***************************************************************************)
PairsFound ==
  last.call \in Rotating /\ req.encoded /\ (\A i \in DOMAIN req.pairs : Fits(req.pairs[i])) =>
    last.result = IF req.source = last.call THEN ValueSent(last.key) ELSE NULL

(***************************************************************************)
(* A handler may compare two parameters: the string that cttp_query or     *)
(* cttp_form has returned stays what it was through the next call of it,   *)
(* a miss, a cttp_query_has or one for the next request included.          *)
(***************************************************************************)
TwoValuesHeld ==
  \A f \in Rotating : \A k \in 1 .. 2 :
    held[f][k] # NotFound => out[f][held[f][k].at] = held[f][k].value

(***************************************************************************)
(* "parsed once per request, then cached" (api.c): a cookie is looked up   *)
(* in the Cookie line of the request at hand, never in an earlier one.     *)
(***************************************************************************)
CookiesOfThisRequest ==
  last.call = "cookie" /\ ~HasBadEscape(req.text) =>
    last.result = Find(HeaderPairs(<<>>), last.key)

(***************************************************************************)
(* cttp_param returns the segment of the path that the client encoded, if  *)
(* it has no percent sign: those are decoded twice.                        *)
(***************************************************************************)
ParamAsSent ==
  last.call = "param" /\ last.key = ParamName /\ requests > 0
    /\ Percent \notin ToSet(req.segment) /\ Len(req.segment) < ValueCap =>
      last.result = req.segment

(***************************************************************************)
(* "JSON string with full escaping" (api.c): whatever an accessor returned *)
(* can be put into a JSON answer, as the demo's get_user does, and a       *)
(* client that reads its bytes back finds them unchanged. (json_quote      *)
(* passes on bytes from 128 on as they are; a client that insists on UTF-8 *)
(* refuses those that are not, which this does not look at.)               *)
(***************************************************************************)
QuotedReadsBack ==
  last.result # NULL => JsonRead(JsonQuote(last.result)) = last.result

(***************************************************************************)
(* "Cookies: "Cookie: a=1; b=2"" (api.c:111): each of the cookies of such  *)
(* a line is found under its name.                                         *)
(***************************************************************************)
CookieFound ==
  last.call = "cookie" /\ req.source = "cookie" /\ req.encoded
    /\ Len(req.pairs) <= MaxCookies /\ (\A i \in DOMAIN req.pairs : Fits(req.pairs[i])) =>
      last.result = ValueSent(last.key)

=============================================================================
