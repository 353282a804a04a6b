------------------------------ MODULE MCServer ------------------------------
(***************************************************************************)
(* Values for TLC: the scripts the clients of a run follow.                *)
(***************************************************************************)
EXTENDS Refinement, TLC

Get ==
  [ver |-> 1, conn |-> "none", method |-> "GET", body |-> "none", size |-> 0,
   expect |-> FALSE, fault |-> "none", reply |-> "plain"]

GetClose == [Get EXCEPT !.conn = "close"]
Get10 == [Get EXCEPT !.ver = 0]
Get10Keep == [Get EXCEPT !.ver = 0, !.conn = "keep-alive"]
GetChunked == [Get EXCEPT !.reply = "chunked"]
GetSse == [Get EXCEPT !.reply = "sse"]
GetEmpty == [Get EXCEPT !.reply = "empty"]
Head_ == [Get EXCEPT !.method = "HEAD"]
Post(n) == [Get EXCEPT !.method = "POST", !.body = "length", !.size = n]
PostExpect(n) == [Post(n) EXCEPT !.expect = TRUE]
PostChunked(n) == [Get EXCEPT !.method = "POST", !.body = "chunked", !.size = n]
PostChunkedExpect(n) == [PostChunked(n) EXCEPT !.expect = TRUE]
Broken(q, where) == [q EXCEPT !.fault = where]
Trace_ == [Get EXCEPT !.method = "UNKNOWN"]

-----------------------------------------------------------------------------
(* One client out of many: pairs of requests of every shape.               *)

GoodRequests ==
  {Get, GetClose, Get10, Get10Keep, GetChunked, GetSse, GetEmpty, Head_,
   Post(0), Post(2), PostExpect(1), PostChunked(0), PostChunked(2),
   PostChunkedExpect(1)}

BadRequests ==
  {Trace_, Post(3), PostExpect(3), PostChunked(3), PostChunkedExpect(3),
   Broken(Get, "line"), Broken(Get, "target"), Broken(Post(1), "header"),
   Broken(Post(1), "length"), Broken(PostChunked(1), "chunk"),
   Broken(PostChunked(0), "huge"), Broken(PostChunked(1), "huge")}

Pairs(first, second) == {<<q, r>> : q \in first, r \in second}

Followers == {Get, PostChunked(1)}

LateFaults ==
  {Trace_, Post(3), PostChunked(3), Broken(Post(1), "header"), Broken(PostChunked(1), "chunk"),
   Broken(PostChunked(2), "huge")}

AllPairs ==
  Pairs(GoodRequests, Followers)
    \cup Pairs(BadRequests, {Get})
    \cup Pairs({PostExpect(3), Broken(PostChunked(1), "chunk")}, {PostChunked(1)})
    \cup Pairs({Post(1)}, LateFaults)

-----------------------------------------------------------------------------
(* Several clients: fewer and shorter scripts.                             *)

Keepers == {<<Get>>}
Waiters == {<<PostExpect(1), Get>>, <<PostChunkedExpect(1)>>}

OnePair == {<<Get, Get>>}

ClientSymmetry == Permutations(Clients)

=============================================================================
