------------------------- MODULE ExchangeProperties -------------------------
(***************************************************************************)
(* What answers and served files promise.                                  *)
(***************************************************************************)
EXTENDS Exchange

Answered == pc = "idle" /\ req.path # "none"

TypeOK ==
  /\ pc \in {"idle", "handler", "static", "stat", "size", "read", "answer"}
  /\ opened \in {0, 1}
  /\ want \in Nat /\ Len(data) <= want
  /\ from \in 0 .. Modulus - 1
  /\ res.status \in {0, 200, 204, 206, 302, 304, 403, 404, 416, 500}
  /\ \A ino \in Inodes : Len(files[ino].data) <= MaxLen /\ files[ino].mtime <= now

(***************************************************************************)
(* The client of a connection that goes on finds the end of every answer,  *)
(* reads what the builders put into the body, and finds nothing behind it  *)
(* that it would take for the next answer.  Left out are the answers for   *)
(* which the code does not do that: no_body with a status that allows a    *)
(* body (a 416; anything after cttp_no_content), a status nobody has set,  *)
(* and HEAD when the handler streams.                                      *)
(***************************************************************************)
NoEnd ==
  ~res.streamed /\ ((res.no_body /\ res.status \notin {204, 304}) \/ res.status = 0)

ChunksForHead == (res.chunked \/ res.streamed) /\ req.head

AnswersDelimited ==
  Answered /\ ~NoEnd /\ ~ChunksForHead =>
    /\ ReadToItsEnd(wire, req.head)
    /\ ContentOf(wire, req.head) =
         IF Contentless(wire, req.head) THEN <<>>
         ELSE IF res.streamed THEN FlattenSeq(res.events) ELSE res.body

(***************************************************************************)
(* "All set the status + Content-Type + body for you and clear previous    *)
(* ones" (API.md:53), and a response leaves nothing behind for the next    *)
(* request: status, content and Content-Type of an answer are those its    *)
(* last builder alone would have given it, however many the handler called *)
(* before and whatever else in between.  Of answers that are not streams   *)
(* this is true but for two things the builders do not clear: no_body,     *)
(* which cttp_no_content leaves set, so that the body of a later builder   *)
(* is not sent; and the Content-Type that cttp_redirect finds there.       *)
(* Header lines are not spoken of: all stay, a Location too.               *)
(***************************************************************************)
Meant == Finalize([alone EXCEPT !.chunked = res.chunked], req.keep)

StaysSilent == emptied /\ ~alone.no_body

KeepsType == alone.ctype = "" /\ res.ctype # ""

LastBuilderCounts ==
  Answered /\ ~webroot /\ alone.responded /\ ~res.streamed =>
    /\ wire.status = Meant.status
    /\ IF StaysSilent THEN wire.pieces = <<>>
       ELSE /\ ContentOf(wire, req.head) = ContentOf(Meant, req.head)
            /\ wire.ctype = Meant.ctype \/ KeepsType

(***************************************************************************)
(* "Multi-line data becomes several data: lines, exactly as the SSE spec   *)
(* wants" (api.c:335): an EventSource gets every event's data as they were *)
(* pushed, in order, whatever else the handler called in between; but a    *)
(* final newline is lost, and an event without data is not seen.  Texts    *)
(* with a CR are left out: it ends a line for the reader, and              *)
(* cttp_sse_send breaks lines at LF only.                                  *)
(***************************************************************************)
WithoutReturn(text) == \A i \in 1 .. Len(text) : text[i] # Return

AsRead(text) == IF text[Len(text)] = Newline THEN Front(text) ELSE text

EventsRead ==
  Answered /\ res.streamed /\ ~req.head /\ (\A k \in DOMAIN pushed : WithoutReturn(pushed[k])) =>
    Received(ContentOf(wire, FALSE)) =
      FlattenSeq([k \in DOMAIN pushed |->
                    IF pushed[k] = <<>> THEN <<>> ELSE <<AsRead(pushed[k])>>])

(***************************************************************************)
(* static_serve closes what it opens, on every path through it.            *)
(***************************************************************************)
DescriptorsClosed == opened = IF fd = None THEN 0 ELSE 1

(***************************************************************************)
(* "Same string => browser cache still valid" (static.c): a 304 is         *)
(* answered only to a client whose copy is the file as it was stat'ed,     *)
(* however reads and writes were interleaved when the copy was made; with  *)
(* one exception, a file that another write made equally long in the same  *)
(* second.                                                                 *)
(***************************************************************************)
Lookalike(f) == \E h \in history : h[1] = Stat(f) /\ h[2] # f.by

NotModifiedIsCurrent ==
  Answered /\ wire.status = 304 =>
    cache.path = req.path /\ (cache.body = seen.file.data \/ Lookalike(seen.file))

(***************************************************************************)
(* A file that nobody rewrites in place between fstat and the last read    *)
(* (others may be renamed over it) is sent whole, or the positions a range *)
(* asks for as RFC 9110, 14.1.2 reads it, as far as they lie in the file;  *)
(* what a Content-Range announces is what was read; and 416 is for "bad    *)
(* ranges" (API.md:99).  Two kinds of range static.c reads otherwise: one  *)
(* whose end precedes its start gets a 206 with all from its start on, and *)
(* the "-" of "-n" is taken for a sign, so that it gets a 416 although the *)
(* last n positions exist (and "-0" the whole file).  A range of which     *)
(* nothing could be read is announced as one that ends before its start.   *)
(***************************************************************************)
Asked(range, total) ==
  CASE range.form = "both"   -> range.a .. range.b
    [] range.form = "open"   -> range.a .. total
    [] range.form = "suffix" -> total - range.a .. total
    [] OTHER                 -> {}

InFile(range, total) == Asked(range, total) \cap 0 .. (total - 1)

Reversed(range) == range.form = "both" /\ range.b < range.a

Expected(range, total) ==
  IF Reversed(range) THEN range.a .. total - 1 ELSE InFile(range, total)

Announced ==
  LET value == (CHOOSE h \in wire.headers : h[1] = "Content-Range")[2]
  IN  value[1] .. value[2]

FileAsAsked ==
  Answered /\ seen.ino \in Inodes /\ files[seen.ino] = seen.file =>
    LET bytes    == seen.file.data
        suffix   == req.range.form = "suffix"
        expected == Expected(req.range, Len(bytes))
    IN  /\ wire.status = 200 => res.body = bytes
        /\ wire.status = 206 /\ res.body # <<>> =>
             /\ res.body = SubSeq(bytes, from + 1, from + Len(res.body))
             /\ Announced = from .. from + Len(res.body) - 1
             /\ suffix \/ Announced \subseteq expected
             /\ suffix \/ (Len(data) = want => Announced = expected)
        /\ wire.status = 206 /\ res.body = <<>> => ReadErrors /\ want > 0
        /\ wire.status = 416 => expected = {} \/ suffix

=============================================================================
