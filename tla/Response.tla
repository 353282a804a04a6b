------------------------------ MODULE Response ------------------------------
(***************************************************************************)
(* struct cttp_response, the builders of api.c that fill it in, and the    *)
(* bytes http_finalize_response makes of it, with what a client makes of   *)
(* those.  A body is a sequence of bytes; of the other header lines only   *)
(* those are kept that say where the answer ends or what it is.            *)
(***************************************************************************)
EXTENDS Integers, Sequences, SequencesExt

CONSTANT ChunkSize    \* 4096: the most one chunk of an answer holds

ASSUME ChunkSizeAssumption == ChunkSize \in Nat \ {0}

Newline   == 10
Return    == 13
DataField == 0       \* "data: "

\* memset in dispatch_request; the last three stand for what the connection
\* holds once a handler streams: c->streamed, the headers and the chunks sent.
BlankResponse(isHead) ==
  [status |-> 0, ctype |-> "", body |-> <<>>, headers |-> {}, chunked |-> FALSE,
   head_only |-> isHead, no_body |-> FALSE, responded |-> FALSE,
   streamed |-> FALSE, begun |-> {}, events |-> <<>>]

-----------------------------------------------------------------------------
(* Builders.                                                               *)

SendBehind(r, status, ctype, bytes) ==     \* broken: no buf_free
  [r EXCEPT !.status = status, !.ctype = ctype, !.body = @ \o bytes, !.responded = TRUE]

\* cttp_send, cttp_text, cttp_html, and cttp_json_begin ... cttp_json_end.
Send(r, status, ctype, bytes) ==
  [r EXCEPT !.status = status, !.ctype = ctype, !.body = bytes, !.responded = TRUE]

NoContent(r) == [r EXCEPT !.status = 204, !.no_body = TRUE, !.responded = TRUE]

\* cttp_set_cookie, cttp_delete_cookie, cttp_etag and cttp_cache, given text
\* without line breaks (they do not look) and lines that do not frame an answer.
AddLine(r, name, value) == [r EXCEPT !.headers = @ \cup {<<name, value>>}]

\* valid_hdr_name, and no line break in the value: one name stands for the
\* lines that fail either.
ValidName(name) == name # "not a token"

\* cttp_set_header, and cttp_cors and cttp_attachment, which call it.
SetHeader(r, name, value) == IF ValidName(name) THEN AddLine(r, name, value) ELSE r

Redirect(r, code, location) ==
  SetHeader([r EXCEPT !.status = code, !.body = <<>>, !.responded = TRUE],
            "Location", location)

\* The handler sets the field itself.
StreamAsChunks(r) == [r EXCEPT !.chunked = TRUE]

\* The body of cttp_json_err, which is left to module Json.
JsonErr(r, status) == Send(r, status, "json", <<101>>)

EventStream == "text/event-stream"

\* cttp_sse_start.
SseStart(r) ==
  IF r.streamed THEN r
  ELSE [r EXCEPT !.streamed = TRUE, !.status = 200, !.ctype = EventStream,
                 !.responded = TRUE, !.begun = r.headers]

\* The lines of a text; nothing stands behind its last newline.
Lines(text) ==
  LET from[i \in 1 .. Len(text) + 2] ==
        LET ends == {e \in i .. Len(text) : text[e] = Newline} \cup {Len(text) + 1}
            end  == CHOOSE e \in ends : \A f \in ends : e <= f
        IN  IF i > Len(text) THEN <<>> ELSE <<SubSeq(text, i, end - 1)>> \o from[end + 1]
  IN  from[1]

OneLineEvent(data) == <<DataField>> \o data \o <<Newline, Newline>>     \* broken: no strchr

Event(data) ==
  FlattenSeq([k \in DOMAIN Lines(data) |-> <<DataField>> \o Lines(data)[k] \o <<Newline>>])
    \o <<Newline>>

\* cttp_sse_send.
SseSend(r, data) == [SseStart(r) EXCEPT !.events = Append(@, Event(data))]

-----------------------------------------------------------------------------
(* http_finalize_response.                                                 *)

Silent(r) == r.no_body \/ r.status \in {204, 304} \/ r.status < 200

LastPieceLost(body) ==      \* broken: the loop stops one piece early
  [k \in 1 .. Len(body) \div ChunkSize |->
     SubSeq(body, (k - 1) * ChunkSize + 1, k * ChunkSize)]

\* for (i = 0; i < body.len; i += 4096)
Pieces(body) ==
  [k \in 1 .. (Len(body) + ChunkSize - 1) \div ChunkSize |->
     SubSeq(body, (k - 1) * ChunkSize + 1,
            IF k * ChunkSize < Len(body) THEN k * ChunkSize ELSE Len(body))]

\* An answer on the wire: ctype is its Content-Type line, if there is one,
\* framing says which header announces its end, and pieces what follows the
\* blank line (behind them, if chunked, a last chunk).
Finalize(r, keep) ==
  IF r.streamed
    THEN [status |-> 200, close |-> FALSE, ctype |-> EventStream, headers |-> r.begun,
          framing |-> "chunked", length |-> 0, pieces |-> r.events]
  ELSE
    [status  |-> r.status,
     close   |-> ~keep,
     ctype   |-> IF Silent(r) \/ r.chunked THEN ""
                 ELSE IF r.ctype = "" THEN "text/plain" ELSE r.ctype,
     headers |-> r.headers,
     framing |-> IF Silent(r) THEN "none" ELSE IF r.chunked THEN "chunked" ELSE "length",
     length  |-> IF Silent(r) \/ r.chunked THEN 0 ELSE Len(r.body),
     pieces  |-> IF Silent(r) THEN <<>>
                 ELSE IF r.chunked THEN Pieces(r.body)
                 ELSE IF r.head_only THEN <<>>
                 ELSE <<r.body>>]

-----------------------------------------------------------------------------
(* A client's reading of it (RFC 9112, 6.3).                               *)

\* Answers that have no content, whatever their headers say.
Contentless(w, isHead) == isHead \/ w.status \in {204, 304} \/ w.status \in 100 .. 199

\* The client finds the end of the answer without waiting for the end of the
\* connection, and finds nothing behind it.
ReadToItsEnd(w, isHead) ==
  IF Contentless(w, isHead) THEN w.framing # "chunked" /\ FlattenSeq(w.pieces) = <<>>
  ELSE CASE w.framing = "length"  -> Len(FlattenSeq(w.pieces)) = w.length
         [] w.framing = "chunked" -> \A k \in 1 .. Len(w.pieces) : w.pieces[k] # <<>>
         [] w.framing = "none"    -> w.close

\* A stream with all its line ends alike: LF, CR and CR LF each end a line.
Unified(stream) ==
  FlattenSeq([k \in DOMAIN stream |->
                IF stream[k] = Return THEN <<Newline>>
                ELSE IF stream[k] = Newline /\ k > 1 /\ stream[k - 1] = Return THEN <<>>
                ELSE <<stream[k]>>])

\* What an EventSource makes of a stream (HTML Standard, 9.2.6): the data of
\* its events, lines joined.  An event without data is none, and a line that
\* is not a data line says nothing here.
Received(content) ==
  LET lines == Lines(Unified(content))
      read[k \in 0 .. Len(lines)] ==
        IF k = 0 THEN [events |-> <<>>, data |-> <<>>]
        ELSE LET before == read[k - 1]
             IN  IF lines[k] # <<>>
                   THEN IF lines[k][1] = DataField
                          THEN [before EXCEPT !.data = @ \o Tail(lines[k]) \o <<Newline>>]
                          ELSE before
                 ELSE IF before.data # <<>>
                   THEN [events |-> Append(before.events, Front(before.data)), data |-> <<>>]
                 ELSE before
  IN  read[Len(lines)].events

ContentOf(w, isHead) == IF Contentless(w, isHead) THEN <<>> ELSE FlattenSeq(w.pieces)

=============================================================================
