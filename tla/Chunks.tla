------------------------------- MODULE Chunks -------------------------------
(***************************************************************************)
(* read_body_chunked of internals/http.c, character by character: a body   *)
(* in chunks arrives in pieces cut anywhere, and each piece is decoded as  *)
(* far as it goes.  (Module Http takes a chunk for one token that arrives  *)
(* whole.)  One step is one turn of the decoder's for (;;).                *)
(*                                                                         *)
(* Characters are "cr", "lf", ";", "-", the digits of Digits, and any      *)
(* others, which mean nothing to the decoder.  Blanks, "+" and "0x", which *)
(* strtoull also accepts, are not among them.                              *)
(***************************************************************************)
EXTENDS Integers, Sequences, FiniteSetsExt

CONSTANTS
  Characters, \* the characters that are sent
  Digits,     \* the hexadecimal digits used, with their values
  Modulus,    \* 2^64: size_t and unsigned long long count modulo it
  MaxBody,    \* CTTP_MAX_BODY_SZ
  LineCap,    \* the size of the buffer for a size line, 64
  BlockCap,   \* how much may wait without a line end, 8192
  Messages    \* what clients send: records of the type Message

Text == Seq(Characters)

\* A chunk is its size in digits, an extension, and data; the last one has
\* none.  Trailer lines end with their "lf".  Messages that break the framing
\* are not made of parts; those whose sizes come near the word size are huge.
Message == [kind : {"good", "malformed", "huge"}, bytes : Text, body : Text, rest : Text,
            chunks : Seq([size : Text, ext : Text, data : Text]),
            last : [size : Text, ext : Text], trailer : Seq(Text)]

ASSUME BoundsAssumption ==
  /\ Modulus \in Nat /\ MaxBody \in 0 .. Modulus - 1
  /\ LineCap \in Nat /\ BlockCap \in Nat /\ LineCap <= BlockCap
  /\ \A digit \in DOMAIN Digits : Digits[digit] \in 0 .. 15
  /\ {"cr", "lf", ";", "-"} \subseteq Characters \ DOMAIN Digits

VARIABLES
  msg,    \* the message being sent
  sent,   \* how many of its characters have been received
  d       \* the decoder: in, req.body, chunk_stage, chunk_rem, and its verdict

vars == <<msg, sent, d>>

Verdict == {"decoding", "more", "done", "malformed", "oversize"}

\* begin_body; nothing has come behind the headers.
Start == [in |-> <<>>, body |-> <<>>, stage |-> "size", rem |-> 0, verdict |-> "more"]

-----------------------------------------------------------------------------
(* Lines and numbers.                                                      *)

LineEnds(s) == {k \in 1 .. Len(s) : s[k] = "lf"}
LineEnd(s) == Min(LineEnds(s))

\* What stands before the first of some positions.
Before(s, at) == IF at = {} THEN s ELSE SubSeq(s, 1, Min(at) - 1)

\* A size line without its extension.
Field(line) == Before(line, {k \in 1 .. Len(line) : line[k] = ";"})

\* The number that a sequence of digits stands for.
Value(s) ==
  LET val[k \in 0 .. Len(s)] == IF k = 0 THEN 0 ELSE 16 * val[k - 1] + Digits[s[k]]
  IN  val[Len(s)]

IsDigit(c) == c \in DOMAIN Digits
Numeral(s) == Before(s, {k \in 1 .. Len(s) : ~IsDigit(s[k])})

\* strtoull(s, NULL, 16): what is no number is 0, what is too large is the
\* largest word, and a minus sign negates within the width.
Strtoull(s) ==
  LET neg == s # <<>> /\ s[1] = "-"
      v   == Value(Numeral(IF neg THEN Tail(s) ELSE s))
  IN  IF v >= Modulus THEN Modulus - 1 ELSE IF neg THEN (Modulus - v) % Modulus ELSE v

-----------------------------------------------------------------------------
(* What a client sends.                                                    *)

CrLf == <<"cr", "lf">>

\* The pieces from each one on, and what follows them.
Onward(pieces, end) ==
  LET from[k \in 1 .. Len(pieces) + 1] ==
        IF k > Len(pieces) THEN end ELSE pieces[k] \o from[k + 1]
  IN  from

SizeText(chunk) == chunk.size \o chunk.ext \o CrLf
ChunkText(chunk) == SizeText(chunk) \o chunk.data \o CrLf

\* What a message made of parts has from each trailer line, from each chunk,
\* and from the data of each chunk on.
TrailerFrom(m) == Onward(m.trailer, CrLf \o m.rest)
ChunksFrom(m) ==
  Onward([k \in 1 .. Len(m.chunks) |-> ChunkText(m.chunks[k])],
         SizeText(m.last) \o TrailerFrom(m)[1])
DataFrom(m) == Onward([k \in 1 .. Len(m.chunks) |-> m.chunks[k].data], <<>>)

\* A size line that fits the decoder's buffer.
IsSizeLine(chunk, n) ==
  /\ chunk.size # <<>> /\ \A k \in 1 .. Len(chunk.size) : IsDigit(chunk.size[k])
  /\ Value(chunk.size) = n
  /\ chunk.ext # <<>> => chunk.ext[1] = ";"
  /\ LineEnds(chunk.ext) = {}
  /\ Len(SizeText(chunk)) < LineCap

IsTrailerLine(line) ==
  line # CrLf /\ LineEnds(line) = {Len(line)} /\ Len(line) <= BlockCap

\* A body, which fits in memory, in chunks that are not empty.
WellFormed(m) ==
  /\ \A k \in 1 .. Len(m.chunks) :
       m.chunks[k].data # <<>> /\ IsSizeLine(m.chunks[k], Len(m.chunks[k].data))
  /\ IsSizeLine(m.last, 0)
  /\ \A k \in 1 .. Len(m.trailer) : IsTrailerLine(m.trailer[k])
  /\ m.bytes = ChunksFrom(m)[1]
  /\ m.body = DataFrom(m)[1] /\ Len(m.body) < Modulus

\* No number in it gets near the word size.
SmallSizes(m) ==
  \A i \in 1 .. Len(m.bytes) : \A j \in i - 1 .. Len(m.bytes) :
    Strtoull(Field(SubSeq(m.bytes, i, j))) < Modulus - MaxBody

ASSUME MessagesAssumption ==
  \A m \in Messages :
    /\ m \in Message
    /\ m.kind = "good" => WellFormed(m)
    /\ m.kind = "malformed" => SmallSizes(m)

-----------------------------------------------------------------------------
(* The branches of the loop.                                               *)

Consumed(c, n) == [c EXCEPT !.in = SubSeq(@, n + 1, Len(@))]

Ends(c, verdict) == [c EXCEPT !.verdict = verdict]

\* memchr found no line end.
NoLineEnd(c) == Ends(c, IF Len(c.in) > BlockCap THEN "malformed" ELSE "more")

CapForgetsBody(c, size) == size > MaxBody      \* broken: body.len is left out

\* body.len + sz > CTTP_MAX_BODY_SZ, in size_t.
ExceedsCap(c, size) == (Len(c.body) + size) % Modulus > MaxBody

SizeLine(c) ==
  LET e == LineEnd(c.in)
      size == Strtoull(Field(SubSeq(c.in, 1, e - 1)))
      read == Consumed(c, e)
  IN  IF LineEnds(c.in) = {} THEN NoLineEnd(c)
      ELSE IF e >= LineCap THEN Ends(c, "malformed")
      ELSE IF ExceedsCap(c, size) THEN Ends(read, "oversize")
      ELSE [read EXCEPT !.rem = size, !.stage = IF size = 0 THEN "trailer" ELSE "data"]

StartsWithCrLf(s) == Len(s) >= 2 /\ s[1] = "cr" /\ s[2] = "lf"

CrUnchecked(c) ==      \* broken: the line end is taken before it has all come
  IF c.in = <<>> THEN Ends(c, "more")
  ELSE [Consumed(c, 2) EXCEPT !.stage = "size"]

\* The CR LF behind the data of a chunk.
ChunkEnd(c) ==
  IF Len(c.in) < 2 THEN Ends(c, "more")
  ELSE IF StartsWithCrLf(c.in) THEN [Consumed(c, 2) EXCEPT !.stage = "size"]
  ELSE Ends(c, "malformed")

AllOfInput(c) == Len(c.in)       \* broken: rem does not bound the copy

Take(c) == IF c.rem > Len(c.in) THEN Len(c.in) ELSE c.rem

\* There is no way out here for an input that is used up.
ChunkData(c) ==
  [Consumed(c, Take(c)) EXCEPT !.body = @ \o SubSeq(c.in, 1, Take(c)),
                               !.rem = @ - Take(c)]

EmptyTrailerRead(c) ==      \* broken: no way out for an empty input
  IF StartsWithCrLf(c.in) THEN Ends(Consumed(c, 2), "done")
  ELSE IF c.in # <<>> /\ LineEnds(c.in) = {} THEN NoLineEnd(c)
  ELSE Consumed(c, IF c.in = <<>> THEN 0 ELSE LineEnd(c.in))

Trailer(c) ==
  IF c.in = <<>> THEN Ends(c, "more")
  ELSE IF StartsWithCrLf(c.in) THEN Ends(Consumed(c, 2), "done")
  ELSE IF LineEnds(c.in) = {} THEN NoLineEnd(c)
  ELSE Consumed(c, LineEnd(c.in))

Turn(c) ==
  IF c.stage = "size" THEN SizeLine(c)
  ELSE IF c.stage = "trailer" THEN Trailer(c)
  ELSE IF c.rem = 0 THEN ChunkEnd(c)
  ELSE ChunkData(c)

-----------------------------------------------------------------------------

Init ==
  /\ msg \in Messages
  /\ sent = 0
  /\ d = Start

\* More of the message is received, and the decoder is called.
Receive ==
  /\ d.verdict = "more"
  /\ \E n \in (sent + 1) .. Len(msg.bytes) :
       /\ sent' = n
       /\ d' = [d EXCEPT !.in = @ \o SubSeq(msg.bytes, sent + 1, n),
                         !.verdict = "decoding"]
  /\ UNCHANGED msg

Decode ==
  /\ d.verdict = "decoding"
  /\ d' = Turn(d)
  /\ UNCHANGED <<msg, sent>>

Next == Receive \/ Decode

Spec == Init /\ [][Next]_vars
FairSpec == Spec /\ WF_vars(Decode)

-----------------------------------------------------------------------------

TypeOK ==
  /\ msg \in Messages
  /\ sent \in 0 .. Len(msg.bytes)
  /\ d.stage \in {"size", "data", "trailer"}
  /\ d.rem \in 0 .. Modulus - 1
  /\ d.verdict \in Verdict
  /\ \E n \in 0 .. sent : d.in = SubSeq(msg.bytes, n + 1, sent)

Begins(s, t) == Len(s) <= Len(t) /\ s = SubSeq(t, 1, Len(s))

(***************************************************************************)
(* A well-formed body is never refused for its form, never stored in part  *)
(* or with anything else in it, and ends where the next request begins.    *)
(***************************************************************************)
BodyAsEncoded ==
  msg.kind = "good" =>
    /\ Begins(d.body, msg.body)
    /\ d.verdict # "malformed"
    /\ d.verdict = "oversize" => Len(msg.body) > MaxBody
    /\ d.verdict = "done" => d.body = msg.body /\ Begins(d.in, msg.rest)

\* The decoder after at most n turns on an input that came all at once.
AfterTurns(input, n) ==
  LET run[k \in 0 .. n] ==
        IF k = 0 THEN [Start EXCEPT !.in = input, !.verdict = "decoding"]
        ELSE LET c == run[k - 1] IN IF c.verdict = "decoding" THEN Turn(c) ELSE c
  IN  run[n]

(***************************************************************************)
(* What has been decoded, what is left in the buffer and the verdict do    *)
(* not depend on where TCP cut the message (for blocks below BlockCap).    *)
(***************************************************************************)
SplitIndependent ==
  d.verdict # "decoding" /\ sent > 0 =>
    d = AfterTurns(SubSeq(msg.bytes, 1, sent), 2 * sent + 1)

(***************************************************************************)
(* CTTP_MAX_BODY_SZ bounds the body, what a chunk still promises included, *)
(* unless a size is so close to the top of size_t that the sum wraps.      *)
(***************************************************************************)
BodyWithinCap ==
  msg.kind # "huge" => Len(d.body) + d.rem <= MaxBody

(***************************************************************************)
(* A turn of the loop that changes nothing will be taken for ever.  The    *)
(* only place where that happens is in the middle of a chunk's data.       *)
(***************************************************************************)
SpinsOnlyInData ==
  d.verdict = "decoding" /\ Turn(d) = d => d.stage = "data" /\ d.in = <<>>

(***************************************************************************)
(* "1 done, 0 need more, <0 error": a call of the decoder comes to an end, *)
(* and with it the turn of the only thread there is.                       *)
(***************************************************************************)
CallReturns == d.verdict = "decoding" ~> d.verdict # "decoding"

=============================================================================
