------------------------------ MODULE MCChunks ------------------------------
(***************************************************************************)
(* Messages for TLC: bodies of up to two chunks with extension and trailer,*)
(* a following request, and messages that break the framing.               *)
(***************************************************************************)
EXTENDS Chunks, TLC

Letters == {"cr", "lf", ";", "-", "0", "1", "2", "f", "a", "t", "z", "G"}

FewDigits == "0" :> 0 @@ "1" :> 1 @@ "2" :> 2 @@ "f" :> 15

\* The digit of a size.
DigitOf(n) == CHOOSE digit \in DOMAIN FewDigits : FewDigits[digit] = n

Chunk(data, ext) == [size |-> <<DigitOf(Len(data))>>, ext |-> ext, data |-> data]

Nothing == [kind |-> "good", bytes |-> <<>>, body |-> <<>>, rest |-> <<>>, chunks |-> <<>>,
            last |-> [size |-> <<"0">>, ext |-> <<>>], trailer |-> <<>>]

Good(data, ext, trailer, rest) ==
  LET m == [Nothing EXCEPT !.chunks = [k \in 1 .. Len(data) |-> Chunk(data[k], ext)],
                           !.trailer = trailer, !.rest = rest]
  IN  [m EXCEPT !.bytes = ChunksFrom(m)[1], !.body = DataFrom(m)[1]]

Bad(kind, bytes) == [Nothing EXCEPT !.kind = kind, !.bytes = bytes]

\* Data may look like a line end or like the last chunk.
Data == {<<"a">>, <<"lf", "a">>, CrLf, <<"0", "cr">>}

GoodMessages ==
  {Good(data, ext, trailer, rest) :
     data \in {<<>>} \cup {<<x>> : x \in Data} \cup {<<x, y>> : x \in Data, y \in {<<"a">>, CrLf}},
     ext \in {<<>>, <<";", "f">>},
     trailer \in {<<>>, <<<<"t", "lf">>>>, <<<<"cr", "t", "lf">>, <<"lf">>>>},
     rest \in {<<>>, <<"G", "1">>}}

BrokenMessages ==
  {Bad("malformed", <<"1", "cr", "lf", "a", "a">> \o CrLf),
   Bad("malformed", <<"1", "cr", "lf", "a", "lf", "cr">>),
   Bad("malformed", <<"z", "cr", "lf", "a", "cr", "lf">>),
   Bad("malformed", <<"1", ";", "t", "t", "t", "t", "t", "cr", "lf", "a">>),
   Bad("malformed", <<"1", ";", "t", "t", "t", "t", "t", "t", "t", "t">>),
   Bad("malformed", <<"0", "cr", "lf", "t", "t", "t", "t", "t", "t", "t", "t", "t", "t">>),
   Bad("huge", <<"f", "cr", "lf", "a">>),
   Bad("huge", <<"1", "cr", "lf", "a", "cr", "lf", "-", "1", "cr", "lf", "a", "a", "a", "a">>),
   Bad("huge", <<"1", "cr", "lf", "a", "cr", "lf", "f", "f", "cr", "lf", "a", "a", "a", "a">>)}

AllMessages == GoodMessages \cup BrokenMessages
FewMessages == {m \in AllMessages : Len(m.chunks) <= 1}

=============================================================================
