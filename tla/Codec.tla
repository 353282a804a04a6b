-------------------------------- MODULE Codec --------------------------------
(***************************************************************************)
(* cttp_url_encode, cttp_url_decode, cttp_trim, the a=b scanner next_pair  *)
(* and json_quote.  A string is a sequence of bytes without its NUL.       *)
(***************************************************************************)
EXTENDS Integers, Sequences, SequencesExt

CONSTANTS
  KeyCap,       \* 64: the buffer of a decoded key
  ValueCap,     \* 256: the buffer of a decoded value
  Garbage       \* what may lie in memory behind the part of a buffer just written

ASSUME CodecAssumption == KeyCap \in Nat \ {0} /\ ValueCap \in Nat \ {0}

Byte == 0 .. 255
Char == Byte \ {0}      \* what a C string consists of

\* The characters the code tells apart.
Blank   == 32
Quote   == 34
Percent == 37
Amp     == 38
Plus    == 43
Minus   == 45
Slash   == 47
Semi    == 59
Equals  == 61
Backslash == 92

Bad == -1

CharOfHex(v) == IF v < 10 THEN 48 + v ELSE 55 + v

HexValue(c) ==
  IF c \in 48 .. 57 THEN c - 48
  ELSE IF c \in 65 .. 70 THEN c - 55
  ELSE IF c \in 97 .. 102 THEN c - 87
  ELSE Bad

Whitespace == {9, 10, 13, Blank}

-----------------------------------------------------------------------------

KeepsPlus(c) ==            \* broken: '+' counts as safe
  c \in (48 .. 57) \cup (65 .. 90) \cup (97 .. 122) \cup {Minus, Plus, 46, 95, 126}

Safe(c) == c \in (48 .. 57) \cup (65 .. 90) \cup (97 .. 122) \cup {Minus, 46, 95, 126}

Encode(s) ==
  FlattenSeq([i \in DOMAIN s |->
    IF Safe(s[i]) THEN <<s[i]>>
    ELSE <<Percent, CharOfHex(s[i] \div 16), CharOfHex(s[i] % 16)>>])

\* broken: low digit first
Swapped(c, d) == IF Bad \in {HexValue(c), HexValue(d)} THEN Bad ELSE 16 * HexValue(d) + HexValue(c)

\* strtol(.., 16) of two characters; it skips blanks and takes a sign.
Escaped(c, d) ==
  IF HexValue(d) = Bad THEN Bad
  ELSE IF HexValue(c) # Bad THEN 16 * HexValue(c) + HexValue(d)
  ELSE IF c \in Whitespace \cup {11, 12, Plus} THEN HexValue(d)
  ELSE IF c = Minus THEN (256 - HexValue(d)) % 256
  ELSE Bad

StartsEscape(src, i) == src[i] = Percent /\ i + 2 <= Len(src)

\* What src stands for, byte by byte; Bad where the first bad escape is.
Units(src, plus) ==
  LET from[i \in 1 .. Len(src) + 3] ==
        IF i > Len(src) THEN <<>>
        ELSE IF StartsEscape(src, i)
          THEN LET v == Escaped(src[i + 1], src[i + 2])
               IN  IF v = Bad THEN <<Bad>> ELSE <<v>> \o from[i + 3]
        ELSE <<IF src[i] = Plus /\ plus THEN Blank ELSE src[i]>> \o from[i + 1]
  IN  from[1]

HasBadEscape(src) == Bad \in ToSet(Units(src, FALSE))

\* A C string ends at its first NUL, which %00 can put into it.
CString(s) == SelectInSeq(s, LAMBDA c : c = 0)
Upto0(s) == IF CString(s) = 0 THEN s ELSE SubSeq(s, 1, CString(s) - 1)

Shorter(s, n) == SubSeq(s, 1, IF Len(s) < n THEN Len(s) ELSE n)

\* The result, and what dst holds then, which has no NUL if it failed.
Decode(src, n, plus) ==
  LET all   == Units(src, plus)
      bad   == Bad \in ToSet(all)
      units == IF bad THEN Front(all) ELSE all
  IN  [ok |-> ~bad /\ Len(units) < n, written |-> Shorter(units, n - 1)]

\* The string in dst after that: a failed call leaves what was there before
\* behind its own bytes.
Decoded(d, before, garbage) ==
  IF d.ok THEN Upto0(d.written)
  ELSE IF Len(d.written) <= Len(before)
    THEN Upto0(d.written \o SubSeq(before, Len(d.written) + 1, Len(before)))
  ELSE Upto0(d.written \o garbage)

\* What cttp_trim leaves at the address it was given: it moves no byte to the
\* front, and a string of blanks stays as it is.
TrimmedInPlace(s) ==
  LET last == SelectLastInSeq(s, LAMBDA c : c \notin Whitespace)
  IN  IF last = 0 THEN s ELSE SubSeq(s, 1, last)

-----------------------------------------------------------------------------
(* next_pair.                                                              *)

\* The sections between separators, empty ones skipped.
Sections(text, sep) ==
  LET from[i \in 1 .. Len(text) + 2] ==
        LET ends == {e \in i .. Len(text) : text[e] = sep} \cup {Len(text) + 1}
            end  == CHOOSE e \in ends : \A f \in ends : e <= f
        IN  IF i > Len(text) THEN <<>>
            ELSE IF text[i] = sep THEN from[i + 1]
            ELSE <<SubSeq(text, i, end - 1)>> \o from[end]
  IN  from[1]

\* One section into the buffers key and val, which hold the pair before.
PairOf(section, before, garbage, plus) ==
  LET eq     == SelectInSeq(section, LAMBDA c : c = Equals)
      rawKey == Shorter(IF eq = 0 THEN section ELSE SubSeq(section, 1, eq - 1), KeyCap - 1)
      rawVal == Shorter(SubSeq(section, eq + 1, Len(section)), ValueCap - 1)
      key    == Decode(rawKey, KeyCap, plus)
  IN  IF eq = 0
        THEN [key |-> TrimmedInPlace(Decoded(key, rawKey, garbage)), val |-> <<>>]
        ELSE [key |-> Decoded(key, before.key, garbage),
              val |-> Decoded(Decode(rawVal, ValueCap, plus), before.val, garbage)]

PairsOf(text, sep, plus, garbage) ==
  LET sections == Sections(text, sep)
      upTo[i \in 0 .. Len(sections)] ==
        IF i = 0 THEN <<[key |-> garbage, val |-> garbage]>>
        ELSE LET done == upTo[i - 1]
             IN  Append(done, PairOf(sections[i], done[i], garbage, plus))
  IN  Tail(upTo[Len(sections)])

NULL == <<Bad>>

\* The value of the first pair with the key.
Find(pairs, key) ==
  LET at == SelectInSeq(pairs, LAMBDA p : p.key = key)
  IN  IF at = 0 THEN NULL ELSE pairs[at].val

-----------------------------------------------------------------------------
(* json_quote, and how a reader of JSON undoes it (RFC 8259, 7).           *)

\* The letter behind the backslash: n, t, r, b, f, or the character itself.
ShortEscapes ==
  [c \in {Quote, Backslash, 10, 9, 13, 8, 12} |->
     CASE c = 10 -> 110 [] c = 9 -> 116 [] c = 13 -> 114 [] c = 8 -> 98 [] c = 12 -> 102
       [] OTHER -> c]

LowerHex(v) == IF v < 10 THEN 48 + v ELSE 87 + v

BackslashKept(c) ==      \* broken: no case for the backslash
  IF c \in DOMAIN ShortEscapes \ {Backslash} THEN <<Backslash, ShortEscapes[c]>> ELSE <<c>>

QuotedChar(c) ==
  IF c \in DOMAIN ShortEscapes THEN <<Backslash, ShortEscapes[c]>>
  ELSE IF c < Blank THEN <<Backslash, 117, 48, 48, LowerHex(c \div 16), LowerHex(c % 16)>>
  ELSE <<c>>

JsonQuote(s) == <<Quote>> \o FlattenSeq([i \in DOMAIN s |-> QuotedChar(s[i])]) \o <<Quote>>

\* The bytes between quotes; Bad where no JSON reader goes on.  Whether bytes from
\* 128 on are valid UTF-8 is not looked at, as little as json_quote does.
JsonRead(text) ==
  LET last == Len(text)
      from[i \in 1 .. Len(text) + 6] ==
        IF i >= last THEN IF i = last /\ text[last] = Quote THEN <<>> ELSE <<Bad>>
        ELSE IF text[i] < Blank \/ text[i] = Quote THEN <<Bad>>
        ELSE IF text[i] # Backslash THEN <<text[i]>> \o from[i + 1]
        ELSE IF text[i + 1] = 117 /\ i + 5 < last
          THEN <<16 * HexValue(text[i + 4]) + HexValue(text[i + 5])>> \o from[i + 6]
        ELSE IF \E c \in DOMAIN ShortEscapes : ShortEscapes[c] = text[i + 1]
          THEN <<CHOOSE c \in DOMAIN ShortEscapes : ShortEscapes[c] = text[i + 1]>> \o from[i + 2]
        ELSE <<Bad>>
  IN  from[2]

=============================================================================
