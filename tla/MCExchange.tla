----------------------------- MODULE MCExchange -----------------------------
(***************************************************************************)
(* Values for the constants of Exchange.                                   *)
(***************************************************************************)
EXTENDS ExchangeProperties

MCBodies == {<<>>, <<1>>, <<1, 2, 3>>}

\* No data, a line, lines with an empty one between them, a final newline, and
\* two lines that a CR parts.
MCEvents == {<<>>, <<1>>, <<1, 10, 10, 2>>, <<1, 10>>, <<1, 13, 2>>}

\* Ranges inside a file of two bytes, across its end, outside it, upside
\* down, of the last byte, and in a unit the code does not read.
MCRanges ==
  {[form |-> "both", a |-> a, b |-> 0] : a \in {0, 1, 2}}
    \cup {[form |-> "both", a |-> 1, b |-> 5], [form |-> "open", a |-> 1, b |-> 0],
          [form |-> "suffix", a |-> 0, b |-> 0], [form |-> "suffix", a |-> 1, b |-> 0],
          [form |-> "junk", a |-> 0, b |-> 0]}

MCRequests ==
  {[path |-> "page", range |-> r, head |-> FALSE] : r \in MCRanges}
    \cup {[path |-> p, range |-> NoRange, head |-> FALSE] : p \in {"page", "slash", "dotted"}}
    \cup {[path |-> "page", range |-> NoRange, head |-> TRUE]}

=============================================================================
