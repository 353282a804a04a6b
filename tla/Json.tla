-------------------------------- MODULE Json --------------------------------
(***************************************************************************)
(* The JSON builder of internals/api.c: a handler calls it piece by piece, *)
(* and json_key decides from one flag per nesting level whether a comma is *)
(* due.  There are Levels flags; deeper containers share the last one, and *)
(* the level is decremented all the same when they end.                    *)
(*                                                                         *)
(* The body is a sequence of tokens: an opening or closing bracket, a      *)
(* comma, or an item, which stands for a value with its key, if any.  A    *)
(* handler closes what it has opened, and may start over at any time, as   *)
(* cttp_json_err does, even after cttp_json_end.                           *)
(***************************************************************************)
EXTENDS Integers, Sequences

CONSTANTS
  Levels,     \* the length of _jf: 8 in cttp.h
  MaxTokens   \* bound: the tokens of a body

ASSUME LevelsAssumption == Levels \in Nat /\ Levels > 1
ASSUME MaxTokensAssumption == MaxTokens \in Nat

VARIABLES
  body,    \* r->body
  jd,      \* r->_jd
  jf,      \* r->_jf
  open,    \* containers the handler has opened and not closed, the outer one included
  done     \* r->responded

vars == <<body, jd, jf, open, done>>

Token == {"open", "close", "comma", "item"}

TypeOK ==
  /\ body \in Seq(Token)
  /\ jd \in 0 .. (Levels - 1)
  /\ jf \in [0 .. (Levels - 1) -> 0 .. 1]
  /\ open \in Nat
  /\ done \in BOOLEAN

\* memset in dispatch_request.
Init ==
  /\ body = <<>>
  /\ jd = 0
  /\ jf = [l \in 0 .. (Levels - 1) |-> 0]
  /\ open = 0
  /\ done = FALSE

LevelKept ==        \* broken: cttp_json_begin does not go back to level 0
  /\ jd' = jd
  /\ jf' = [jf EXCEPT ![0] = 1]

OuterLevel ==
  /\ jd' = 0
  /\ jf' = [jf EXCEPT ![0] = 1]

\* cttp_json_begin: what was built before is dropped.
Begin ==
  /\ body' = <<"open">>
  /\ OuterLevel
  /\ open' = 1
  /\ UNCHANGED done

\* The comma json_key puts before the next item.
Separator == IF jf[jd] = 1 THEN <<>> ELSE <<"comma">>

Adding == open > 0 /\ Len(body) + 2 <= MaxTokens

\* cttp_json_str, _int, _double, _bool, _null, _raw.
Item ==
  /\ Adding
  /\ body' = body \o Separator \o <<"item">>
  /\ jf' = [jf EXCEPT ![jd] = 0]
  /\ UNCHANGED <<jd, open, done>>

Deeper == IF jd < Levels - 1 THEN jd + 1 ELSE jd

FlagOfNewLevel == IF jd < Levels - 1 THEN jd + 1 ELSE 0    \* broken: lost at the cap

FlagOfNext == Deeper

\* cttp_json_obj_begin, cttp_json_arr_begin.
Open ==
  /\ Adding
  /\ body' = body \o Separator \o <<"open">>
  /\ jd' = Deeper
  /\ jf' = [jf EXCEPT ![jd] = 0, ![FlagOfNext] = 1]
  /\ open' = open + 1
  /\ UNCHANGED done

Shallower == IF jd > 0 THEN jd - 1 ELSE jd

\* cttp_json_obj_end, cttp_json_arr_end.
Close ==
  /\ open > 1
  /\ Len(body) + 1 <= MaxTokens
  /\ body' = Append(body, "close")
  /\ jd' = Shallower
  /\ jf' = [jf EXCEPT ![Shallower] = 0]
  /\ open' = open - 1
  /\ UNCHANGED done

\* cttp_json_end.
End ==
  /\ open = 1
  /\ body' = Append(body, "close")
  /\ open' = 0
  /\ done' = TRUE
  /\ UNCHANGED <<jd, jf>>

\* The next response starts with a blank record.
Reset ==
  /\ done /\ open = 0
  /\ body' = <<>>
  /\ jd' = 0
  /\ jf' = [l \in 0 .. (Levels - 1) |-> 0]
  /\ open' = 0
  /\ done' = FALSE

Next == Begin \/ Item \/ Open \/ Close \/ End \/ Reset

Spec == Init /\ [][Next]_vars

-----------------------------------------------------------------------------

\* b may come right after a in a JSON text.
MayFollow(a, b) ==
  \/ a = "open" /\ b # "comma"
  \/ a = "comma" /\ b \in {"item", "open"}
  \/ a \in {"close", "item"} /\ b \in {"comma", "close"}

(***************************************************************************)
(* Commas separate the items of every container and nothing else, however  *)
(* deep the nesting and whatever was begun and dropped before: json_key is *)
(* right although deep levels share a flag and leave it out of step.       *)
(***************************************************************************)
CommasSeparate ==
  \A n \in 1 .. (Len(body) - 1) : MayFollow(body[n], body[n + 1])

(***************************************************************************)
(* Why: the flag json_key looks at is set exactly when nothing has been    *)
(* written since the last opening bracket.                                 *)
(***************************************************************************)
FlagIsFresh ==
  open > 0 => /\ body # <<>>
              /\ body[Len(body)] # "comma"
              /\ jf[jd] = 1 <=> body[Len(body)] = "open"

IndInv ==
  /\ TypeOK
  /\ FlagIsFresh
  /\ CommasSeparate

=============================================================================
