--------------------------- MODULE OrderedService ---------------------------
(***************************************************************************)
(* What a client may rely on, with nothing said of buffers, polls or bytes:*)
(* a connection is a service that answers the requests put to it, one      *)
(* after the other.  A client asks; the service commits to an answer; the  *)
(* client sees the answers committed to in their order; and when the       *)
(* connection ends, from either side, answers not seen yet may be lost     *)
(* but none is added.  A client that makes no mistakes (it is careful) is  *)
(* answered exactly once per request; another one at least in order.       *)
(***************************************************************************)
EXTENDS Naturals, Sequences

CONSTANT Clients

VARIABLES
  careful,   \* the clients whose requests are all well formed
  asked,     \* asked[c]: how many requests c has begun to send
  answers,   \* answers[c]: the requests answered, by number
  seen,      \* seen[c]: how many of the answers c has read
  over       \* over[c]: the connection has ended

vars == <<careful, asked, answers, seen, over>>

Init ==
  /\ careful \subseteq Clients
  /\ asked = [c \in Clients |-> 0]
  /\ answers = [c \in Clients |-> <<>>]
  /\ seen = [c \in Clients |-> 0]
  /\ over = [c \in Clients |-> FALSE]

Ask(c) ==
  /\ asked' = [asked EXCEPT ![c] = @ + 1]
  /\ UNCHANGED <<careful, answers, seen, over>>

\* The request an answer may be for, when the answers s have been given.
MayAnswer(c, s, r) ==
  /\ r <= asked[c]
  /\ IF c \in careful THEN r = Len(s) + 1
     ELSE \A k \in 1 .. Len(s) : s[k] <= r

Answer(c) ==
  /\ ~over[c]
  /\ \E r \in 0 .. asked[c] :
       /\ MayAnswer(c, answers[c], r)
       /\ answers' = [answers EXCEPT ![c] = Append(@, r)]
  /\ UNCHANGED <<careful, asked, seen, over>>

See(c) ==
  /\ \E n \in (seen[c] + 1) .. Len(answers[c]) : seen' = [seen EXCEPT ![c] = n]
  /\ UNCHANGED <<careful, asked, answers, over>>

\* The connection ends, or what was under way when it ended is lost.
Lose(c) ==
  /\ over' = [over EXCEPT ![c] = TRUE]
  /\ \E n \in seen[c] .. Len(answers[c]) :
       answers' = [answers EXCEPT ![c] = SubSeq(@, 1, n)]
  /\ UNCHANGED <<careful, asked, seen>>

Next == \E c \in Clients : Ask(c) \/ Answer(c) \/ See(c) \/ Lose(c)

Spec == Init /\ [][Next]_vars

=============================================================================
