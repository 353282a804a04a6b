----------------------------- MODULE Refinement -----------------------------
(***************************************************************************)
(* The event loop implements the ordered service: the refinement mapping   *)
(* from the state of Server to that of OrderedService.                     *)
(***************************************************************************)
EXTENDS ServerProperties, FiniteSets

\* Where the final responses in stream s end.
Ends(s) == {j \in 1 .. Len(s) : s[j].eom}

\* The place of j among the numbers in a set.
Rank(E, j) == Cardinality({m \in E : m <= j})

\* The numbers of the requests whose final response ends in stream s.
Finals(s) ==
  LET E == Ends(s)
  IN  [k \in 1 .. Cardinality(E) |-> s[CHOOSE j \in E : Rank(E, j) = k].r]

\* What the service is to client c: the answers it has been given, how many
\* of them it has seen, and whether its connection has ended.
Given(c) == Finals(Stream(c))

Seen(c) == Len(Finals(got[c]))

Over(c) == fd[c] = "closed" \/ peer[c] = "rst"

Service == INSTANCE OrderedService WITH
  careful <- {c \in Clients : Faultless(c)},
  asked   <- [c \in Clients |-> Asked(c)],
  answers <- [c \in Clients |-> Given(c)],
  seen    <- [c \in Clients |-> Seen(c)],
  over    <- [c \in Clients |-> Over(c)]

(***************************************************************************)
(* Every step of the loop, the kernel and the clients is a step of the     *)
(* ordered service or none at all: whatever pipelining, partial reads and  *)
(* sends, 100 Continues and departures do, a connection is answered in     *)
(* order, once per request, never before the request was put, never after  *)
(* its end; and nothing committed to is lost while it lasts.               *)
(***************************************************************************)
ImplementsService == Service!Spec

=============================================================================
