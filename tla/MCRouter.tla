------------------------------ MODULE MCRouter ------------------------------
(* Values for TLC: small patterns, tables of two routes, short paths.      *)
EXTENDS RouterProperties

Word(w) == [kind |-> "word", word |-> w]
Param == [kind |-> "param", word |-> "a"]
Rest == [kind |-> "rest", word |-> "a"]

AllWords == {"a", "b", "%"}
Undecodable == {"%"}

Patterns ==
  {<<Word("a")>>, <<Param>>, <<Rest>>, <<Word("a"), Param>>, <<Param, Word("b")>>,
   <<Param, Param>>, <<Param, Rest>>, <<Rest, Word("b")>>, <<Param, Param, Param>>}

SomeRoutes == [pattern : Patterns, method : {"GET", "POST"}]

TwoRoutes == {<<s, t>> : s \in SomeRoutes, t \in SomeRoutes}
OneRoute == {<<[pattern |-> <<Word("a")>>, method |-> "GET"]>>}

ShortPaths ==
  UNION {[1 .. n -> AllWords] : n \in 0 .. 2}
    \cup {<<"a", "b", "a">>, <<"a", "%", "b">>, <<"b", "a", "%">>}
OnePath == {<<"a">>}

=============================================================================
