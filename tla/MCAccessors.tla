----------------------------- MODULE MCAccessors -----------------------------
(***************************************************************************)
(* Values for the constants of Accessors.  97 is "a", 98 "b", 122 "z".     *)
(***************************************************************************)
EXTENDS Accessors

Signs == <<Plus, Percent, Amp, Semi, Equals, Blank, Quote, Backslash, 10, 31, 110, 200>>

Pair(k, v) == [key |-> k, val |-> v]

\* Every sign in a value and in a key, a key that is sent twice, a value that is
\* too long, and nothing.
MCPairLists ==
  {<<>>,
   <<Pair(<<97>>, Signs), Pair(<<98>>, <<97>>)>>,
   <<Pair(<<98>>, <<>>), Pair(<<Equals>>, <<97, Plus>>), Pair(<<97>>, <<Percent>>)>>,
   <<Pair(<<98>>, <<97>>), Pair(<<97>>, <<98>>), Pair(<<97>>, <<97>>)>>,
   <<Pair(<<97>>, Signs \o <<Equals>>)>>}

\* "b=aa&a=b%zb", "a=%", "%zz;;a ", "a;b=a", "b=%00%zb&a"
MCRawTexts ==
  {<<98, Equals, 97, 97, Amp, 97, Equals, 98, Percent, 122, 98>>,
   <<97, Equals, Percent>>,
   <<Percent, 122, 122, Semi, Semi, 97, Blank>>,
   <<97, Semi, 98, Equals, 97>>,
   <<98, Equals, Percent, 48, 48, Percent, 122, 98, Amp, 97>>}

MCSegments ==
  {<<97>>, <<Plus, Amp, Semi, Equals, Blank>>, <<97, Percent>>, <<Percent, 97, 97>>,
   <<Percent, 122, 97>>}

MCKeys == {<<97>>, <<98>>, <<Equals>>}

MCGarbage == {<<>>, <<97>>}

=============================================================================
