-------------------------------- MODULE MCFs --------------------------------
(***************************************************************************)
(* An instance of Fs with two names that are anagrams of each other, and   *)
(* paths by letter (J is A again, K is B), by name and by both.            *)
(***************************************************************************)
EXTENDS Fs

AB == <<1, 2>>
BA == <<2, 1>>
TwoNames == {AB, BA}
P(letters, names) == [letters |-> letters, names |-> names]
SomePaths == {P(<< >>, << >>), P(<<10>>, << >>), P(<<1, 11>>, << >>), P(<<2>>, <<AB>>),
              P(<< >>, <<AB>>), P(<< >>, <<BA, AB>>)}
SomeKinds == {{"write"}, {"request_node"}, {"open", "close", "pass"}}
=============================================================================
