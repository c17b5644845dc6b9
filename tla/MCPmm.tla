------------------------------- MODULE MCPmm -------------------------------
(***************************************************************************)
(* Small instances of Pmm.  A descriptor is one byte and the table starts  *)
(* with one descriptor per eight bytes, so a region of 18 bytes has a      *)
(* table of three, one of them uncertain, and the fourth block makes the   *)
(* table grow.                                                             *)
(***************************************************************************)
EXTENDS Pmm
CONSTANTS c1, c2, c3

OneRange  == {[base |-> 32, size |-> 18]}
TwoRanges == {[base |-> 32, size |-> 16], [base |-> 48, size |-> 16]}
Symmetry  == Permutations(Clients)
=============================================================================
