--------------------------- MODULE MCConnections ----------------------------
(***************************************************************************)
(* Two openers with two grants, the same address from inside and outside,  *)
(* and two node objects.  The openers are interchangeable.                 *)
(***************************************************************************)
EXTENDS Connections, TLC
CONSTANTS o1, o2
Symmetry == Permutations(Opener)
=============================================================================
