--------------------------- MODULE MCAutoStandby ----------------------------
(* An instance of AutoStandby for TLC. *)
EXTENDS AutoStandby, TLC

CONSTANTS d1, d2
TwoDisks == {d1, d2}
Symmetry == Permutations(TwoDisks)
=============================================================================
