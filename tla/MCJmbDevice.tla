---------------------------- MODULE MCJmbDevice -----------------------------
(***************************************************************************)
(* A small instance of JmbDevice: smartd and a run of smartctl, with and   *)
(* without ",force".                                                       *)
(***************************************************************************)
EXTENDS JmbDevice, TLC

CONSTANTS p1, p2

MCProcs == {p1, p2}
Symmetry == Permutations(MCProcs)
=============================================================================
