---------------------------- MODULE MCStateFile -----------------------------
(* StateFile with two fields; the bounds are in MCStateFile_*.cfg.         *)
EXTENDS StateFile
=============================================================================
