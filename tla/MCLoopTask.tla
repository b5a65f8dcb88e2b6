----------------------------- MODULE MCLoopTask -----------------------------
(* LoopTask for TLC: the constants are given in the .cfg files. *)
EXTENDS LoopTask
=============================================================================
