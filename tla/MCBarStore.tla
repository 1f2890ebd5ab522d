----------------------------- MODULE MCBarStore -----------------------------
(* The instance of BarStore for TLC.  Symmetry would be unsound here: the   *)
(* run checks liveness.                                                     *)
EXTENDS BarStore
=============================================================================
