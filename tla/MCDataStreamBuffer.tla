------------------------- MODULE MCDataStreamBuffer -------------------------
(* Instances of DataStreamBuffer for TLC. *)
EXTENDS DataStreamBuffer, TLC

Symmetry == Permutations(Symbols)
=============================================================================
