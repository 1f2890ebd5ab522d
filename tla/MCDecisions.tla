----------------------------- MODULE MCDecisions -----------------------------
(* Instances of Decisions for TLC. *)
EXTENDS Decisions, TLC

MCWeightChoices == {[flag |-> 0 - 3, cash |-> 0], [flag |-> 2, cash |-> 1]}
Symmetry == Permutations(Trainers) \union Permutations(Symbols)
=============================================================================
