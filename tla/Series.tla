-------------------------------- MODULE Series --------------------------------
(***************************************************************************)
(* Sums of sequences of numbers and of what functions yield, and sets of   *)
(* numbers and parts of sequences in their order: what is left to the      *)
(* database (ORDER BY) and to the interpreter (a filtered dict, a sum).    *)
(***************************************************************************)
EXTENDS Integers, Sequences, FiniteSets, SequencesExt

(* The sum of a sequence of integers.                                       *)
SumOf(w) == FoldLeft(LAMBDA sum, x : sum + x, 0, w)

(* The sum of what a function yields on its finite domain.                  *)
TotalOf(f) == MapThenSumSet(LAMBDA x : f[x], DOMAIN f)

(* The members of a finite set of integers from the least to the greatest:  *)
(* the i-th is the one that i - 1 others are below.                         *)
Rank(K, k) == Cardinality({j \in K : j < k})
Ascending(K) == [i \in 1 .. Cardinality(K) |-> CHOOSE k \in K : Rank(K, k) = i - 1]

(* The elements of a sequence at some of its positions, in their order.     *)
Picked(q, K) == [i \in 1 .. Cardinality(K) |-> q[Ascending(K)[i]]]
=============================================================================
