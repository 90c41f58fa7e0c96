---------------------------- MODULE MCCorrelation ----------------------------
(* Small instances of Correlation. *)
EXTENDS Correlation, TLC

Symmetry == Permutations(Requests) \cup Permutations(Processings)
=============================================================================
