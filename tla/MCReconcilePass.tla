--------------------------- MODULE MCReconcilePass ---------------------------
(* Small instances of ReconcilePass. *)
EXTENDS ReconcilePass, TLC

\* Rows, and passes, are interchangeable.
Symmetry == Permutations(Rows) \cup Permutations(Passes)
=============================================================================
