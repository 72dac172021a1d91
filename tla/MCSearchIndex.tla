--------------------------- MODULE MCSearchIndex ----------------------------
(***************************************************************************)
(* SearchIndex for TLC.  Images, and the threads of one kind, are          *)
(* interchangeable: a run without a liveness property may use the symmetry.*)
(***************************************************************************)
EXTENDS SearchIndex, TLC

Symmetry == Permutations(Images) \cup Permutations(Rebuilders) \cup Permutations(Deleters)

=============================================================================
