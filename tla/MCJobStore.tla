----------------------------- MODULE MCJobStore -----------------------------
(***************************************************************************)
(* JobStore for TLC.  Jobs are interchangeable, so a run without a         *)
(* liveness property may use the symmetry.                                 *)
(***************************************************************************)
EXTENDS JobStore, TLC

Symmetry == Permutations(Jobs)

=============================================================================
