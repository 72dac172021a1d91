--------------------------- MODULE MCTaskDelivery ---------------------------
(* Small instances of TaskDelivery for TLC. *)
EXTENDS TaskDelivery, TLC

\* Tasks and consumers are interchangeable; used only by runs without liveness.
Symmetry == Permutations(Tasks) \cup Permutations(Consumers)
=============================================================================
