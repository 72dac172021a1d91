-------------------------- MODULE ActivityPromise --------------------------
(***************************************************************************)
(* What the activity dock promises of every backend interaction it tracks, *)
(* whatever the order in which answers come: a row appears once, says how  *)
(* its work ended only when the work has ended, and so, and never goes     *)
(* back.  Activity implements it.                                          *)
(***************************************************************************)

CONSTANT Tracked

VARIABLES
    ended,  \* how the work of each row ended: "open", "success" or "error"
    says    \* "none", "running", "success", "error" or "gone"

\* A row that is removed stays removed, whether its work has ended or not.
Moves(i) ==
    /\ \/ ended'[i] = ended[i]
       \/ ended[i] = "open" /\ ended'[i] \in {"success", "error"}
    /\ \/ says'[i] = says[i]
       \/ says[i] = "none" /\ says'[i] = "running"
       \/ says[i] = "running" /\ ended'[i] # "open" /\ says'[i] = ended'[i]
       \/ says[i] # "none" /\ says'[i] = "gone"

PromiseInit ==
    /\ ended \in [Tracked -> {"open", "success", "error"}]
    /\ says = [i \in Tracked |-> "none"]

PromiseSpec == PromiseInit /\ [][\A i \in Tracked : Moves(i)]_<<ended, says>>

=============================================================================
