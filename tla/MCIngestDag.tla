---------------------------- MODULE MCIngestDag ----------------------------
(***************************************************************************)
(* IngestDag for TLC.                                                      *)
(***************************************************************************)
EXTENDS IngestDag, TLC

\* Any two of what may go wrong, in one behaviour.
TwoTroubles ==
    budget.toggles + budget.crashes + budget.failures + budget.degraded + budget.deletes
        >= MaxToggles + MaxCrashes + MaxFailures + MaxDegraded + MaxDeletes - 2

=============================================================================
