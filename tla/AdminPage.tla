----------------------------- MODULE AdminPage -----------------------------
(***************************************************************************)
(* The ingestion page of comfyhelper (app/admin/page.tsx): one ingest or a *)
(* list of them, the maintenance actions, the search for entries whose     *)
(* file is gone and their removal, and the list of jobs.                   *)
(*                                                                         *)
(* Nothing here is cancelled when something newer starts: a scan and a     *)
(* removal, two polls or two ingests may overlap and end in any order.     *)
(***************************************************************************)
EXTENDS Integers, Sequences, FiniteSets

CONSTANTS
    Entries,            \* images of the catalog
    ScanLimit,          \* MISSING_SCAN_LIMIT: entries a scan reports
    Folders,            \* what may be typed: a sequence of paths, one a line
    Maintenance,        \* keys of MAINTENANCE_ACTIONS
    AdminJobs,          \* jobs of the backend
    MaxAdminClicks,     \* bound: what the user does
    MaxAdminFaults      \* bound: requests that fail, files that vanish or return

ASSUME AdminAssumption == \A f \in Folders : f \in Seq({f[i] : i \in DOMAIN f})

VARIABLES
    entries, lost,      \* the catalog, and the images whose file is gone
    scans,              \* scans in flight
    scanState,          \* missingState
    missing,            \* the list of the last scan
    selectedMissing,
    cleanups,           \* batch deletes in flight
    ingests,            \* dispatch loops under way
    ingestBusy, notice, problem,
    ingested,           \* folders a job was created for (a history)
    runs,               \* status of each maintenance action
    jobState, jobList, listCalls, \* the backend's jobs, the list, polls of it
    expanded, jobDetail, detailCall,
    adminClicks, adminFaults

cleanVars == <<entries, lost, scans, scanState, missing, selectedMissing, cleanups>>
ingestVars == <<ingests, ingestBusy, notice, problem, ingested>>
jobVars == <<jobState, jobList, listCalls, expanded, jobDetail, detailCall>>
adminVars == <<cleanVars, ingestVars, runs, jobVars, adminClicks, adminFaults>>

AdminClick == adminClicks < MaxAdminClicks /\ adminClicks' = adminClicks + 1
AdminFault == adminFaults < MaxAdminFaults /\ adminFaults' = adminFaults + 1
NoBound == UNCHANGED <<adminClicks, adminFaults>>

-----------------------------------------------------------------------------
(* Files vanish and come back (external).                                  *)

FileChanges ==
    /\ AdminFault /\ UNCHANGED adminClicks
    /\ \E e \in Entries : lost' = IF e \in lost THEN lost \ {e} ELSE lost \cup {e}
    /\ UNCHANGED <<entries, scans, scanState, missing, selectedMissing, cleanups, ingestVars,
                   runs, jobVars>>

-----------------------------------------------------------------------------
(* Missing files.                                                          *)

\* The list of the last scan stays on screen while a new one runs.
ScanMissingFiles ==
    /\ AdminClick /\ scanState # "scanning"
    /\ scanState' = "scanning" /\ selectedMissing' = {}
    /\ scans' = scans \cup {[answer |-> {}]}
    /\ UNCHANGED <<entries, lost, missing, cleanups, ingestVars, runs, jobVars, adminFaults>>

ScanServed ==
    /\ \E s \in scans, found \in SUBSET (entries \cap lost) :
         /\ s.answer = {}
         /\ Cardinality(found) <= ScanLimit
         /\ Cardinality(found) = ScanLimit \/ found = entries \cap lost
         /\ scans' = {[answer |-> {[found |-> found, checked |-> entries]}]}
    /\ UNCHANGED <<entries, lost, scanState, missing, selectedMissing, cleanups, ingestVars,
                   runs, jobVars>>
    /\ NoBound

Preselected(r) == r.found

ScanLands ==
    /\ \E s \in scans : \E r \in s.answer :
         missing' = r.found /\ selectedMissing' = Preselected(r)
    /\ scans' = {} /\ scanState' = "done"
    /\ UNCHANGED <<entries, lost, cleanups, ingestVars, runs, jobVars>>
    /\ NoBound

ScanFails ==
    /\ AdminFault /\ UNCHANGED adminClicks
    /\ scans # {} /\ scans' = {} /\ scanState' = "error"
    /\ UNCHANGED <<entries, lost, missing, selectedMissing, cleanups, ingestVars, runs, jobVars>>

ToggleMissing ==
    /\ AdminClick
    /\ \E e \in missing : selectedMissing' =
         IF e \in selectedMissing THEN selectedMissing \ {e} ELSE selectedMissing \cup {e}
    /\ UNCHANGED <<entries, lost, scans, scanState, missing, cleanups, ingestVars, runs,
                   jobVars, adminFaults>>

\* Whether all are selected is read from the number of them.
ToggleAllMissing ==
    /\ AdminClick /\ missing # {}
    /\ selectedMissing' =
         IF Cardinality(selectedMissing) = Cardinality(missing) THEN {} ELSE missing
    /\ UNCHANGED <<entries, lost, scans, scanState, missing, cleanups, ingestVars, runs,
                   jobVars, adminFaults>>

DeleteSelectedMissing ==
    /\ AdminClick /\ cleanups = {} /\ selectedMissing # {}
    /\ cleanups' = {[ids |-> selectedMissing, taken |-> FALSE, deleted |-> {}]}
    /\ UNCHANGED <<entries, lost, scans, scanState, missing, selectedMissing, ingestVars,
                   runs, jobVars, adminFaults>>

\* The gateway un-indexes what it can; an entry that is not there counts.
CleanupTaken ==
    /\ \E c \in cleanups :
         /\ ~c.taken
         /\ \E kept \in SUBSET (c.ids \cap entries) :
              /\ IF kept = {} THEN NoBound ELSE AdminFault /\ UNCHANGED adminClicks
              /\ entries' = entries \ (c.ids \ kept)
              /\ cleanups' = {[c EXCEPT !.taken = TRUE, !.deleted = c.ids \ kept]}
    /\ UNCHANGED <<lost, scans, scanState, missing, selectedMissing, ingestVars, runs, jobVars>>

\* What went leaves the list; the selection is dropped, a newer one included.
\* Mutant: the selection is kept for the entries that failed.
SelectionKept == selectedMissing
SelectionAfterCleanup == {}

CleanupEnds ==
    /\ \E c \in cleanups : c.taken /\ missing' = missing \ c.deleted
    /\ cleanups' = {}
    /\ selectedMissing' = SelectionAfterCleanup
    /\ UNCHANGED <<entries, lost, scans, scanState, ingestVars, runs, jobVars>>
    /\ NoBound

CleanupFails ==
    /\ AdminFault /\ UNCHANGED adminClicks
    /\ cleanups # {} /\ cleanups' = {}
    /\ UNCHANGED <<entries, lost, scans, scanState, missing, selectedMissing, ingestVars,
                   runs, jobVars>>

-----------------------------------------------------------------------------
(* Ingests.  Enter in the box starts one whether another is under way or   *)
(* not; the button does not.                                               *)

IngestPress ==
    /\ AdminClick
    /\ \E f \in Folders :
         IF f = <<>>
         THEN problem' = TRUE /\ UNCHANGED <<ingests, ingestBusy, notice>>
         ELSE /\ ~ingestBusy \/ Len(f) = 1
              /\ ingests' = ingests \cup {[at |-> adminClicks, asked |-> f, todo |-> f,
                                           started |-> {}, failed |-> {}]}
              /\ ingestBusy' = TRUE /\ notice' = FALSE /\ problem' = FALSE
    /\ UNCHANGED <<cleanVars, ingested, runs, jobVars, adminFaults>>

NoMore(l) == [l EXCEPT !.todo = <<>>]
\* A failed folder does not stop the others.  Mutant: it does.
AfterFailureStop(l) == NoMore([l EXCEPT !.failed = @ \cup {Head(l.todo)}])
AfterFailure(l) == [l EXCEPT !.failed = @ \cup {Head(l.todo)}, !.todo = Tail(@)]

\* dispatchIngest: one at a time within a loop.
IngestDispatched ==
    /\ \E l \in ingests, ok \in BOOLEAN :
         /\ l.todo # <<>>
         /\ IF ok THEN NoBound ELSE AdminFault /\ UNCHANGED adminClicks
         /\ ingested' = IF ok THEN ingested \cup {Head(l.todo)} ELSE ingested
         /\ ingests' = (ingests \ {l}) \cup
              {IF ok THEN [l EXCEPT !.started = @ \cup {Head(l.todo)}, !.todo = Tail(@)]
               ELSE AfterFailure(l)}
    /\ UNCHANGED <<cleanVars, ingestBusy, notice, problem, runs, jobVars>>

IngestEnds ==
    /\ \E l \in ingests :
         /\ l.todo = <<>>
         /\ ingests' = ingests \ {l}
         /\ notice' = (notice \/ l.started # {})
         /\ problem' = (problem \/ l.failed # {})
    /\ ingestBusy' = FALSE
    /\ UNCHANGED <<cleanVars, ingested, runs, jobVars>>
    /\ NoBound

-----------------------------------------------------------------------------
(* Maintenance.                                                            *)

RunMaintenance ==
    /\ AdminClick
    /\ \E k \in Maintenance :
         runs[k] # "running" /\ runs' = [runs EXCEPT ![k] = "running"]
    /\ problem' = FALSE
    /\ UNCHANGED <<cleanVars, ingests, ingestBusy, notice, ingested, jobVars, adminFaults>>

MaintenanceAnswered ==
    /\ \E k \in Maintenance, ok \in BOOLEAN :
         /\ runs[k] = "running"
         /\ IF ok THEN NoBound ELSE AdminFault /\ UNCHANGED adminClicks
         /\ runs' = [runs EXCEPT ![k] = IF ok THEN "done" ELSE "error"]
    /\ UNCHANGED <<cleanVars, ingestVars, jobVars>>

-----------------------------------------------------------------------------
(* The list of jobs, polled every three seconds.                           *)

PollJobs ==
    /\ Cardinality(listCalls) < 2
    /\ listCalls' = listCalls \cup {jobState}
    /\ UNCHANGED <<cleanVars, ingestVars, runs, jobState, jobList, expanded, jobDetail, detailCall>>
    /\ NoBound

\* An answer that is no list, or no answer, leaves the list as it is.  The
\* detail of the open row is asked for again, and an older request of it
\* forgotten.
JobsArrive ==
    /\ \E l \in listCalls :
         /\ listCalls' = listCalls \ {l}
         /\ \/ jobList' = l /\ detailCall' = expanded
            \/ UNCHANGED <<jobList, detailCall>>
    /\ UNCHANGED <<cleanVars, ingestVars, runs, jobState, expanded, jobDetail>>
    /\ NoBound

ExpandJob ==
    /\ AdminClick
    /\ \E j \in DOMAIN jobList :
         expanded' = IF expanded = {j} THEN {} ELSE {j}
    /\ detailCall' = expanded'
    /\ jobDetail' = IF expanded' = {} THEN {} ELSE jobDetail
    /\ UNCHANGED <<cleanVars, ingestVars, runs, jobState, jobList, listCalls, adminFaults>>

JobDetailArrives ==
    /\ detailCall # {} /\ detailCall' = {}
    /\ jobDetail' \in {detailCall, jobDetail}
    /\ UNCHANGED <<cleanVars, ingestVars, runs, jobState, jobList, listCalls, expanded>>
    /\ NoBound

CancelJob ==
    /\ AdminClick
    /\ \E j \in DOMAIN jobList :
         /\ jobList[j] = "running"
         /\ jobState' = IF jobState[j] = "running" THEN [jobState EXCEPT ![j] = "cancelled"]
                        ELSE jobState
    /\ UNCHANGED <<cleanVars, ingestVars, runs, jobList, listCalls, expanded, jobDetail,
                   detailCall, adminFaults>>

-----------------------------------------------------------------------------
AdminInit ==
    /\ entries = Entries /\ lost \in SUBSET Entries
    /\ scans = {} /\ scanState = "idle" /\ missing = {} /\ selectedMissing = {} /\ cleanups = {}
    /\ ingests = {} /\ ingestBusy = FALSE /\ notice = FALSE /\ problem = FALSE /\ ingested = {}
    /\ runs = [k \in Maintenance |-> "idle"]
    /\ jobState = [j \in AdminJobs |-> "running"] /\ jobList = <<>> /\ listCalls = {}
    /\ expanded = {} /\ jobDetail = {} /\ detailCall = {}
    /\ adminClicks = 0 /\ adminFaults = 0

AdminNext ==
    \/ FileChanges \/ ScanMissingFiles \/ ScanServed \/ ScanLands \/ ScanFails
    \/ ToggleMissing \/ ToggleAllMissing \/ DeleteSelectedMissing
    \/ CleanupTaken \/ CleanupEnds \/ CleanupFails
    \/ IngestPress \/ IngestDispatched \/ IngestEnds
    \/ RunMaintenance \/ MaintenanceAnswered
    \/ PollJobs \/ JobsArrive \/ ExpandJob \/ JobDetailArrives \/ CancelJob

AdminSpec == AdminInit /\ [][AdminNext]_adminVars

-----------------------------------------------------------------------------
\* What is selected for removal is on the list that is shown, however scans,
\* removals and their failures overlap.
SelectedIsListed == selectedMissing \subseteq missing

\* A folder of an ingest is dispatched or reported, the ones after a failure
\* included (page.tsx:268-291).
EveryFolderIsTried ==
    \A l \in ingests :
      {l.asked[i] : i \in DOMAIN l.asked} =
        l.started \cup l.failed \cup {l.todo[i] : i \in DOMAIN l.todo}

=============================================================================
