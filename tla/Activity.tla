------------------------------ MODULE Activity ------------------------------
(***************************************************************************)
(* The activity store of comfyhelper (lib/store/activity.tsx and           *)
(* activity-jobs.ts) and the dock that shows it (deedlit.dev.ui,           *)
(* ActivityDock.tsx): the rows of one-shot requests and of backend jobs,   *)
(* the poll of the job list that drives the latter, their pruning and      *)
(* dismissal.                                                              *)
(*                                                                         *)
(* A poll starts at once when a job row becomes unsettled and every two    *)
(* seconds from then on, whether the last one was answered or not.  The    *)
(* answers of a poll that was started before polling stopped are dropped.  *)
(***************************************************************************)
EXTENDS Integers, Sequences, FiniteSets


CONSTANTS
    BackendJobs,        \* jobs the backend may run
    JobEnds,            \* the statuses they may end with
    LastRow,            \* bound: rows made, 1..LastRow
    MAX_ROWS,           \* 40 in the code
    MaxPollsInFlight,   \* bound: polls under way at once
    MaxActivityFaults   \* bound: polls that fail and jobs that are forgotten

ASSUME ActivityAssumption ==
    /\ 0 \notin BackendJobs
    /\ JobEnds \subseteq {"completed", "failed", "cancelled", "interrupted"}
    /\ LastRow \in Nat /\ MAX_ROWS \in Nat \ {0}

VARIABLES
    jobs,       \* the backend's jobs: their status, and whether it lists them
    work,       \* of each row made: its job (0 is none) and how it ended
    rows,       \* activities: the rows of the dock; a newer one has a higher id
    polls,      \* polls in flight and the list each of them read
    activityFaults

activityVars == <<jobs, work, rows, polls, activityFaults>>

\* A job that is queued is to the store like one that runs.
EndStatuses == {"completed", "failed", "cancelled", "interrupted"}
ActivityFault == activityFaults < MaxActivityFaults /\ activityFaults' = activityFaults + 1

\* Mutant: the set as it was before jobs could be interrupted.
TerminalWithoutRestart == {"completed", "failed", "cancelled"}
TERMINAL_JOB_STATUSES == {"completed", "failed", "cancelled", "interrupted"}

IsTerminal(status) == status \in {"success", "error"}
HasActiveJob(rs) == \E r \in rs : r.job # 0 /\ ~IsTerminal(r.status)

-----------------------------------------------------------------------------
(* The rows, and what follows a change of them: polling starts or stops.   *)

\* The newest first, and no more than MAX_ROWS.
Push(r) == LET all == rows \cup {r}
           IN {x \in all : Cardinality({y \in all : y.id >= x.id}) <= MAX_ROWS}

NewPoll == [no |-> 1, answer |-> {}]
Become(rs, ps) ==
    /\ rows' = rs
    /\ polls' = IF ~HasActiveJob(rs) THEN {}
                ELSE IF HasActiveJob(rows) THEN ps ELSE {NewPoll}

Unchanged == UNCHANGED <<jobs, activityFaults>>

-----------------------------------------------------------------------------
(* One-shot requests: track and fetchJson.                                 *)

Track ==
    /\ Len(work) < LastRow
    /\ work' = Append(work, [job |-> 0, end |-> "open"])
    /\ Become(Push([id |-> Len(work'), job |-> 0, status |-> "running"]), polls)
    /\ Unchanged

\* patch: a row that is gone is not brought back.
Patched(id, status) ==
    {IF r.id = id THEN [r EXCEPT !.status = status] ELSE r : r \in rows}

\* The request settles; an answer that is not 2xx is thrown like a lost one.
WorkEnds ==
    /\ \E id \in DOMAIN work, end \in {"success", "error"} :
         /\ work[id].job = 0 /\ work[id].end = "open"
         /\ work' = [work EXCEPT ![id].end = end]
         /\ Become(Patched(id, end), polls)
    /\ Unchanged

-----------------------------------------------------------------------------
(* Jobs.                                                                   *)

\* Nothing is tracked when the answer had no job id.
TrackJob ==
    /\ Len(work) < LastRow
    /\ \E j \in BackendJobs :
         /\ \A id \in DOMAIN work : work[id].job # j
         /\ work' = Append(work, [job |-> j, end |-> "open"])
         /\ Become(Push([id |-> Len(work'), job |-> j, status |-> "running"]), polls)
    /\ Unchanged

\* The backend ends its jobs; a restart interrupts them.
JobMoves ==
    /\ \E j \in BackendJobs, s \in JobEnds :
         /\ jobs[j].status = "running"
         /\ jobs' = [jobs EXCEPT ![j].status = s]
    /\ UNCHANGED <<work, rows, polls, activityFaults>>

\* The list is bounded: a job that ended may drop out of it.
JobForgotten ==
    /\ ActivityFault
    /\ \E j \in BackendJobs :
         /\ jobs[j].listed /\ jobs[j].status \in EndStatuses
         /\ jobs' = [jobs EXCEPT ![j].listed = FALSE]
    /\ UNCHANGED <<work, rows, polls>>

\* normalizeJob: a status it does not know is "unknown", which ends nothing.
Listing == [j \in {k \in BackendJobs : jobs[k].listed} |-> jobs[j].status]

PollTick ==
    /\ HasActiveJob(rows)
    /\ Cardinality(polls) < MaxPollsInFlight
    /\ LET n == CHOOSE k \in 1..MaxPollsInFlight : \A p \in polls : p.no # k
       IN  polls' = polls \cup {[no |-> n, answer |-> {}]}
    /\ UNCHANGED <<jobs, work, rows, activityFaults>>

PollServed ==
    /\ \E p \in polls :
         /\ p.answer = {}
         /\ polls' = (polls \ {p}) \cup {[p EXCEPT !.answer = {Listing}]}
    /\ UNCHANGED <<jobs, work, rows, activityFaults>>

\* applyJobToActivity.  Mutant: a settled row is driven on.
AppliedAlways(r, list) ==
    IF r.job \notin DOMAIN list THEN r
    ELSE [r EXCEPT !.status = IF list[r.job] \notin TERMINAL_JOB_STATUSES THEN "running"
                              ELSE IF list[r.job] = "completed" THEN "success" ELSE "error"]
Applied(r, list) ==
    IF r.job \notin DOMAIN list \/ IsTerminal(r.status) THEN r
    ELSE [r EXCEPT !.status = IF list[r.job] \notin TERMINAL_JOB_STATUSES THEN "running"
                              ELSE IF list[r.job] = "completed" THEN "success" ELSE "error"]

ApplyJobs(list) == {Applied(r, list) : r \in rows}

PollArrives ==
    /\ \E p \in polls :
         \E list \in p.answer : Become(ApplyJobs(list), polls \ {p})
    /\ UNCHANGED work
    /\ Unchanged

\* Transient: the next tick tries again.
PollFails ==
    /\ ActivityFault
    /\ \E p \in polls : polls' = polls \ {p}
    /\ UNCHANGED <<jobs, work, rows>>

-----------------------------------------------------------------------------
(* Rows leave: after a while, or by the buttons of the dock, which the user *)
(* may open at any time while there is a row.                              *)

\* Four seconds after it succeeded.
PruneFires ==
    /\ \E r \in rows : r.status = "success" /\ Become(rows \ {r}, polls)
    /\ UNCHANGED work
    /\ Unchanged

DockShown == rows # {}
Dismiss ==
    /\ DockShown
    /\ \E r \in rows : Become(rows \ {r}, polls)
    /\ UNCHANGED work
    /\ Unchanged

ClearFinished ==
    /\ DockShown
    /\ \E r \in rows : IsTerminal(r.status)
    /\ Become({r \in rows : ~IsTerminal(r.status)}, polls)
    /\ UNCHANGED work
    /\ Unchanged

-----------------------------------------------------------------------------
ActivityInit ==
    /\ jobs = [j \in BackendJobs |-> [status |-> "running", listed |-> TRUE]]
    /\ work = <<>> /\ rows = {} /\ polls = {}
    /\ activityFaults = 0

ActivityNext ==
    \/ Track \/ WorkEnds \/ TrackJob \/ JobMoves \/ JobForgotten
    \/ PollTick \/ PollServed \/ PollArrives \/ PollFails
    \/ PruneFires \/ Dismiss \/ ClearFinished

\* The interval fires and requests are answered; jobs and people need not move.
ActivitySpec ==
    /\ ActivityInit /\ [][ActivityNext]_activityVars
    /\ WF_activityVars(PollTick) /\ SF_activityVars(PollServed)
    /\ SF_activityVars(PollArrives)

-----------------------------------------------------------------------------
\* What a row says of its work, for the abstract specification.
JobOutcome(s) == CASE s = "completed" -> "success" [] s \notin EndStatuses -> "open"
                   [] OTHER -> "error"
RowEnded(id) ==
    IF id \notin DOMAIN work THEN "open"
    ELSE IF work[id].job = 0 THEN work[id].end ELSE JobOutcome(jobs[work[id].job].status)
RowSays(id) ==
    IF id \notin DOMAIN work THEN "none"
    ELSE IF \E r \in rows : r.id = id
         THEN (CHOOSE r \in rows : r.id = id).status ELSE "gone"

Promise == INSTANCE ActivityPromise WITH
    Tracked <- 1..LastRow,
    ended <- [i \in 1..LastRow |-> RowEnded(i)],
    says <- [i \in 1..LastRow |-> RowSays(i)]

\* The store implements the promise: polls that overtake each other, a
\* dismissal and the cap on the rows included.
KeepsItsPromise == Promise!PromiseSpec

\* A row whose job has ended does not spin for ever, a restart of the ingest
\* service included, as long as the backend lists the job.
RowsSettle ==
    \A j \in BackendJobs :
      (\E r \in rows : r.job = j) /\ jobs[j].status \in EndStatuses
        ~> \/ ~jobs[j].listed
           \/ \A r \in rows : r.job = j => IsTerminal(r.status)

=============================================================================
