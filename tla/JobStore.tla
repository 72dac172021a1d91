------------------------------ MODULE JobStore ------------------------------
(***************************************************************************)
(* The coarse jobs of deedlit.ingest (jobs.py): an in-memory registry with *)
(* an asyncio queue and one worker task, mirrored best-effort to the jobs  *)
(* table of the catalog (job_ledger.py), closed and read back at start-up  *)
(* (app.py, lifespan).                                                     *)
(*                                                                         *)
(* Three kinds of actors interleave.  The worker task and the schedulers   *)
(* share the event loop: one runs while the other awaits.  The endpoints   *)
(* that create and cancel a job are synchronous and run in threads, so     *)
(* their steps fall between any two steps of the loop.  The writes of job  *)
(* snapshots are requests in flight that the catalog takes in any order.   *)
(*                                                                         *)
(* A "folder" job (ingest, rescan-files, rebuild-search, rebuild-graph)    *)
(* publishes its items concurrently and looks at the cancel flag when they *)
(* end; a "scan" is a folder job that the folder-scan scheduler made for   *)
(* the one configured folder.  A "steps" job (reconcile, label-backfill    *)
(* and the jobs of one step) looks before each item, and completes         *)
(* whatever the flag says after the last one.                              *)
(***************************************************************************)
EXTENDS Integers, Sequences, FiniteSets

CONSTANTS
    Jobs,           \* job ids
    Concurrency,    \* ingest_concurrency()
    \* Bounds of the model, in the guards of the actions they name.
    MaxItems,       \* images or files of one job (Start)
    MaxDisruptions  \* cancel requests and crashes together (CancelFlag, Crash)

ASSUME ConcurrencyAssumption == Concurrency \in Nat \ {0}
ASSUME BoundsAssumption ==
    /\ MaxItems \in Nat
    /\ MaxDisruptions \in Nat

Terminal == {"completed", "failed", "cancelled", "interrupted"}
Status == {"queued", "running"} \cup Terminal

Kind == {"folder", "scan", "steps"}

\* The endpoint thread of a job: none, or how far its POST /jobs or its cancel is.
MakerStep == {"none", "put", "persist"}
CancelStep == {"none", "check", "stamp", "persist"}

\* A snapshot on its way to the catalog.
Write == [job : Jobs, by : {"create", "cancel", "settle"}, status : Status]

\* Where the worker task is: about to look at the queue, past a look that found
\* it empty, waiting to be woken, woken, inside _run_job before its two
\* assignments, listing its items, working on them, or settling.
WorkerStep == {"look", "empty", "asleep", "woken", "enter", "start", "list", "work", "settle"}
InHand == {"enter", "start", "list", "work", "settle"}

VARIABLES
    phase,     \* the ingest service: "down", "hydrating" or "serving"
    status,    \* [Jobs -> Status \cup {"absent"}]: the registry of this process
    kind,      \* [Jobs -> Kind \cup {"none"}]: "none" is an id not used yet
    flag,      \* [Jobs -> BOOLEAN]: cancel_requested
    queue,     \* Seq(Jobs): the asyncio queue
    worker,    \* [at, job, left, inflight]: the worker task and its items
    maker,     \* [Jobs -> MakerStep]
    canceller, \* [Jobs -> CancelStep]
    writes,    \* SUBSET Write: snapshots in flight, or that failed
    row,       \* [Jobs -> Status \cup {"absent"}]: the jobs table of the catalog
    budget     \* what is left of the bounds

registry == <<status, kind, flag, queue>>
threads == <<maker, canceller>>
history == <<writes, row>>
vars == <<phase, registry, worker, threads, history, budget>>

Spend == budget > 0 /\ budget' = budget - 1

Set(j, s) == status' = [status EXCEPT ![j] = s]

Idle(step) == [at |-> step, job |-> "none", left |-> 0, inflight |-> 0]
Busy(step, j) == [at |-> step, job |-> j, left |-> 0, inflight |-> 0]
On(step, j) == worker.at = step /\ worker.job = j
At(step) == worker' = [worker EXCEPT !.at = step]
Holds(j) == worker.at \in InHand /\ worker.job = j

\* _schedule_persist: the snapshot of the status a job has at this moment.
Persist(j, by) == writes' = writes \cup {[job |-> j, by |-> by, status |-> status[j]]}

\* put_nowait: a worker that is waiting is woken.
PutNowait(j) ==
    /\ queue' = Append(queue, j)
    /\ worker' = IF worker.at = "asleep" THEN [worker EXCEPT !.at = "woken"] ELSE worker

Scans == {j \in Jobs : kind[j] = "scan"}

\* The loop runs other tasks only while the worker awaits; the finally block
\* awaits for a scan alone, to record its outcome in the folder registry.
LoopIsFree == \/ worker.at \in {"asleep", "woken", "list", "work"}
              \/ worker.at = "settle" /\ kind[worker.job] = "scan"

Live == {"queued", "running"}

Init ==
    /\ phase = "serving"
    /\ status = [j \in Jobs |-> "absent"]
    /\ kind = [j \in Jobs |-> "none"]
    /\ flag = [j \in Jobs |-> FALSE]
    /\ queue = <<>>
    /\ worker = Idle("asleep")
    /\ maker = [j \in Jobs |-> "none"]
    /\ canceller = [j \in Jobs |-> "none"]
    /\ writes = {}
    /\ row = [j \in Jobs |-> "absent"]
    /\ budget = MaxDisruptions

\* A job id is a fresh uuid.
Unused(j) == kind[j] = "none"

-----------------------------------------------------------------------------
\* Creating a job.

\* An endpoint thread registers the job, queues it and persists it.
Register(j, k) ==
    /\ phase = "serving"
    /\ Unused(j)
    /\ Set(j, "queued")
    /\ kind' = [kind EXCEPT ![j] = k]
    /\ maker' = [maker EXCEPT ![j] = "put"]
    /\ UNCHANGED <<phase, flag, queue, worker, canceller, history, budget>>

MakerPuts(j) ==
    /\ maker[j] = "put"
    /\ PutNowait(j)
    /\ maker' = [maker EXCEPT ![j] = "persist"]
    /\ UNCHANGED <<phase, status, kind, flag, canceller, history, budget>>

MakerPersists(j) ==
    /\ maker[j] = "persist"
    /\ Persist(j, "create")
    /\ maker' = [maker EXCEPT ![j] = "none"]
    /\ UNCHANGED <<phase, registry, worker, canceller, row, budget>>

\* A scan job is registered, queued and persisted without an await.
Schedule(j) ==
    /\ phase = "serving"
    /\ LoopIsFree
    /\ Unused(j)
    /\ Set(j, "queued")
    /\ kind' = [kind EXCEPT ![j] = "scan"]
    /\ PutNowait(j)
    /\ writes' = writes \cup {[job |-> j, by |-> "create", status |-> "queued"]}
    /\ UNCHANGED <<phase, flag, threads, row, budget>>

\* Mutant: the tick skips a folder only while its scan is running.
TickQueued(j) ==
    /\ \A i \in Scans : status[i] # "running"
    /\ Schedule(j)

\* run_folder_scan_tick, on the loop: a folder with a scan under way is skipped.
Tick(j) ==
    /\ \A i \in Scans : status[i] \notin Live
    /\ Schedule(j)

-----------------------------------------------------------------------------
\* request_cancel, in an endpoint thread: it sets the flag, looks whether the
\* job is still queued, and if so stamps it cancelled and persists it.  On a job
\* that has ended it only sets a flag that nothing reads any more: left out.  The
\* caller has the id from the answer to its POST.

CancelFlag(j) ==
    /\ phase = "serving"
    /\ status[j] \in Live
    /\ maker[j] = "none"
    /\ canceller[j] = "none"
    /\ Spend
    /\ flag' = [flag EXCEPT ![j] = TRUE]
    /\ canceller' = [canceller EXCEPT ![j] = "check"]
    /\ UNCHANGED <<phase, status, kind, queue, worker, maker, history>>

CancelCheck(j) ==
    /\ canceller[j] = "check"
    /\ canceller' = [canceller EXCEPT ![j] = IF status[j] = "queued" THEN "stamp" ELSE "none"]
    /\ UNCHANGED <<phase, registry, worker, maker, history, budget>>

CancelStamp(j) ==
    /\ canceller[j] = "stamp"
    /\ Set(j, "cancelled")
    /\ canceller' = [canceller EXCEPT ![j] = "persist"]
    /\ UNCHANGED <<phase, kind, flag, queue, worker, maker, history, budget>>

CancelPersist(j) ==
    /\ canceller[j] = "persist"
    /\ Persist(j, "cancel")
    /\ canceller' = [canceller EXCEPT ![j] = "none"]
    /\ UNCHANGED <<phase, registry, worker, maker, row, budget>>

-----------------------------------------------------------------------------
\* The worker task.

\* Queue.get takes the head of the queue; the worker drops a cancelled job.
Claim ==
    /\ worker.at \in {"look", "woken"}
    /\ queue # <<>>
    /\ queue' = Tail(queue)
    /\ IF status[Head(queue)] = "cancelled"
       THEN worker' = Idle("look")
       ELSE worker' = Busy("enter", Head(queue))
    /\ UNCHANGED <<phase, status, kind, flag, threads, history, budget>>

\* Queue.get finds the queue empty, and only then registers to be woken: a put
\* of a thread in between wakes nobody.
FindEmpty ==
    /\ worker.at \in {"look", "woken"}
    /\ queue = <<>>
    /\ worker' = Idle("empty")
    /\ UNCHANGED <<phase, registry, threads, history, budget>>

Sleep ==
    /\ worker.at = "empty"
    /\ worker' = Idle("asleep")
    /\ UNCHANGED <<phase, registry, threads, history, budget>>

\* _run_job: a cancel that came before it starts settles the job unpersisted.
Enter(j) ==
    /\ On("enter", j)
    /\ IF flag[j]
       THEN Set(j, "cancelled") /\ worker' = Idle("look")
       ELSE At("start") /\ UNCHANGED status
    /\ UNCHANGED <<phase, kind, flag, queue, threads, history, budget>>

Start(j) ==
    /\ On("start", j)
    /\ Set(j, "running")
    /\ At("list")
    /\ UNCHANGED <<phase, kind, flag, queue, threads, history, budget>>

\* The items are listed: files of the folder, images of the catalog, or the one
\* unit of work of the other jobs.
ListItems(j) ==
    /\ On("list", j)
    /\ \E n \in 0..MaxItems : worker' = [worker EXCEPT !.at = "work", !.left = n]
    /\ UNCHANGED <<phase, registry, threads, history, budget>>

\* A reconcile looks at the flag when its probes are done, too.
ProbesCancelled(j) ==
    /\ On("list", j)
    /\ kind[j] = "steps"
    /\ flag[j]
    /\ Set(j, "cancelled")
    /\ At("settle")
    /\ UNCHANGED <<phase, kind, flag, queue, threads, history, budget>>

\* The next item is published, when there is room and no cancel is seen.
Launch(j) ==
    /\ On("work", j)
    /\ worker.left > 0
    /\ ~flag[j]
    /\ worker.inflight < IF kind[j] # "steps" THEN Concurrency ELSE 1
    /\ worker' = [worker EXCEPT !.left = @ - 1, !.inflight = @ + 1]
    /\ UNCHANGED <<phase, registry, threads, history, budget>>

\* A publish is over; that it failed only counts as a failed item.
PublishEnds(j) ==
    /\ On("work", j)
    /\ worker.inflight > 0
    /\ worker' = [worker EXCEPT !.inflight = @ - 1]
    /\ UNCHANGED <<phase, registry, threads, history, budget>>

EndStatus(j) ==
    IF flag[j] /\ (kind[j] # "steps" \/ worker.left > 0) THEN "cancelled" ELSE "completed"

\* Mutant: a cancelled job waits for the items it no longer publishes.
WorkEndsUncancelled(j) ==
    /\ On("work", j)
    /\ worker.inflight = 0
    /\ worker.left = 0
    /\ Set(j, EndStatus(j))
    /\ At("settle")
    /\ UNCHANGED <<phase, kind, flag, queue, threads, history, budget>>

\* The items are done, or a cancel is seen before the next one.
WorkEnds(j) ==
    /\ On("work", j)
    /\ worker.inflight = 0
    /\ worker.left = 0 \/ flag[j]
    /\ Set(j, EndStatus(j))
    /\ At("settle")
    /\ UNCHANGED <<phase, kind, flag, queue, threads, history, budget>>

\* The dispatch raises: the items cannot be listed, or the one call in flight of
\* a job that does not publish concurrently fails.
Raises(j) ==
    /\ \/ On("list", j)
       \/ On("work", j) /\ kind[j] = "steps" /\ worker.inflight > 0
    /\ Set(j, IF status[j] = "cancelled" THEN "cancelled" ELSE "failed")
    /\ At("settle")
    /\ UNCHANGED <<phase, kind, flag, queue, threads, history, budget>>

\* The finally block: the outcome of a scan is recorded, then the job persisted.
Settle(j) ==
    /\ On("settle", j)
    /\ Persist(j, "settle")
    /\ worker' = Idle("look")
    /\ UNCHANGED <<phase, registry, threads, row, budget>>

-----------------------------------------------------------------------------
\* The catalog's jobs table (upsert_job, interrupt_stale_jobs) and start-up.

\* Nothing makes a request arrive: one that fails stays in flight for ever.
Arrive(w) ==
    /\ w \in writes
    /\ row' = [row EXCEPT ![w.job] = w.status]
    /\ writes' = writes \ {w}
    /\ UNCHANGED <<phase, registry, worker, threads, budget>>

\* The service dies; the requests it had sent may still reach the catalog.
Crash ==
    /\ phase # "down"
    /\ Spend
    /\ phase' = "down"
    /\ status' = [j \in Jobs |-> "absent"]
    /\ flag' = [j \in Jobs |-> FALSE]
    /\ queue' = <<>>
    /\ worker' = Idle("asleep")
    /\ maker' = [j \in Jobs |-> "none"]
    /\ canceller' = [j \in Jobs |-> "none"]
    /\ UNCHANGED <<kind, history>>

\* POST /jobs/interrupt-stale; start-up goes on when it fails.
InterruptStale ==
    /\ phase = "down"
    /\ phase' = "hydrating"
    /\ \/ row' = [j \in Jobs |-> IF row[j] \in Live THEN "interrupted" ELSE row[j]]
       \/ row' = row
    /\ UNCHANGED <<registry, worker, threads, writes, budget>>

\* Mutant: the snapshot's status is taken as it is.
HydratedAsIs(s) == s

\* _job_from_snapshot: a job that did not settle shows as interrupted.
Hydrated(s) == IF s \in Live THEN "interrupted" ELSE s

\* hydrate(list_jobs()); the list is empty when the catalog does not answer.
Hydrate ==
    /\ phase = "hydrating"
    /\ phase' = "serving"
    /\ \/ status' = [j \in Jobs |-> IF status[j] = "absent" THEN Hydrated(row[j]) ELSE status[j]]
       \/ status' = status
    /\ UNCHANGED <<kind, flag, queue, worker, threads, history, budget>>

-----------------------------------------------------------------------------

\* What the worker task does: it never stops for good while it has something to do.
WorkerNext ==
    \/ Claim
    \/ FindEmpty
    \/ Sleep
    \/ \E j \in Jobs : \/ Enter(j)
                      \/ Start(j)
                      \/ ListItems(j)
                      \/ ProbesCancelled(j)
                      \/ Launch(j)
                      \/ PublishEnds(j)
                      \/ WorkEnds(j)
                      \/ Settle(j)

MakerNext(j) == MakerPuts(j) \/ MakerPersists(j)
CancelNext(j) == CancelCheck(j) \/ CancelStamp(j) \/ CancelPersist(j)

Next ==
    \/ WorkerNext
    \/ \E j \in Jobs : \/ \E k \in {"folder", "steps"} : Register(j, k)
                      \/ MakerNext(j)
                      \/ Tick(j)
                      \/ CancelFlag(j)
                      \/ CancelNext(j)
                      \/ Raises(j)
    \/ \E w \in writes : Arrive(w)
    \/ Crash
    \/ InterruptStale
    \/ Hydrate

Spec == Init /\ [][Next]_vars

\* The event loop runs the worker, and every call it makes ends; the endpoint
\* threads finish.  Nothing says that jobs are created or cancelled, that a
\* snapshot arrives, or that the service is started again.
FairSpec ==
    /\ Spec
    /\ WF_vars(WorkerNext)
    /\ \A j \in Jobs : WF_vars(MakerNext(j)) /\ WF_vars(CancelNext(j))

-----------------------------------------------------------------------------

\* The types of the registry, its threads and the catalog's rows; the worker
\* never publishes more items than it listed nor more than it may at once.
TypeOK ==
    /\ phase \in {"down", "hydrating", "serving"}
    /\ status \in [Jobs -> Status \cup {"absent"}]
    /\ kind \in [Jobs -> Kind \cup {"none"}]
    /\ flag \in [Jobs -> BOOLEAN]
    /\ queue \in Seq(Jobs)
    /\ worker \in [at : WorkerStep, job : Jobs \cup {"none"},
                   left : 0..MaxItems, inflight : 0..Concurrency]
    /\ maker \in [Jobs -> MakerStep]
    /\ canceller \in [Jobs -> CancelStep]
    /\ writes \subseteq Write
    /\ row \in [Jobs -> Status \cup {"absent"}]
    /\ budget \in 0..MaxDisruptions

Queued(j) == \E i \in 1..Len(queue) : queue[i] = j

\* No zombie: a job the registry shows as queued or running is in somebody's
\* hands (jobs.py, hydrate, request_cancel and _run_job).  A queued one is being
\* put into the queue, waits there, or was taken by the worker that has not
\* started it; a running one is what the worker works on now.  Restarts, whatever
\* rows they read back, and cancels at any point leave no other.
LiveJobsAreHeld ==
    \A j \in Jobs :
        /\ status[j] = "queued" =>
              maker[j] = "put" \/ Queued(j) \/ On("enter", j) \/ On("start", j)
        /\ status[j] = "running" => On("list", j) \/ On("work", j)

\* A scan that was not cancelled, waiting in the queue or in the worker's hands
\* and not settled yet.
UnderWay(j) ==
    /\ status[j] # "cancelled"
    /\ Queued(j) \/ (Holds(j) /\ worker.at # "settle")

\* Scans of one folder do not stack (jobs.py, run_folder_scan_tick): one at most
\* is under way, however ticks, cancels, failures and restarts fall.
ScansDoNotStack == \A i, j \in Scans : UnderWay(i) /\ UnderWay(j) => i = j

\* The worker sleeps over a queue that is not empty: a put from a thread fell
\* between its look at the queue and its registration as a getter.
Forgotten == worker.at = "asleep" /\ queue # <<>>

\* A job that was accepted ends or dies with the process (jobs.py, _run_worker),
\* unless the worker sleeps through the put for ever.
JobsEnd ==
    \A j \in Jobs : <>[]Forgotten \/ (status[j] \in Live ~> status[j] \notin Live)

=============================================================================
