--------------------------- MODULE JobStore_proofs --------------------------
(***************************************************************************)
(* Proofs about JobStore for any set of jobs, any concurrency and any      *)
(* bounds.                                                                 *)
(***************************************************************************)
EXTENDS JobStore, SequenceTheorems, TLAPS

\* An id that was not used yet has left no trace.
FreshIds ==
    \A j \in Jobs :
        kind[j] = "none" =>
            /\ status[j] = "absent"
            /\ maker[j] = "none"
            /\ canceller[j] = "none"
            /\ row[j] = "absent"
            /\ \A w \in writes : w.job # j

\* A thread works for a job the registry has.
KnownJobs ==
    \A j \in Jobs : maker[j] # "none" \/ canceller[j] # "none" => status[j] # "absent"

\* A job being put into the queue is not there yet, and nobody knows its id.
PutOnce ==
    \A j \in Jobs :
        maker[j] = "put" =>
            /\ status[j] = "queued"
            /\ canceller[j] = "none"
            /\ kind[j] # "scan"
            /\ ~Queued(j)
            /\ ~Holds(j)

\* A job is in the queue once, and not in the worker's hands.
QueuedOnce ==
    /\ \A m, n \in 1..Len(queue) : queue[m] = queue[n] => m = n
    /\ \A j \in Jobs : Queued(j) => status[j] \in {"queued", "cancelled"} /\ ~Holds(j)

\* How far the worker is with a job, and what the registry shows of it.
InStep ==
    \A j \in Jobs :
        /\ On("enter", j) \/ On("start", j) => status[j] \in {"queued", "cancelled"}
        /\ On("list", j) \/ On("work", j) => status[j] \in {"running", "cancelled"}
        /\ On("settle", j) => status[j] \in Terminal

\* A scan that may be under way.  A cancel that found it queued just before the
\* worker starts it is overwritten, so that a scan the worker has claimed counts
\* even when it shows as cancelled.
MayRun(j) == status[j] \in Live \/ On("enter", j) \/ On("start", j)
OneScan == \A i, j \in Scans : MayRun(i) /\ MayRun(j) => i = j

IInv ==
    /\ TypeOK
    /\ FreshIds
    /\ KnownJobs
    /\ PutOnce
    /\ QueuedOnce
    /\ InStep
    /\ OneScan
    /\ LiveJobsAreHeld

\* The initial states satisfy the inductive invariant.
LEMMA InitInv == Init => IInv
<1> SUFFICES ASSUME Init PROVE IInv
  OBVIOUS
<1>1. \A j \in Jobs : ~Queued(j)
  BY DEF Init, Queued
<1>2. TypeOK
  BY ConcurrencyAssumption, BoundsAssumption
     DEF Init, TypeOK, Idle, WorkerStep, MakerStep, CancelStep
<1>. QED
  BY <1>1, <1>2 DEF Init, IInv, FreshIds, KnownJobs, PutOnce, QueuedOnce, InStep, OneScan, MayRun,
                    Scans, LiveJobsAreHeld, On, Holds, InHand, Idle, Live

\* What put_nowait does: the job joins the queue, and the worker at most wakes up.
LEMMA PutQueue ==
  ASSUME TypeOK, NEW j \in Jobs, PutNowait(j)
  PROVE  /\ queue' \in Seq(Jobs)
         /\ Len(queue') = Len(queue) + 1
         /\ \A m \in 1..Len(queue) : queue'[m] = queue[m]
         /\ queue'[Len(queue) + 1] = j
         /\ \A i \in Jobs : Queued(i)' <=> Queued(i) \/ i = j
         /\ \A i \in Jobs, step \in InHand : On(step, i)' <=> On(step, i)
         /\ worker' \in [at : WorkerStep, job : Jobs \cup {"none"},
                         left : 0..MaxItems, inflight : 0..Concurrency]
         /\ worker' = worker \/ worker'.at = "woken"
         /\ \A i \in Jobs : Holds(i)' <=> Holds(i)
<1>1. queue \in Seq(Jobs) /\ Len(queue) \in Nat /\ queue' = Append(queue, j)
  BY DEF TypeOK, PutNowait
<1>2. /\ queue' \in Seq(Jobs)
      /\ Len(queue') = Len(queue) + 1
      /\ \A m \in 1..Len(queue) : queue'[m] = queue[m]
      /\ queue'[Len(queue) + 1] = j
  BY <1>1
<1>3. \A i \in Jobs : Queued(i)' <=> Queued(i) \/ i = j
  BY <1>1, <1>2 DEF Queued
<1>4. /\ worker' = worker \/ (worker.at = "asleep" /\ worker'.at = "woken" /\ worker'.job = worker.job)
      /\ worker' \in [at : WorkerStep, job : Jobs \cup {"none"},
                      left : 0..MaxItems, inflight : 0..Concurrency]
  BY DEF PutNowait, TypeOK, WorkerStep
<1>5. \A i \in Jobs, step \in InHand : On(step, i)' <=> On(step, i)
  BY <1>4 DEF On, InHand
<1>6. \A i \in Jobs : Holds(i)' <=> Holds(i)
  BY <1>4 DEF Holds, InHand
<1>. QED
  BY <1>2, <1>3, <1>4, <1>5, <1>6

\* What Queue.get does: the first job leaves the queue.
LEMMA GetQueue ==
  ASSUME TypeOK, QueuedOnce, queue # <<>>, queue' = Tail(queue)
  PROVE  /\ queue' \in Seq(Jobs)
         /\ Head(queue) \in Jobs
         /\ Queued(Head(queue))
         /\ \A m, n \in 1..Len(queue') : queue'[m] = queue'[n] => m = n
         /\ \A i \in Jobs : Queued(i)' <=> Queued(i) /\ i # Head(queue)
<1>1. /\ queue \in Seq(Jobs) /\ Len(queue) \in Nat /\ Len(queue) > 0
      /\ queue' \in Seq(Jobs) /\ Len(queue') = Len(queue) - 1
      /\ \A m \in 1..Len(queue') : queue'[m] = queue[m + 1]
      /\ Head(queue) = queue[1] /\ queue[1] \in Jobs
  BY DEF TypeOK
<1>2. \A m, n \in 1..Len(queue) : queue[m] = queue[n] => m = n
  BY DEF QueuedOnce
<1>3. Queued(Head(queue))
  BY <1>1 DEF Queued
<1>4. \A m, n \in 1..Len(queue') : queue'[m] = queue'[n] => m = n
  <2>1. \A m, n \in 1..Len(queue') : m + 1 \in 1..Len(queue) /\ n + 1 \in 1..Len(queue)
    BY <1>1
  <2>. QED
    BY <1>1, <1>2, <2>1
<1>5. ASSUME NEW i \in Jobs PROVE Queued(i)' <=> Queued(i) /\ i # Head(queue)
  <2>1. ASSUME Queued(i)' PROVE Queued(i) /\ i # Head(queue)
    <3>1. PICK m \in 1..Len(queue') : queue'[m] = i
      BY <2>1 DEF Queued
    <3>2. m + 1 \in 1..Len(queue) /\ queue[m + 1] = i /\ m + 1 # 1 /\ 1 \in 1..Len(queue)
      BY <3>1, <1>1
    <3>. QED
      BY <3>2, <1>1, <1>2 DEF Queued
  <2>2. ASSUME Queued(i), i # Head(queue) PROVE Queued(i)'
    <3>1. PICK m \in 1..Len(queue) : queue[m] = i
      BY <2>2 DEF Queued
    <3>2. m # 1 /\ m - 1 \in 1..Len(queue') /\ queue'[m - 1] = i
      BY <3>1, <2>2, <1>1
    <3>. QED
      BY <3>2 DEF Queued
  <2>. QED
    BY <2>1, <2>2
<1>. QED
  BY <1>1, <1>3, <1>4, <1>5

-----------------------------------------------------------------------------
\* Creating a job.

\* A job registered in memory keeps the invariant.
LEMMA RegisterInv ==
  ASSUME IInv, NEW j \in Jobs, NEW k \in {"folder", "steps"}, Register(j, k)
  PROVE  IInv'
<1>1. \A i \in Jobs : Queued(i)' <=> Queued(i)
  BY DEF Register, Queued
<1> USE <1>1 DEF IInv, Register, Unused, Set, history
<1>2. TypeOK'
  BY DEF TypeOK, Status, Kind, MakerStep
<1>3. FreshIds' /\ KnownJobs' /\ PutOnce' /\ QueuedOnce' /\ InStep'
  BY DEF TypeOK, FreshIds, KnownJobs, PutOnce, QueuedOnce, InStep, On, Holds, InHand, Terminal
<1>4. OneScan' /\ LiveJobsAreHeld'
  BY DEF TypeOK, FreshIds, OneScan, MayRun, Scans, LiveJobsAreHeld, On, Live
<1>. QED
  BY <1>2, <1>3, <1>4

\* A job put on the queue by its maker keeps the invariant.
LEMMA MakerPutsInv == ASSUME IInv, NEW j \in Jobs, MakerPuts(j) PROVE IInv'
<1>1. PutNowait(j) /\ maker[j] = "put" /\ maker' = [maker EXCEPT ![j] = "persist"]
  BY DEF MakerPuts
<1>2. UNCHANGED <<phase, status, kind, flag, canceller, writes, row, budget>>
  BY DEF MakerPuts, history
<1>3. TypeOK
  BY DEF IInv
<1>4. /\ queue' \in Seq(Jobs)
      /\ Len(queue') = Len(queue) + 1
      /\ \A m \in 1..Len(queue) : queue'[m] = queue[m]
      /\ queue'[Len(queue) + 1] = j
      /\ \A i \in Jobs : Queued(i)' <=> Queued(i) \/ i = j
      /\ \A i \in Jobs, step \in InHand : On(step, i)' <=> On(step, i)
      /\ worker' \in [at : WorkerStep, job : Jobs \cup {"none"},
                      left : 0..MaxItems, inflight : 0..Concurrency]
      /\ \A i \in Jobs : Holds(i)' <=> Holds(i)
  BY <1>1, <1>3, PutQueue
<1>5. status[j] = "queued" /\ ~Queued(j) /\ ~Holds(j)
  BY <1>1 DEF IInv, PutOnce
<1>6. TypeOK'
  BY <1>1, <1>2, <1>3, <1>4 DEF TypeOK, MakerStep
<1>7. FreshIds' /\ KnownJobs' /\ PutOnce'
  BY <1>1, <1>2, <1>3, <1>4 DEF IInv, TypeOK, FreshIds, KnownJobs, PutOnce
<1>8. QueuedOnce'
  <2>1. \A m \in 1..Len(queue) : queue[m] # j
    BY <1>5 DEF Queued
  <2>2. Len(queue) \in Nat
    BY <1>3 DEF TypeOK
  <2>3. \A m, n \in 1..Len(queue') : queue'[m] = queue'[n] => m = n
    BY <1>4, <2>1, <2>2 DEF IInv, QueuedOnce
  <2>4. \A i \in Jobs : Queued(i)' => status'[i] \in {"queued", "cancelled"} /\ ~Holds(i)'
    BY <1>2, <1>4, <1>5 DEF IInv, QueuedOnce
  <2>. QED
    BY <2>3, <2>4 DEF QueuedOnce
<1>9. InStep' /\ OneScan'
  BY <1>2, <1>4 DEF IInv, InStep, OneScan, MayRun, Scans, InHand
<1>10. LiveJobsAreHeld'
  BY <1>1, <1>2, <1>3, <1>4 DEF IInv, TypeOK, LiveJobsAreHeld, InHand
<1>. QED
  BY <1>6, <1>7, <1>8, <1>9, <1>10 DEF IInv

\* Sending a snapshot of a known job changes nothing but the requests in flight.
LEMMA PersistInv ==
  ASSUME IInv, NEW j \in Jobs, NEW by \in {"create", "cancel", "settle"}, Persist(j, by),
         status[j] # "absent",
         UNCHANGED <<phase, status, kind, flag, queue, row, budget>>,
         \/ /\ maker[j] # "put" /\ maker' = [maker EXCEPT ![j] = "none"]
            /\ UNCHANGED <<worker, canceller>>
         \/ /\ canceller' = [canceller EXCEPT ![j] = "none"]
            /\ UNCHANGED <<worker, maker>>
         \/ /\ On("settle", j) /\ worker' = Idle("look")
            /\ UNCHANGED <<maker, canceller>>
  PROVE  IInv'
<1>1. \A i \in Jobs : Queued(i)' <=> Queued(i)
  BY DEF Queued
<1>2. /\ kind[j] # "none"
      /\ writes' = writes \cup {[job |-> j, by |-> by, status |-> status[j]]}
      /\ [job |-> j, by |-> by, status |-> status[j]] \in Write
  BY DEF IInv, FreshIds, TypeOK, Persist, Write
<1>3. TypeOK'
  <2>1. /\ maker' \in [Jobs -> MakerStep] /\ canceller' \in [Jobs -> CancelStep]
        /\ writes' \subseteq Write
    BY <1>2 DEF IInv, TypeOK, MakerStep, CancelStep
  <2>2. Idle("look") \in [at : WorkerStep, job : Jobs \cup {"none"},
                         left : 0..MaxItems, inflight : 0..Concurrency]
    BY ConcurrencyAssumption, BoundsAssumption DEF Idle, WorkerStep
  <2>3. worker' \in [at : WorkerStep, job : Jobs \cup {"none"},
                    left : 0..MaxItems, inflight : 0..Concurrency]
    BY <2>2 DEF IInv, TypeOK
  <2>. QED
    BY <2>1, <2>3 DEF IInv, TypeOK
<1>4. FreshIds'
  BY <1>2 DEF IInv, TypeOK, FreshIds
<1>5. KnownJobs' /\ PutOnce' /\ QueuedOnce' /\ InStep'
  BY <1>1 DEF IInv, TypeOK, KnownJobs, PutOnce, QueuedOnce, InStep, On, Holds, InHand, Idle
<1>6. OneScan' /\ LiveJobsAreHeld'
  BY <1>1 DEF IInv, TypeOK, OneScan, MayRun, Scans, LiveJobsAreHeld, On, Idle
<1>. QED
  BY <1>3, <1>4, <1>5, <1>6 DEF IInv

\* The first record of a job sent by its maker keeps the invariant.
LEMMA MakerPersistsInv == ASSUME IInv, NEW j \in Jobs, MakerPersists(j) PROVE IInv'
<1>1. status[j] # "absent" /\ maker[j] # "put"
  BY DEF MakerPersists, IInv, KnownJobs
<1>. QED
  BY <1>1, PersistInv DEF MakerPersists, registry

\* The record sent by a cancellation keeps the invariant.
LEMMA CancelPersistInv == ASSUME IInv, NEW j \in Jobs, CancelPersist(j) PROVE IInv'
<1>1. status[j] # "absent"
  BY DEF CancelPersist, IInv, KnownJobs
<1>. QED
  BY <1>1, PersistInv DEF CancelPersist, registry

\* The last record of a job, sent by the worker, keeps the invariant.
LEMMA SettleInv == ASSUME IInv, NEW j \in Jobs, Settle(j) PROVE IInv'
<1>1. status[j] # "absent"
  BY DEF Settle, IInv, InStep, Terminal
<1>. QED
  BY <1>1, PersistInv DEF Settle, registry, threads

\* A tick queues a scan when no other may be under way.
LEMMA TickInv == ASSUME IInv, NEW j \in Jobs, Tick(j) PROVE IInv'
<1>1. /\ PutNowait(j) /\ LoopIsFree /\ kind[j] = "none"
      /\ status' = [status EXCEPT ![j] = "queued"]
      /\ kind' = [kind EXCEPT ![j] = "scan"]
      /\ writes' = writes \cup {[job |-> j, by |-> "create", status |-> "queued"]}
      /\ UNCHANGED <<phase, flag, maker, canceller, row, budget>>
      /\ \A i \in Scans : status[i] \notin Live
  BY DEF Tick, Schedule, Unused, Set, threads
<1>2. TypeOK
  BY DEF IInv
<1>3. /\ queue' \in Seq(Jobs)
      /\ Len(queue') = Len(queue) + 1
      /\ \A m \in 1..Len(queue) : queue'[m] = queue[m]
      /\ queue'[Len(queue) + 1] = j
      /\ \A i \in Jobs : Queued(i)' <=> Queued(i) \/ i = j
      /\ \A i \in Jobs, step \in InHand : On(step, i)' <=> On(step, i)
      /\ worker' \in [at : WorkerStep, job : Jobs \cup {"none"},
                      left : 0..MaxItems, inflight : 0..Concurrency]
      /\ \A i \in Jobs : Holds(i)' <=> Holds(i)
  BY <1>1, <1>2, PutQueue
<1>4. /\ status[j] = "absent" /\ maker[j] = "none" /\ canceller[j] = "none"
  BY <1>1 DEF IInv, FreshIds
<1>5. /\ ~Queued(j) /\ ~Holds(j) /\ \A step \in InHand : ~On(step, j)
  BY <1>4 DEF IInv, QueuedOnce, InStep, Holds, On, InHand, Terminal
<1>6. TypeOK'
  <2>1. [job |-> j, by |-> "create", status |-> "queued"] \in Write
    BY DEF Write, Status
  <2>. QED
    BY <1>1, <1>2, <1>3, <2>1 DEF TypeOK, Kind, Status
<1>7. FreshIds' /\ KnownJobs' /\ PutOnce'
  BY <1>1, <1>2, <1>3, <1>4 DEF IInv, TypeOK, FreshIds, KnownJobs, PutOnce
<1>8. QueuedOnce'
  <2>1. \A m \in 1..Len(queue) : queue[m] # j
    BY <1>5 DEF Queued
  <2>2. Len(queue) \in Nat
    BY <1>2 DEF TypeOK
  <2>3. \A m, n \in 1..Len(queue') : queue'[m] = queue'[n] => m = n
    BY <1>3, <2>1, <2>2 DEF IInv, QueuedOnce
  <2>4. \A i \in Jobs : Queued(i)' => status'[i] \in {"queued", "cancelled"} /\ ~Holds(i)'
    BY <1>1, <1>2, <1>3, <1>5 DEF IInv, TypeOK, QueuedOnce
  <2>. QED
    BY <2>3, <2>4 DEF QueuedOnce
<1>9. InStep'
  BY <1>1, <1>2, <1>3, <1>5 DEF IInv, TypeOK, InStep, InHand
<1>10. OneScan'
  <2>1. \A i \in Scans : ~MayRun(i)
    BY <1>1 DEF MayRun, LoopIsFree, On
  <2>2. \A i \in Jobs : i # j /\ i \in Scans' => i \in Scans
    BY <1>1, <1>2 DEF Scans, TypeOK
  <2>3. \A i \in Jobs : i # j => (MayRun(i)' <=> MayRun(i))
    BY <1>1, <1>2, <1>3 DEF MayRun, InHand, TypeOK
  <2>4. \A i \in Scans' : i \in Jobs
    BY DEF Scans
  <2>. QED
    BY <2>1, <2>2, <2>3, <2>4 DEF OneScan
<1>11. LiveJobsAreHeld'
  BY <1>1, <1>2, <1>3 DEF IInv, TypeOK, LiveJobsAreHeld, InHand
<1>. QED
  BY <1>6, <1>7, <1>8, <1>9, <1>10, <1>11 DEF IInv

-----------------------------------------------------------------------------
\* Cancelling a job.

\* The flag of a cancellation keeps the invariant.
LEMMA CancelFlagInv == ASSUME IInv, NEW j \in Jobs, CancelFlag(j) PROVE IInv'
<1>1. \A i \in Jobs : Queued(i)' <=> Queued(i)
  BY DEF CancelFlag, Queued
<1> USE <1>1 DEF IInv, CancelFlag, history
<1>2. TypeOK'
  BY BoundsAssumption DEF TypeOK, CancelStep, Spend
<1>3. FreshIds' /\ KnownJobs' /\ PutOnce' /\ QueuedOnce' /\ InStep'
  BY DEF TypeOK, FreshIds, KnownJobs, PutOnce, QueuedOnce, InStep, On, Holds, Live
<1>4. OneScan' /\ LiveJobsAreHeld'
  BY DEF OneScan, MayRun, Scans, LiveJobsAreHeld, On
<1>. QED
  BY <1>2, <1>3, <1>4

\* The check of a cancellation keeps the invariant.
LEMMA CancelCheckInv == ASSUME IInv, NEW j \in Jobs, CancelCheck(j) PROVE IInv'
<1>1. \A i \in Jobs : Queued(i)' <=> Queued(i)
  BY DEF CancelCheck, Queued, registry
<1> USE <1>1 DEF IInv, CancelCheck, registry, history
<1>2. TypeOK'
  BY DEF TypeOK, CancelStep
<1>3. FreshIds' /\ KnownJobs' /\ PutOnce' /\ QueuedOnce' /\ InStep'
  BY DEF TypeOK, FreshIds, KnownJobs, PutOnce, QueuedOnce, InStep, On, Holds
<1>4. OneScan' /\ LiveJobsAreHeld'
  BY DEF OneScan, MayRun, Scans, LiveJobsAreHeld, On
<1>. QED
  BY <1>2, <1>3, <1>4

\* A job may be stamped cancelled at any moment after it was seen queued.
LEMMA CancelStampInv == ASSUME IInv, NEW j \in Jobs, CancelStamp(j) PROVE IInv'
<1>1. \A i \in Jobs : Queued(i)' <=> Queued(i)
  BY DEF CancelStamp, Queued
<1> USE <1>1 DEF IInv, CancelStamp, Set, history
<1>2. TypeOK'
  BY DEF TypeOK, CancelStep, Status, Terminal
<1>3. FreshIds' /\ KnownJobs' /\ PutOnce'
  BY DEF TypeOK, FreshIds, KnownJobs, PutOnce, Holds
<1>4. QueuedOnce' /\ InStep'
  BY DEF TypeOK, QueuedOnce, InStep, On, Holds, Terminal
<1>5. OneScan' /\ LiveJobsAreHeld'
  BY DEF TypeOK, OneScan, MayRun, Scans, LiveJobsAreHeld, On, Live
<1>. QED
  BY <1>2, <1>3, <1>4, <1>5

-----------------------------------------------------------------------------
\* The worker.

\* A claimed job was queued; a claimed scan may run, and did before.
LEMMA ClaimInv == ASSUME IInv, Claim PROVE IInv'
<1> DEFINE h == Head(queue)
<1>1. /\ queue # <<>> /\ queue' = Tail(queue) /\ worker.at \in {"look", "woken"}
      /\ UNCHANGED <<phase, status, kind, flag, maker, canceller, writes, row, budget>>
      /\ \/ status[h] = "cancelled" /\ worker' = Idle("look")
         \/ status[h] # "cancelled" /\ worker' = Busy("enter", h)
  BY DEF Claim, threads, history
<1>2. /\ queue' \in Seq(Jobs) /\ h \in Jobs /\ Queued(h)
      /\ \A m, n \in 1..Len(queue') : queue'[m] = queue'[n] => m = n
      /\ \A i \in Jobs : Queued(i)' <=> Queued(i) /\ i # h
  BY <1>1, GetQueue DEF IInv
<1>3. status[h] \in {"queued", "cancelled"}
  BY <1>2 DEF IInv, QueuedOnce
<1> HIDE DEF h
<1>4. \A i \in Jobs, step \in InHand : ~On(step, i)
  BY <1>1 DEF On, InHand
<1>5. \A i \in Jobs, step \in InHand :
        On(step, i)' <=> step = "enter" /\ i = h /\ status[h] = "queued"
  BY <1>1, <1>3 DEF On, InHand, Idle, Busy
<1>6. \A i \in Jobs : Holds(i)' => i = h
  BY <1>1 DEF Holds, InHand, Idle, Busy
<1>7. TypeOK'
  BY <1>1, <1>2, ConcurrencyAssumption, BoundsAssumption
     DEF IInv, TypeOK, Idle, Busy, WorkerStep
<1>8. FreshIds' /\ KnownJobs'
  BY <1>1 DEF IInv, FreshIds, KnownJobs
<1>9. PutOnce'
  BY <1>1, <1>2, <1>6 DEF IInv, PutOnce
<1>10. QueuedOnce'
  BY <1>1, <1>2, <1>6 DEF IInv, QueuedOnce
<1>11. InStep'
  BY <1>1, <1>3, <1>5 DEF IInv, InStep, InHand
<1>12. OneScan'
  <2>1. \A i \in Jobs : MayRun(i)' => MayRun(i)
    BY <1>1, <1>5 DEF MayRun, InHand, Live
  <2>2. Scans' = Scans
    BY <1>1 DEF Scans
  <2>3. Scans \subseteq Jobs
    BY DEF Scans
  <2>. QED
    BY <2>1, <2>2, <2>3 DEF IInv, OneScan
<1>13. LiveJobsAreHeld'
  <2>1. \A i \in Jobs : On("enter", i)' <=> i = h /\ status[h] = "queued"
    BY <1>5 DEF InHand
  <2>2. \A i \in Jobs : ~On("enter", i) /\ ~On("start", i) /\ ~On("list", i) /\ ~On("work", i)
    BY <1>4 DEF InHand
  <2>. QED
    BY <1>1, <1>2, <2>1, <2>2 DEF IInv, LiveJobsAreHeld
<1>. QED
  BY <1>7, <1>8, <1>9, <1>10, <1>11, <1>12, <1>13 DEF IInv

\* A worker that finds nothing, or sleeps, keeps the invariant.
LEMMA RestInv == ASSUME IInv, FindEmpty \/ Sleep PROVE IInv'
<1>1. /\ UNCHANGED <<phase, status, kind, flag, queue, maker, canceller, writes, row, budget>>
      /\ worker.at \notin InHand
      /\ worker' = Idle("empty") \/ worker' = Idle("asleep")
  BY DEF FindEmpty, Sleep, registry, threads, history, InHand
<1>2. \A i \in Jobs : Queued(i)' <=> Queued(i)
  BY <1>1 DEF Queued
<1>3. TypeOK'
  BY <1>1, ConcurrencyAssumption, BoundsAssumption DEF IInv, TypeOK, Idle, WorkerStep
<1>4. FreshIds' /\ KnownJobs' /\ PutOnce' /\ QueuedOnce' /\ InStep'
  BY <1>1, <1>2 DEF IInv, FreshIds, KnownJobs, PutOnce, QueuedOnce, InStep, On, Holds, InHand, Idle
<1>5. OneScan' /\ LiveJobsAreHeld'
  BY <1>1, <1>2 DEF IInv, OneScan, MayRun, Scans, LiveJobsAreHeld, On, InHand, Idle
<1>. QED
  BY <1>3, <1>4, <1>5 DEF IInv

\* The worker moves on with job j, whose status becomes s.
LEMMA MoveInv ==
  ASSUME IInv, NEW j \in Jobs, worker.at \in InHand, worker.job = j,
         NEW s \in Status, status' = [status EXCEPT ![j] = s],
         UNCHANGED <<phase, kind, flag, queue, maker, canceller, writes, row, budget>>,
         worker' \in [at : WorkerStep, job : Jobs \cup {"none"},
                      left : 0..MaxItems, inflight : 0..Concurrency],
         \/ worker' = Idle("look") /\ s \notin Live
         \/ /\ worker'.job = j
            /\ \/ worker'.at = "start" /\ worker.at = "enter" /\ s = status[j]
               \/ worker'.at = "list" /\ worker.at = "start" /\ s = "running"
               \/ worker'.at = "work" /\ worker.at \in {"list", "work"} /\ s = status[j]
               \/ worker'.at = "settle" /\ s \in Terminal
  PROVE  IInv'
<1>1. \A i \in Jobs : Queued(i)' <=> Queued(i)
  BY DEF Queued
<1>2. /\ ~Queued(j) /\ maker[j] # "put"
  BY DEF IInv, QueuedOnce, PutOnce, Holds
<1>3. TypeOK'
  BY DEF IInv, TypeOK
<1>4. FreshIds' /\ KnownJobs' /\ PutOnce'
  <2>1. kind[j] # "none"
    BY DEF IInv, FreshIds, InStep, On, InHand, Terminal
  <2>2. s # "absent"
    BY DEF Status, Terminal
  <2>. QED
    BY <1>1, <1>2, <2>1, <2>2
       DEF IInv, TypeOK, FreshIds, KnownJobs, PutOnce, Holds, Idle, InHand
<1>5. QueuedOnce'
  BY <1>1, <1>2 DEF IInv, TypeOK, QueuedOnce, Holds, Idle, InHand
<1>6. InStep'
  BY DEF IInv, TypeOK, InStep, On, Idle, InHand
<1>7. OneScan'
  <2>1. \A i \in Jobs : MayRun(i)' => MayRun(i)
    BY DEF IInv, TypeOK, InStep, MayRun, On, Idle, InHand, Live, Terminal
  <2>2. Scans' = Scans /\ Scans \subseteq Jobs
    BY DEF Scans
  <2>. QED
    BY <2>1, <2>2 DEF IInv, OneScan
<1>8. LiveJobsAreHeld'
  BY <1>1, <1>2 DEF IInv, TypeOK, LiveJobsAreHeld, InStep, On, Idle, InHand, Live, Terminal
<1>. QED
  BY <1>3, <1>4, <1>5, <1>6, <1>7, <1>8 DEF IInv

\* What the invariant says of the worker and of the statuses.
LEMMA WorkerTypes ==
  ASSUME IInv
  PROVE  /\ worker \in [at : WorkerStep, job : Jobs \cup {"none"},
                        left : 0..MaxItems, inflight : 0..Concurrency]
         /\ status \in [Jobs -> Status \cup {"absent"}]
         /\ Concurrency \in Nat /\ Concurrency > 0 /\ MaxItems \in Nat
         /\ Idle("look") \in [at : WorkerStep, job : Jobs \cup {"none"},
                              left : 0..MaxItems, inflight : 0..Concurrency]
BY ConcurrencyAssumption, BoundsAssumption DEF IInv, TypeOK, Idle, WorkerStep

\* Every step of the worker on a job keeps the invariant.
LEMMA WorkerInv ==
  ASSUME IInv, NEW j \in Jobs,
         \/ Enter(j) \/ Start(j) \/ ListItems(j) \/ ProbesCancelled(j) \/ Launch(j)
         \/ PublishEnds(j) \/ WorkEnds(j) \/ Raises(j)
  PROVE  IInv'
<1> DEFINE s == status'[j]
<1>1. /\ worker.at \in InHand /\ worker.job = j
      /\ UNCHANGED <<phase, kind, flag, queue, maker, canceller, writes, row, budget>>
  BY DEF Enter, Start, ListItems, ProbesCancelled, Launch, PublishEnds, WorkEnds, Raises,
         On, InHand, registry, threads, history
<1>2. status[j] \in Status /\ (worker.at \in {"enter", "start"} => status[j] \in {"queued", "cancelled"})
  BY <1>1, WorkerTypes DEF IInv, InStep, On, InHand, Status, Terminal
<1>3. status' = [status EXCEPT ![j] = s] /\ s \in Status
  BY <1>2, WorkerTypes
     DEF Enter, Start, ListItems, ProbesCancelled, Launch, PublishEnds, WorkEnds, Raises,
         Set, EndStatus, registry, Status, Terminal
<1>4. worker' \in [at : WorkerStep, job : Jobs \cup {"none"},
                   left : 0..MaxItems, inflight : 0..Concurrency]
  <2>1. CASE Enter(j) \/ Start(j) \/ ProbesCancelled(j) \/ WorkEnds(j) \/ Raises(j)
    BY <2>1, WorkerTypes DEF Enter, Start, ProbesCancelled, WorkEnds, Raises, At, WorkerStep
  <2>2. CASE ListItems(j)
    BY <2>2, WorkerTypes DEF ListItems, WorkerStep
  <2>3. CASE Launch(j)
    <3>1. worker.left - 1 \in 0..MaxItems
      BY <2>3, WorkerTypes DEF Launch
    <3>2. worker.inflight + 1 \in 0..Concurrency
      BY <2>3, WorkerTypes DEF Launch
    <3>. QED
      BY <2>3, <3>1, <3>2, WorkerTypes DEF Launch
  <2>4. CASE PublishEnds(j)
    <3>1. worker.inflight - 1 \in 0..Concurrency
      BY <2>4, WorkerTypes DEF PublishEnds
    <3>. QED
      BY <2>4, <3>1, WorkerTypes DEF PublishEnds
  <2>. QED
    BY <2>1, <2>2, <2>3, <2>4
<1>5. \/ worker' = Idle("look") /\ s \notin Live
      \/ /\ worker'.job = j
         /\ \/ worker'.at = "start" /\ worker.at = "enter" /\ s = status[j]
            \/ worker'.at = "list" /\ worker.at = "start" /\ s = "running"
            \/ worker'.at = "work" /\ worker.at \in {"list", "work"} /\ s = status[j]
            \/ worker'.at = "settle" /\ s \in Terminal
  BY <1>1, WorkerTypes
     DEF Enter, Start, ListItems, ProbesCancelled, Launch, PublishEnds, WorkEnds, Raises,
         At, Set, On, EndStatus, registry, Live, Terminal
<1> HIDE DEF s
<1>. QED
  BY <1>1, <1>3, <1>4, <1>5, MoveInv

-----------------------------------------------------------------------------
\* The catalog's rows, crash and start-up.

\* A record that arrives at the history keeps the invariant.
LEMMA ArriveInv == ASSUME IInv, NEW w \in writes, Arrive(w) PROVE IInv'
<1>1. \A i \in Jobs : Queued(i)' <=> Queued(i)
  BY DEF Arrive, Queued, registry
<1>2. w \in Write /\ w.job \in Jobs /\ w.status \in Status /\ kind[w.job] # "none"
  BY DEF IInv, TypeOK, Write, FreshIds
<1> USE <1>1, <1>2 DEF IInv, Arrive, registry, threads
<1>3. TypeOK'
  BY DEF TypeOK
<1>4. FreshIds' /\ KnownJobs' /\ PutOnce' /\ QueuedOnce' /\ InStep'
  BY DEF TypeOK, FreshIds, KnownJobs, PutOnce, QueuedOnce, InStep, On, Holds
<1>5. OneScan' /\ LiveJobsAreHeld'
  BY DEF OneScan, MayRun, Scans, LiveJobsAreHeld, On
<1>. QED
  BY <1>3, <1>4, <1>5

\* A crash of the service keeps the invariant.
LEMMA CrashInv == ASSUME IInv, Crash PROVE IInv'
<1>1. \A i \in Jobs : ~Queued(i)'
  BY DEF Crash, Queued
<1> USE <1>1 DEF IInv, Crash, history
<1>2. TypeOK'
  BY ConcurrencyAssumption, BoundsAssumption
     DEF TypeOK, Idle, WorkerStep, MakerStep, CancelStep, Spend
<1>3. FreshIds' /\ KnownJobs' /\ PutOnce' /\ QueuedOnce' /\ InStep'
  BY DEF FreshIds, KnownJobs, PutOnce, QueuedOnce, InStep, On, Holds, InHand, Idle
<1>4. OneScan' /\ LiveJobsAreHeld'
  BY DEF OneScan, MayRun, Scans, LiveJobsAreHeld, On, Idle, Live
<1>. QED
  BY <1>2, <1>3, <1>4

\* Marking what a crash left as interrupted keeps the invariant.
LEMMA InterruptStaleInv == ASSUME IInv, InterruptStale PROVE IInv'
<1>1. \A i \in Jobs : Queued(i)' <=> Queued(i)
  BY DEF InterruptStale, Queued, registry
<1> USE <1>1 DEF IInv, InterruptStale, registry, threads
<1>2. TypeOK'
  BY DEF TypeOK, Status, Terminal
<1>3. FreshIds' /\ KnownJobs' /\ PutOnce' /\ QueuedOnce' /\ InStep'
  BY DEF FreshIds, KnownJobs, PutOnce, QueuedOnce, InStep, On, Holds, Live
<1>4. OneScan' /\ LiveJobsAreHeld'
  BY DEF OneScan, MayRun, Scans, LiveJobsAreHeld, On
<1>. QED
  BY <1>2, <1>3, <1>4

\* Only jobs the registry does not have are read back, and none as live.
LEMMA HydrateInv == ASSUME IInv, Hydrate PROVE IInv'
<1>1. /\ \A i \in Jobs : Queued(i)' <=> Queued(i)
      /\ UNCHANGED <<kind, flag, queue, worker, maker, canceller, writes, row, budget>>
  BY DEF Hydrate, Queued, threads, history
<1>2. \A i \in Jobs : \/ status'[i] = status[i]
                      \/ /\ status[i] = "absent"
                         /\ status'[i] = Hydrated(row[i])
  BY DEF Hydrate, IInv, TypeOK
<1>3. \A i \in Jobs : Hydrated(row[i]) \in Terminal \cup {"absent"}
  BY DEF IInv, TypeOK, Hydrated, Live, Status, Terminal
<1>4. TypeOK'
  <2>1. status' \in [Jobs -> Status \cup {"absent"}]
    BY <1>3 DEF Hydrate, IInv, TypeOK, Status
  <2>. QED
    BY <1>1, <2>1 DEF Hydrate, IInv, TypeOK
<1>5. FreshIds'
  BY <1>1, <1>2 DEF IInv, FreshIds, Hydrated, Live
<1>6. KnownJobs'
  BY <1>1, <1>2 DEF IInv, KnownJobs
<1>7. PutOnce' /\ QueuedOnce' /\ InStep'
  BY <1>1, <1>2 DEF IInv, PutOnce, QueuedOnce, InStep, On, Holds, Terminal
<1>8. OneScan' /\ LiveJobsAreHeld'
  BY <1>1, <1>2, <1>3 DEF IInv, OneScan, MayRun, Scans, LiveJobsAreHeld, On, Live, Terminal
<1>. QED
  BY <1>4, <1>5, <1>6, <1>7, <1>8 DEF IInv

-----------------------------------------------------------------------------

\* Every step keeps the inductive invariant.
LEMMA StepInv == IInv /\ [Next]_vars => IInv'
<1> SUFFICES ASSUME IInv, [Next]_vars PROVE IInv'
  OBVIOUS
<1>1. CASE WorkerNext
  BY <1>1, ClaimInv, RestInv, WorkerInv, SettleInv DEF WorkerNext
<1>2. ASSUME NEW j \in Jobs,
             \/ \E k \in {"folder", "steps"} : Register(j, k)
             \/ MakerNext(j) \/ Tick(j) \/ CancelFlag(j) \/ CancelNext(j) \/ Raises(j)
      PROVE  IInv'
  BY <1>2, RegisterInv, MakerPutsInv, MakerPersistsInv, TickInv, CancelFlagInv, CancelCheckInv,
     CancelStampInv, CancelPersistInv, WorkerInv DEF MakerNext, CancelNext
<1>3. CASE \E w \in writes : Arrive(w)
  BY <1>3, ArriveInv
<1>4. CASE Crash \/ InterruptStale \/ Hydrate
  BY <1>4, CrashInv, InterruptStaleInv, HydrateInv
<1>5. CASE UNCHANGED vars
  <2>1. \A i \in Jobs : Queued(i)' <=> Queued(i)
    BY <1>5 DEF vars, registry, Queued
  <2>2. TypeOK'
    BY <1>5 DEF vars, registry, threads, history, IInv, TypeOK
  <2>3. FreshIds' /\ KnownJobs' /\ PutOnce' /\ QueuedOnce' /\ InStep'
    BY <1>5, <2>1 DEF vars, registry, threads, history, IInv, FreshIds, KnownJobs, PutOnce,
                      QueuedOnce, InStep, On, Holds
  <2>4. OneScan' /\ LiveJobsAreHeld'
    BY <1>5, <2>1 DEF vars, registry, threads, history, IInv, OneScan, MayRun, Scans,
                      LiveJobsAreHeld, On
  <2>. QED
    BY <2>2, <2>3, <2>4 DEF IInv
<1>. QED
  BY <1>1, <1>2, <1>3, <1>4, <1>5 DEF Next

\* The inductive invariant holds in every reachable state.
LEMMA Invariance == Spec => []IInv
BY InitInv, StepInv, PTL DEF Spec

\* The types hold in every reachable state: the worker never has more publishes
\* in flight than it may, nor publishes more items than it listed.
THEOREM JobTypes == Spec => []TypeOK
<1>1. IInv => TypeOK
  BY DEF IInv
<1>. QED
  BY <1>1, Invariance, PTL

\* No zombie job: whatever threads, ticks, cancels, crashes and restarts do, a job
\* shown as queued or running is in the hands of a thread, the queue or the worker.
THEOREM NoZombieJob == Spec => []LiveJobsAreHeld
<1>1. IInv => LiveJobsAreHeld
  BY DEF IInv
<1>. QED
  BY <1>1, Invariance, PTL

\* The scans of a folder never stack.
THEOREM NoStackedScans == Spec => []ScansDoNotStack
<1>1. ASSUME IInv PROVE ScansDoNotStack
  <2>1. \A j \in Jobs : UnderWay(j) => MayRun(j)
    BY <1>1 DEF IInv, UnderWay, MayRun, QueuedOnce, InStep, Holds, On, InHand, Live
  <2>2. Scans \subseteq Jobs
    BY DEF Scans
  <2>. QED
    BY <1>1, <2>1, <2>2 DEF IInv, OneScan, ScansDoNotStack
<1>. QED
  BY <1>1, Invariance, PTL
=============================================================================
