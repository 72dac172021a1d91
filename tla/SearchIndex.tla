---------------------------- MODULE SearchIndex -----------------------------
(***************************************************************************)
(* The write side of deedlit.search: the micro-batcher of POST /points     *)
(* (app.py), which coalesces requests into one Qdrant upsert, and the      *)
(* life of the collection (store.py) under a cached flag that upserts,     *)
(* deletes and rebuilds set and reset from threads of their own, without a *)
(* lock.                                                                   *)
(*                                                                         *)
(* The requests POST /points has received are numbered in the order they   *)
(* entered the asyncio queue: posted[k] is the image of request k.  The    *)
(* queue holds requests taken + 1 to Len(posted); the batch under way is   *)
(* requests settled + 1 to taken; those before it have been answered.      *)
(*                                                                         *)
(* A rebuild reads the images of the catalog, which carry no vectors, so   *)
(* it upserts nothing: it leaves an empty collection.                      *)
(***************************************************************************)
EXTENDS Integers, Sequences

CONSTANTS
    Images,      \* sha256 of images
    Rebuilders,  \* threads of POST /rebuild
    Deleters,    \* threads of DELETE /points/{sha256} and POST /points/batch-delete
    Flusher,     \* the thread a batch is flushed in
    BatchMax,    \* UPSERT_BATCH_MAX
    \* Bounds of the model, in the guards of the actions they name.
    MaxPosts,    \* requests (Post)
    MaxRuns,     \* rebuilds and deletes together (StartRebuild, StartDelete)
    MaxFailures  \* calls to Qdrant that fail (CallFails)

ASSUME BatchAssumption == BatchMax \in Nat \ {0}
ASSUME ThreadsAssumption ==
    /\ Rebuilders \cap Deleters = {}
    /\ Flusher \notin Rebuilders \cup Deleters
ASSUME BoundsAssumption == MaxPosts \in Nat /\ MaxRuns \in Nat /\ MaxFailures \in Nat

Threads == Rebuilders \cup Deleters \cup {Flusher}

\* A thread is idle; in drop_collection, before its probe, its delete or its
\* reset of the flag; in ensure_collection, before its look at the flag, its
\* probe, its create or its setting of the flag; or before its own call.
Step == {"idle", "dropprobe", "drop", "reset", "check", "probe", "create", "mark", "act"}
Answer == {"waiting", "ok", "failed"}

VARIABLES
    exists,   \* BOOLEAN: Qdrant has the collection
    points,   \* [Images -> Nat]: the request whose upsert a point holds, 0 for no point
    ensured,  \* BOOLEAN: SearchStore._ensured
    pc,       \* [Threads -> Step]
    posted,   \* Seq(Images)
    answer,   \* Seq(Answer): what became of each request
    taken,    \* how many requests the batch loop took off the queue
    settled,  \* how many requests it has answered
    loop,     \* the batch loop: "idle", "gather" or "flush"
    wiped,    \* images deleted, or dropped with the collection, since they were last upserted
    runs,     \* rebuilds and deletes left
    failures  \* failing calls left

qdrant == <<exists, points, wiped>>
batcher == <<posted, answer, taken, settled, loop>>
vars == <<qdrant, ensured, pc, batcher, runs, failures>>

Goto(t, step) == pc' = [pc EXCEPT ![t] = step]
Batch == settled + 1 .. taken

\* lifespan: the collection is ensured before the service serves, unless Qdrant
\* is unreachable then.
Init ==
    /\ exists \in BOOLEAN
    /\ ensured \in BOOLEAN
    /\ ensured => exists
    /\ points = [i \in Images |-> 0]
    /\ wiped = {}
    /\ pc = [t \in Threads |-> "idle"]
    /\ posted = <<>>
    /\ answer = <<>>
    /\ taken = 0
    /\ settled = 0
    /\ loop = "idle"
    /\ runs = MaxRuns
    /\ failures = MaxFailures

-----------------------------------------------------------------------------
\* The batcher, on the event loop.

Post(i) ==
    /\ Len(posted) < MaxPosts
    /\ posted' = Append(posted, i)
    /\ answer' = Append(answer, "waiting")
    /\ UNCHANGED <<qdrant, ensured, pc, taken, settled, loop, runs, failures>>

\* A batch opens with the first request of the queue.
Open ==
    /\ loop = "idle"
    /\ taken < Len(posted)
    /\ taken' = taken + 1
    /\ loop' = "gather"
    /\ UNCHANGED <<qdrant, ensured, pc, posted, answer, settled, runs, failures>>

Gather ==
    /\ loop = "gather"
    /\ taken < Len(posted)
    /\ taken - settled < BatchMax
    /\ taken' = taken + 1
    /\ UNCHANGED <<qdrant, ensured, pc, posted, answer, settled, loop, runs, failures>>

\* The batch is full or its deadline has passed: a thread flushes it.
Close ==
    /\ loop = "gather"
    /\ loop' = "flush"
    /\ Goto(Flusher, "check")
    /\ UNCHANGED <<qdrant, ensured, posted, answer, taken, settled, runs, failures>>

\* The same answer goes to every request of the batch.
Settle(a) ==
    /\ answer' = [k \in DOMAIN answer |-> IF k \in Batch THEN a ELSE answer[k]]
    /\ settled' = taken
    /\ loop' = "idle"
    /\ UNCHANGED <<posted, taken>>

\* Mutant: a failed flush is logged, and nobody is told.
FailSilently(t) ==
    /\ IF t = Flusher
       THEN /\ settled' = taken
            /\ loop' = "idle"
            /\ UNCHANGED <<posted, answer, taken>>
       ELSE UNCHANGED batcher
    /\ Goto(t, "idle")

\* An exception ends the thread; of a flush, it goes to every waiter.
Fail(t) ==
    /\ IF t = Flusher THEN Settle("failed") ELSE UNCHANGED batcher
    /\ Goto(t, "idle")

-----------------------------------------------------------------------------
\* drop_collection and ensure_collection, step by step.

StartRebuild(t) ==
    /\ t \in Rebuilders
    /\ pc[t] = "idle"
    /\ runs > 0
    /\ runs' = runs - 1
    /\ Goto(t, "dropprobe")
    /\ UNCHANGED <<qdrant, ensured, batcher, failures>>

DropProbe(t) ==
    /\ pc[t] = "dropprobe"
    /\ Goto(t, IF exists THEN "drop" ELSE "reset")
    /\ UNCHANGED <<qdrant, ensured, batcher, runs, failures>>

\* Dropping a collection that is gone already is no error.
Drop(t) ==
    /\ pc[t] = "drop"
    /\ exists' = FALSE
    /\ points' = [i \in Images |-> 0]
    /\ wiped' = Images
    /\ Goto(t, "reset")
    /\ UNCHANGED <<ensured, batcher, runs, failures>>

Reset(t) ==
    /\ pc[t] = "reset"
    /\ ensured' = FALSE
    /\ Goto(t, "check")
    /\ UNCHANGED <<qdrant, batcher, runs, failures>>

Check(t) ==
    /\ pc[t] = "check"
    /\ Goto(t, IF ensured THEN "act" ELSE "probe")
    /\ UNCHANGED <<qdrant, ensured, batcher, runs, failures>>

Probe(t) ==
    /\ pc[t] = "probe"
    /\ Goto(t, IF exists THEN "mark" ELSE "create")
    /\ UNCHANGED <<qdrant, ensured, batcher, runs, failures>>

\* Creating a collection that exists is an error.
Create(t) ==
    /\ pc[t] = "create"
    /\ exists' = TRUE
    /\ IF exists
       THEN Fail(t)
       ELSE Goto(t, "mark") /\ UNCHANGED batcher
    /\ UNCHANGED <<points, wiped, ensured, runs, failures>>

Mark(t) ==
    /\ pc[t] = "mark"
    /\ ensured' = TRUE
    /\ Goto(t, "act")
    /\ UNCHANGED <<qdrant, batcher, runs, failures>>

-----------------------------------------------------------------------------
\* The calls the threads were started for.

\* Mutant: of two requests for an image, the batch keeps the first.
HoldsFirst(i, p) ==
    LET ks == {k \in Batch : posted[k] = i}
    IN IF ks = {} THEN p = points[i] ELSE p \in ks /\ \A k \in ks : p <= k

\* upsert_points: of two requests of the batch for an image, the later is what its
\* point p holds; without a request the point stays.
Holds(i, p) ==
    LET ks == {k \in Batch : posted[k] = i}
    IN IF ks = {} THEN p = points[i] ELSE p \in ks /\ \A k \in ks : k <= p

Upsert ==
    /\ pc[Flusher] = "act"
    /\ IF exists
       THEN /\ points' \in [Images -> 0..taken] /\ \A i \in Images : Holds(i, points'[i])
            /\ wiped' = wiped \ {posted[k] : k \in Batch}
            /\ Settle("ok")
            /\ Goto(Flusher, "idle")
       ELSE /\ Fail(Flusher)
            /\ UNCHANGED <<points, wiped>>
    /\ UNCHANGED <<exists, ensured, runs, failures>>

RebuildEnds(t) ==
    /\ t \in Rebuilders
    /\ pc[t] = "act"
    /\ Goto(t, "idle")
    /\ UNCHANGED <<qdrant, ensured, batcher, runs, failures>>

StartDelete(t) ==
    /\ t \in Deleters
    /\ pc[t] = "idle"
    /\ runs > 0
    /\ runs' = runs - 1
    /\ Goto(t, "check")
    /\ UNCHANGED <<qdrant, ensured, batcher, failures>>

\* delete_point, delete_points; without a collection it is an error, and there is
\* nothing to delete.
Delete(t, is) ==
    /\ t \in Deleters
    /\ pc[t] = "act"
    /\ points' = [i \in Images |-> IF i \in is THEN 0 ELSE points[i]]
    /\ wiped' = wiped \cup is
    /\ Goto(t, "idle")
    /\ UNCHANGED <<exists, ensured, batcher, runs, failures>>

\* A call to Qdrant fails.
CallFails(t) ==
    /\ pc[t] \in {"dropprobe", "drop", "probe", "create", "act"}
    /\ pc[t] = "act" => t \notin Rebuilders
    /\ failures > 0
    /\ failures' = failures - 1
    /\ Fail(t)
    /\ UNCHANGED <<qdrant, ensured, runs>>

-----------------------------------------------------------------------------

BatchNext == Open \/ Gather \/ Close

ThreadNext(t) ==
    \/ DropProbe(t)
    \/ Drop(t)
    \/ Reset(t)
    \/ Check(t)
    \/ Probe(t)
    \/ Create(t)
    \/ Mark(t)
    \/ t = Flusher /\ Upsert
    \/ RebuildEnds(t)
    \/ \E is \in SUBSET Images : Delete(t, is)

Next ==
    \/ \E i \in Images : Post(i)
    \/ BatchNext
    \/ \E t \in Threads : \/ StartRebuild(t)
                          \/ StartDelete(t)
                          \/ ThreadNext(t)
                          \/ CallFails(t)

Spec == Init /\ [][Next]_vars

\* The event loop runs the batch loop, and the flush thread runs to its end.
FairSpec == Spec /\ WF_vars(BatchNext) /\ WF_vars(ThreadNext(Flusher))

-----------------------------------------------------------------------------

\* The types, and the counters in the order the batch loop moves them; a flush
\* thread runs just when the loop waits for it; a batch is never over the maximum.
TypeOK ==
    /\ exists \in BOOLEAN
    /\ points \in [Images -> 0..Len(posted)]
    /\ wiped \subseteq Images
    /\ ensured \in BOOLEAN
    /\ pc \in [Threads -> Step]
    /\ posted \in Seq(Images)
    /\ answer \in Seq(Answer)
    /\ Len(answer) = Len(posted)
    /\ taken \in 0..Len(posted)
    /\ settled \in 0..taken
    /\ taken - settled \in 0..BatchMax
    /\ loop \in {"idle", "gather", "flush"}
    /\ loop = "flush" <=> pc[Flusher] # "idle"
    /\ runs \in 0..MaxRuns
    /\ failures \in 0..MaxFailures

\* Read-after-write (app.py, the comment above the batcher; store.py,
\* upsert_points): when a request has been answered ok, the point of its image
\* holds what it sent or what a later request sent, unless the point was deleted
\* or the collection dropped since.  Batches that fail, requests of one image in
\* one batch, and rebuilds that race a flush do not change that.
AckedIsStored ==
    \A k \in DOMAIN posted :
        answer[k] = "ok" => points[posted[k]] >= k \/ posted[k] \in wiped

\* Every request is answered (app.py, _upsert_batch_loop): a failure reaches all
\* the requests that were batched with the one it came from.
AllAnswered ==
    \A k \in 1..MaxPosts :
        (k \in DOMAIN posted) ~> (k \in DOMAIN posted /\ answer[k] # "waiting")

\* The cached flag is never stale for good (store.py, "A stale-True only costs one
\* failed upsert that the broker retries"): when no thread is about to drop, reset,
\* create or set it, the flag does not claim a collection that is missing.  While
\* it does, nothing creates the collection and every upsert fails.
FlagIsHonest ==
    (\A t \in Threads : pc[t] \in {"idle", "act"}) /\ ensured => exists

=============================================================================
