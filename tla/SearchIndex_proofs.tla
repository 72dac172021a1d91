------------------------- MODULE SearchIndex_proofs -------------------------
(***************************************************************************)
(* Proofs about SearchIndex for any images, threads, batch size and        *)
(* bounds.                                                                 *)
(***************************************************************************)
EXTENDS SearchIndex, SequenceTheorems, TLAPS

\* What AckedIsStored needs to be inductive: the batch loop answers requests in
\* order, and a point never comes from a request that has not been answered.
InOrder ==
    /\ \A k \in DOMAIN posted : k > settled => answer[k] = "waiting"
    /\ \A i \in Images : points[i] <= settled
    /\ loop = "idle" => settled = taken

IInv == TypeOK /\ InOrder /\ AckedIsStored

\* The initial states satisfy the inductive invariant.
LEMMA InitInv == Init => IInv
<1> SUFFICES ASSUME Init PROVE IInv
  OBVIOUS
<1> USE BatchAssumption, BoundsAssumption
<1>1. TypeOK
  BY DEF Init, TypeOK, Step, Threads
<1>2. InOrder /\ AckedIsStored
  BY DEF Init, InOrder, AckedIsStored
<1>. QED
  BY <1>1, <1>2 DEF IInv

\* An answered batch: later requests still wait, earlier answers stay.
LEMMA SettleInv ==
  ASSUME IInv, NEW a \in {"ok", "failed"}, Settle(a)
  PROVE  /\ answer' \in Seq(Answer) /\ Len(answer') = Len(posted)
         /\ \A k \in DOMAIN posted : k > taken => answer'[k] = "waiting"
         /\ \A k \in DOMAIN posted : k \in Batch => answer'[k] = a
         /\ \A k \in DOMAIN posted : k \notin Batch => answer'[k] = answer[k]
<1>1. /\ answer \in Seq(Answer) /\ posted \in Seq(Images)
      /\ Len(answer) = Len(posted)
      /\ DOMAIN posted = 1..Len(posted) /\ DOMAIN answer = 1..Len(posted)
      /\ \A k \in 1..Len(posted) : answer[k] \in Answer
  BY DEF IInv, TypeOK
<1>2. answer' = [k \in 1..Len(posted) |-> IF k \in Batch THEN a ELSE answer[k]]
  BY <1>1 DEF Settle
<1>3. \A k \in 1..Len(posted) : answer'[k] \in Answer
  BY <1>1, <1>2 DEF Answer
<1>4. answer' \in Seq(Answer) /\ Len(answer') = Len(posted)
  <2>1. Len(posted) \in Nat
    BY <1>1
  <2>2. answer' \in [1..Len(posted) -> Answer]
    BY <1>2, <1>3
  <2>. QED
    BY <2>1, <2>2, SeqDef, LenProperties
<1>5. \A k \in DOMAIN posted : k > taken => k \notin Batch /\ k > settled
  BY <1>1 DEF Batch, IInv, TypeOK
<1>. QED
  BY <1>1, <1>2, <1>4, <1>5 DEF IInv, InOrder

\* A batch that fails leaves the points alone and acknowledges nothing.
LEMMA FailInv ==
  ASSUME IInv, NEW t \in Threads, Fail(t), pc[t] # "idle",
         posted' = posted, points' = points, wiped' = wiped,
         exists' \in BOOLEAN, ensured' \in BOOLEAN,
         runs' \in 0..MaxRuns, failures' \in 0..MaxFailures
  PROVE  IInv'
<1>1. CASE t = Flusher
  <2>1. /\ Settle("failed") /\ pc' = [pc EXCEPT ![Flusher] = "idle"]
    BY <1>1 DEF Fail, Goto
  <2>2. /\ answer' \in Seq(Answer) /\ Len(answer') = Len(posted)
        /\ \A k \in DOMAIN posted : k > taken => answer'[k] = "waiting"
        /\ \A k \in DOMAIN posted : k \in Batch => answer'[k] = "failed"
        /\ \A k \in DOMAIN posted : k \notin Batch => answer'[k] = answer[k]
    BY <2>1, SettleInv
  <2>3. TypeOK'
    BY <2>1, <2>2, <1>1, BatchAssumption DEF IInv, TypeOK, Settle, Step, Threads
  <2>4. InOrder'
    <3>1. \A i \in Images : points[i] \in Nat /\ points[i] <= settled
      BY DEF IInv, TypeOK, InOrder
    <3>2. settled <= taken /\ settled \in Nat /\ taken \in Nat
      BY DEF IInv, TypeOK
    <3>3. settled' = taken /\ posted' = posted /\ points' = points
      BY <2>1 DEF Settle
    <3>4. \A i \in Images : points'[i] <= settled'
      BY <3>1, <3>2, <3>3
    <3>5. taken' = taken
      BY <2>1 DEF Settle
    <3>. QED
      BY <2>2, <3>3, <3>4, <3>5 DEF InOrder
  <2>5. AckedIsStored'
    BY <2>1, <2>2 DEF IInv, AckedIsStored
  <2>. QED
    BY <2>3, <2>4, <2>5 DEF IInv
<1>2. CASE t # Flusher
  <2>1. UNCHANGED batcher /\ pc' = [pc EXCEPT ![t] = "idle"]
    BY <1>2 DEF Fail, Goto
  <2>. QED
    BY <2>1, <1>2 DEF IInv, TypeOK, InOrder, AckedIsStored, batcher, Step, Threads
<1>. QED
  BY <1>1, <1>2

\* A stored batch: its points hold its requests, the others keep what they held.
LEMMA UpsertInv == ASSUME IInv, Upsert PROVE IInv'
<1>1. CASE exists
  <2>1. /\ points' \in [Images -> 0..taken]
        /\ \A i \in Images : Holds(i, points'[i])
        /\ wiped' = wiped \ {posted[k] : k \in Batch}
        /\ Settle("ok")
        /\ pc' = [pc EXCEPT ![Flusher] = "idle"]
        /\ posted' = posted /\ taken' = taken /\ settled' = taken /\ loop' = "idle"
        /\ UNCHANGED <<exists, ensured, runs, failures>>
    BY <1>1 DEF Upsert, Goto, Settle
  <2>2. /\ answer' \in Seq(Answer) /\ Len(answer') = Len(posted)
        /\ \A k \in DOMAIN posted : k > taken => answer'[k] = "waiting"
        /\ \A k \in DOMAIN posted : k \in Batch => answer'[k] = "ok"
        /\ \A k \in DOMAIN posted : k \notin Batch => answer'[k] = answer[k]
    BY <2>1, SettleInv
  <2>3. /\ posted \in Seq(Images) /\ DOMAIN posted = 1..Len(posted) /\ Len(posted) \in Nat
        /\ taken \in 0..Len(posted) /\ settled \in 0..taken
        /\ points \in [Images -> 0..Len(posted)]
        /\ \A k \in 1..Len(posted) : posted[k] \in Images
    BY DEF IInv, TypeOK
  <2>4. TypeOK'
    <3>1. points' \in [Images -> 0..Len(posted)]
      BY <2>1, <2>3
    <3>. QED
      BY <2>1, <2>2, <3>1, BatchAssumption DEF IInv, TypeOK, Step, Threads
  <2>5. InOrder'
    BY <2>1, <2>2 DEF InOrder
  <2>6. \A i \in Images : points'[i] >= points[i]
    <3>1. SUFFICES ASSUME NEW i \in Images PROVE points'[i] >= points[i]
      OBVIOUS
    <3>2. points[i] <= settled /\ points[i] \in Nat
      BY <2>3 DEF IInv, InOrder
    <3>3. points'[i] = points[i] \/ points'[i] \in Batch
      BY <2>1 DEF Holds
    <3>. QED
      BY <2>3, <3>2, <3>3 DEF Batch
  <2>7. AckedIsStored'
    <3>1. SUFFICES ASSUME NEW k \in DOMAIN posted, answer'[k] = "ok"
                   PROVE  points'[posted[k]] >= k \/ posted[k] \in wiped'
      BY <2>1 DEF AckedIsStored
    <3>2. CASE k \in Batch
      BY <3>2, <2>1, <2>3 DEF Holds
    <3>3. CASE k \notin Batch
      <4>1. points[posted[k]] >= k \/ posted[k] \in wiped
        BY <3>1, <3>3, <2>2 DEF IInv, AckedIsStored
      <4>2. CASE points[posted[k]] >= k
        BY <4>2, <2>1, <2>3, <2>6
      <4>3. CASE posted[k] \in wiped /\ \E m \in Batch : posted[m] = posted[k]
        <5>1. PICK m \in Batch : posted[m] = posted[k]
          BY <4>3
        <5>2. points'[posted[k]] \in Batch
          BY <5>1, <2>1, <2>3 DEF Holds
        <5>3. k <= settled
          BY <3>1, <3>3, <2>2, <2>3 DEF IInv, InOrder
        <5>. QED
          BY <5>2, <5>3, <2>3 DEF Batch
      <4>4. CASE posted[k] \in wiped /\ ~ \E m \in Batch : posted[m] = posted[k]
        BY <4>4, <2>1
      <4>. QED
        BY <4>1, <4>2, <4>3, <4>4
    <3>. QED
      BY <3>2, <3>3
  <2>. QED
    BY <2>4, <2>5, <2>7 DEF IInv
<1>2. CASE ~exists
  <2>1. /\ Fail(Flusher) /\ UNCHANGED <<points, wiped, exists, ensured, runs, failures>>
        /\ posted' = posted /\ pc[Flusher] = "act"
    BY <1>2 DEF Upsert, Fail, Settle
  <2>2. Flusher \in Threads /\ pc[Flusher] # "idle"
    BY <2>1 DEF Threads
  <2>3. /\ exists' \in BOOLEAN /\ ensured' \in BOOLEAN
        /\ runs' \in 0..MaxRuns /\ failures' \in 0..MaxFailures
    BY <2>1 DEF IInv, TypeOK
  <2>. QED
    BY <2>1, <2>2, <2>3, FailInv
<1>. QED
  BY <1>1, <1>2

\* An upsert posted to the service keeps the invariant.
LEMMA PostInv == ASSUME IInv, NEW i \in Images, Post(i) PROVE IInv'
<1>1. /\ posted \in Seq(Images) /\ answer \in Seq(Answer) /\ Len(answer) = Len(posted)
      /\ "waiting" \in Answer
  BY DEF IInv, TypeOK, Answer
<1>2. /\ posted' \in Seq(Images) /\ answer' \in Seq(Answer)
      /\ Len(posted') = Len(posted) + 1 /\ Len(answer') = Len(posted) + 1
      /\ DOMAIN posted' = 1..(Len(posted) + 1)
      /\ \A k \in 1..Len(posted) : posted'[k] = posted[k] /\ answer'[k] = answer[k]
      /\ answer'[Len(posted) + 1] = "waiting"
      /\ UNCHANGED <<qdrant, ensured, pc, taken, settled, loop, runs, failures>>
  BY <1>1 DEF Post
<1>3. \A k \in DOMAIN posted' : k \in DOMAIN posted \/ k = Len(posted) + 1
  BY <1>1, <1>2
<1>4. TypeOK'
  BY <1>1, <1>2 DEF IInv, TypeOK, qdrant
<1>5. InOrder'
  <2>1. \A k \in DOMAIN posted : k > settled => answer[k] = "waiting"
    BY DEF IInv, InOrder
  <2>2. \A k \in DOMAIN posted' : k > settled => answer'[k] = "waiting"
    BY <2>1, <1>1, <1>2, <1>3
  <2>3. \A x \in Images : points'[x] <= settled'
    BY <1>2 DEF IInv, InOrder, qdrant
  <2>4. settled' = settled /\ taken' = taken /\ loop' = loop
    BY <1>2
  <2>. QED
    BY <2>2, <2>3, <2>4 DEF IInv, InOrder
<1>6. AckedIsStored'
  <2>1. SUFFICES ASSUME NEW k \in DOMAIN posted', answer'[k] = "ok"
                 PROVE  points'[posted'[k]] >= k \/ posted'[k] \in wiped'
    BY DEF AckedIsStored
  <2>2. k \in DOMAIN posted /\ answer[k] = "ok" /\ posted'[k] = posted[k]
    BY <2>1, <1>1, <1>2, <1>3
  <2>. QED
    BY <2>2, <1>2 DEF IInv, AckedIsStored, qdrant
<1>. QED
  BY <1>4, <1>5, <1>6 DEF IInv

\* The batch loop takes requests off the queue and starts the flush.
LEMMA BatchInv == ASSUME IInv, BatchNext PROVE IInv'
<1>1. /\ UNCHANGED <<qdrant, ensured, posted, answer, settled, runs, failures>>
      /\ AckedIsStored'
  BY DEF BatchNext, Open, Gather, Close, IInv, InOrder, AckedIsStored, qdrant
<1>2. TypeOK'
  <2> USE <1>1, BatchAssumption DEF IInv, TypeOK, qdrant
  <2>1. /\ taken \in Nat /\ settled \in Nat /\ Len(posted) \in Nat
        /\ taken <= Len(posted) /\ settled <= taken /\ taken - settled <= BatchMax
    OBVIOUS
  <2>2. CASE Open
    <3>1. settled = taken
      BY <2>2 DEF Open, InOrder
    <3>. QED
      BY <2>1, <2>2, <3>1 DEF Open
  <2>3. CASE Gather
    BY <2>1, <2>3 DEF Gather
  <2>4. CASE Close
    <3>1. Flusher \in Threads
      BY DEF Threads
    <3>. QED
      BY <2>4, <3>1 DEF Close, Goto, Step
  <2>. QED
    BY <2>2, <2>3, <2>4 DEF BatchNext
<1>3. InOrder'
  BY <1>1 DEF BatchNext, Open, Gather, Close, IInv, InOrder, qdrant
<1>. QED
  BY <1>1, <1>2, <1>3 DEF IInv

\* The steps of the threads that neither answer requests nor fail.
LEMMA ThreadInv ==
  ASSUME IInv, NEW t \in Threads,
         \/ StartRebuild(t) \/ StartDelete(t) \/ DropProbe(t) \/ Drop(t) \/ Reset(t)
         \/ Check(t) \/ Probe(t) \/ Mark(t) \/ RebuildEnds(t)
         \/ \E is \in SUBSET Images : Delete(t, is)
  PROVE  IInv'
<1> USE ThreadsAssumption, BoundsAssumption
    DEF IInv, TypeOK, InOrder, AckedIsStored, qdrant, batcher, Goto, Step, Threads
<1>1. CASE StartRebuild(t)
  BY <1>1 DEF StartRebuild
<1>2. CASE StartDelete(t)
  BY <1>2 DEF StartDelete
<1>3. CASE DropProbe(t)
  BY <1>3 DEF DropProbe
<1>4. CASE Drop(t)
  <2>1. /\ points' = [i \in Images |-> 0] /\ wiped' = Images /\ exists' = FALSE
        /\ pc' = [pc EXCEPT ![t] = "reset"] /\ pc[t] = "drop"
        /\ UNCHANGED <<ensured, posted, answer, taken, settled, loop, runs, failures>>
    BY <1>4 DEF Drop
  <2>2. /\ Len(posted) \in Nat /\ settled \in Nat /\ \A k \in DOMAIN posted : posted[k] \in Images
    OBVIOUS
  <2>3. TypeOK'
    <3>1. points' \in [Images -> 0..Len(posted)] /\ wiped' \subseteq Images
      <4>1. 0 \in 0..Len(posted)
        BY <2>2
      <4>. QED
        BY <2>1, <4>1
    <3>2. pc' \in [Threads -> Step] /\ (loop = "flush" <=> pc'[Flusher] # "idle")
      BY <2>1
    <3>3. /\ exists' \in BOOLEAN
          /\ UNCHANGED <<ensured, posted, answer, taken, settled, loop, runs, failures>>
      BY <2>1
    <3>. QED
      BY <3>1, <3>2, <3>3
  <2>4. \A i \in Images : points'[i] <= settled'
    <3>1. \A i \in Images : points'[i] = 0
      BY <2>1, Zenon
    <3>2. settled' = settled /\ 0 <= settled
      BY <2>1, <2>2
    <3>. QED
      BY <3>1, <3>2
  <2>5. InOrder'
    BY <2>1, <2>4
  <2>6. AckedIsStored'
    <3>1. \A k \in DOMAIN posted : posted[k] \in wiped'
      BY <2>1, <2>2, Zenon
    <3>2. posted' = posted
      BY <2>1
    <3>. QED
      BY <3>1, <3>2
  <2>. QED
    BY <2>3, <2>5, <2>6
<1>5. CASE Reset(t)
  BY <1>5 DEF Reset
<1>6. CASE Check(t)
  BY <1>6 DEF Check
<1>7. CASE Probe(t)
  BY <1>7 DEF Probe
<1>8. CASE Mark(t)
  BY <1>8 DEF Mark
<1>9. CASE RebuildEnds(t)
  BY <1>9 DEF RebuildEnds
<1>10. CASE \E is \in SUBSET Images : Delete(t, is)
  <2>1. PICK is \in SUBSET Images : Delete(t, is)
    BY <1>10
  <2>. QED
    BY <2>1 DEF Delete
<1>. QED
  BY <1>1, <1>2, <1>3, <1>4, <1>5, <1>6, <1>7, <1>8, <1>9, <1>10

\* A collection created by a thread keeps the invariant.
LEMMA CreateInv == ASSUME IInv, NEW t \in Threads, Create(t) PROVE IInv'
<1>1. /\ exists' \in BOOLEAN /\ ensured' \in BOOLEAN
      /\ runs' \in 0..MaxRuns /\ failures' \in 0..MaxFailures
      /\ points' = points /\ wiped' = wiped /\ pc[t] = "create"
  BY DEF Create, IInv, TypeOK
<1>2. CASE exists
  BY <1>1, <1>2, FailInv DEF Create, Fail, Settle, batcher
<1>3. CASE ~exists
  BY <1>1, <1>3 DEF Create, Goto, batcher, IInv, TypeOK, InOrder, AckedIsStored, Step, Threads
<1>. QED
  BY <1>2, <1>3

\* A call that fails in a thread keeps the invariant.
LEMMA CallFailsInv == ASSUME IInv, NEW t \in Threads, CallFails(t) PROVE IInv'
<1>1. /\ exists' \in BOOLEAN /\ ensured' \in BOOLEAN
      /\ runs' \in 0..MaxRuns /\ failures' \in 0..MaxFailures
      /\ points' = points /\ wiped' = wiped /\ pc[t] # "idle"
  BY BoundsAssumption DEF CallFails, IInv, TypeOK, qdrant
<1>2. Fail(t) /\ posted' = posted
  BY DEF CallFails, Fail, Settle, batcher
<1>. QED
  BY <1>1, <1>2, FailInv

\* Every step keeps the inductive invariant.
LEMMA StepInv == IInv /\ [Next]_vars => IInv'
<1> SUFFICES ASSUME IInv, [Next]_vars PROVE IInv'
  OBVIOUS
<1>1. CASE \E i \in Images : Post(i)
  BY <1>1, PostInv
<1>2. CASE BatchNext
  BY <1>2, BatchInv
<1>3. CASE \E t \in Threads : StartRebuild(t) \/ StartDelete(t) \/ ThreadNext(t) \/ CallFails(t)
  BY <1>3, ThreadInv, CreateInv, UpsertInv, CallFailsInv DEF ThreadNext
<1>4. CASE UNCHANGED vars
  BY <1>4 DEF vars, qdrant, batcher, IInv, TypeOK, InOrder, AckedIsStored
<1>. QED
  BY <1>1, <1>2, <1>3, <1>4 DEF Next

\* The inductive invariant holds in every reachable state.
LEMMA Invariance == Spec => []IInv
BY InitInv, StepInv, PTL DEF Spec

\* The types hold in every reachable state: in particular no batch is over the
\* maximum, and the flush thread runs just when the batch loop waits for it.
THEOREM SearchTypes == Spec => []TypeOK
<1>1. IInv => TypeOK
  BY DEF IInv
<1>. QED
  BY <1>1, Invariance, PTL

\* Read-after-write of POST /points: an acknowledged point is stored, whatever
\* batches form, fail and race rebuilds and deletes, for any number of threads.
THEOREM ReadAfterWrite == Spec => []AckedIsStored
<1>1. IInv => AckedIsStored
  BY DEF IInv
<1>. QED
  BY <1>1, Invariance, PTL
=============================================================================
