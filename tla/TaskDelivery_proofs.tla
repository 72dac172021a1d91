------------------------ MODULE TaskDelivery_proofs ------------------------
(***************************************************************************)
(* Proofs about TaskDelivery for any set of tasks and any finite set of    *)
(* consumers, prefetch, retry limit and bounds; at the end, that it        *)
(* implements TaskPromise.                                                 *)
(***************************************************************************)
EXTENDS TaskDelivery, FiniteSetTheorems, TLAPS

\* The lanes are finitely many, so that the broker returns finitely many
\* deliveries when channels go away.
LEMMA LaneFinite == IsFiniteSet(Lane)
<1>1. IsFiniteSet(1..Prefetch)
  BY FS_Interval, PrefetchAssumption
<1>. QED
  BY <1>1, FS_Product, FiniteAssumption DEF Lane

\* The number of deliveries of m held by some lanes is a natural number, and
\* it is positive exactly when one of these lanes holds m.
LEMMA HoldingCount ==
  ASSUME NEW L \in SUBSET Lane, NEW m
  PROVE  /\ Cardinality(Holding(L, m)) \in Nat
         /\ Cardinality(Holding(L, m)) > 0 <=> Holding(L, m) # {}
<1>1. Holding(L, m) \in SUBSET Lane
  BY DEF Holding
<1>2. IsFiniteSet(Holding(L, m))
  BY <1>1, LaneFinite, FS_Subset
<1>. QED
  BY <1>2, FS_CardinalityType, FS_EmptySet

\* Putting deliveries back yields a bag, which has m exactly when the queue
\* had it or a lane held it.
LEMMA ReturnedBag ==
  ASSUME NEW q \in Bag, NEW L \in SUBSET Lane
  PROVE  /\ Returned(q, L) \in Bag
         /\ \A m \in Message : Returned(q, L)[m] > 0 <=> q[m] > 0 \/ Holding(L, m) # {}
<1>1. \A m \in Message : q[m] \in Nat
  BY DEF Bag
<1>2. \A m \in Message : /\ Cardinality(Holding(L, m)) \in Nat
                         /\ Cardinality(Holding(L, m)) > 0 <=> Holding(L, m) # {}
  BY HoldingCount
<1>. QED
  BY <1>1, <1>2 DEF Bag, Returned

\* What Put and Take do to a bag.
LEMMA PutBag ==
  ASSUME NEW q \in Bag, NEW m \in Message
  PROVE  /\ Put(q, m) \in Bag
         /\ \A n \in Message : Put(q, m)[n] > 0 <=> q[n] > 0 \/ n = m
BY DEF Bag, Put

\* A message taken from a queue is one less of it, and no other moves.
LEMMA TakeBag ==
  ASSUME NEW q \in Bag, NEW m \in Message, q[m] > 0
  PROVE  /\ Take(q, m) \in Bag
         /\ \A n \in Message : Take(q, m)[n] > 0 => q[n] > 0
         /\ \A n \in Message : n # m => Take(q, m)[n] = q[n]
BY DEF Bag, Take

\* An empty queue has no message.
LEMMA EmptyBag == Empty \in Bag /\ \A m \in Message : Empty[m] = 0
BY DEF Empty, Bag
-----------------------------------------------------------------------------
\* A lane that is not idle carries a stage and a message.
LEMMA BusyLane ==
  ASSUME TypeOK, NEW l \in Lane, lane[l] # Idle
  PROVE  lane[l] \in Busy /\ lane[l].at \in Stage /\ lane[l].msg \in Message
BY DEF TypeOK, Busy, Idle

\* Every step keeps every variable within its type.
LEMMA TypeStep ==
  ASSUME TypeOK, AttemptsPlaced, [Next]_vars
  PROVE  TypeOK'
<1>. USE RetriesAssumption DEF TypeOK
<1>1. ASSUME NEW t \in Tasks, Publish(t) PROVE TypeOK'
  <2>1. [task |-> t, attempt |-> 0, durable |-> TRUE] \in Message
    BY DEF Message
  <2>2. ready' \in Bag
    BY <1>1, <2>1, PutBag DEF Publish
  <2>. QED
    BY <1>1, <2>2 DEF Publish
<1>2. ASSUME NEW c \in Consumers, Register(c) PROVE TypeOK'
  BY <1>2 DEF Register, queues, history
<1>3. ASSUME NEW c \in Consumers, Disconnect(c) PROVE TypeOK'
  <2>1. ready' \in Bag
    BY <1>3, ReturnedBag DEF Disconnect, LanesOf
  <2>2. lane' \in [Lane -> {Idle} \cup Busy]
    BY <1>3 DEF Disconnect
  <2>3. budget' \in [{"disconnects", "refused", "restarts", "requeues", "purges"} -> Nat]
    BY <1>3 DEF Disconnect, Spend
  <2>. QED
    BY <1>3, <2>1, <2>2, <2>3 DEF Disconnect, history
<1>4. ASSUME NEW l \in Lane, NEW m \in Message, Deliver(l, m) PROVE TypeOK'
  <2>1. ready' \in Bag
    BY <1>4, TakeBag DEF Deliver
  <2>2. lane' \in [Lane -> {Idle} \cup Busy]
    BY <1>4 DEF Deliver, Busy, Stage
  <2>. QED
    BY <1>4, <2>1, <2>2 DEF Deliver, history
<1>5. ASSUME NEW l \in Lane, HandlerOk(l) PROVE TypeOK'
  <2>1. lane[l] # Idle
    BY <1>5 DEF HandlerOk, Idle
  <2>2. lane[l].msg.task \in Tasks
    BY <2>1, BusyLane DEF Message
  <2>3. lane' \in [Lane -> {Idle} \cup Busy]
    BY <1>5, <2>1 DEF HandlerOk, Busy, Stage
  <2>. QED
    BY <1>5, <2>2, <2>3 DEF HandlerOk, queues
<1>6. ASSUME NEW l \in Lane, HandlerFails(l) PROVE TypeOK'
  <2>1. lane[l] # Idle
    BY <1>6 DEF HandlerFails, Idle
  <2>2. lane' \in [Lane -> {Idle} \cup Busy]
    BY <1>6, <2>1 DEF HandlerFails, Busy, Stage
  <2>3. failures' \in [Tasks -> 0..MaxRetries]
    <3>1. \A t \in Tasks : /\ failures[t] \in 0..MaxRetries
                           /\ failures[t] < MaxRetries => failures[t] + 1 \in 0..MaxRetries
      OBVIOUS
    <3>2. failures' = [t \in Tasks |->
                         IF t = lane[l].msg.task
                         THEN IF failures[t] < MaxRetries THEN failures[t] + 1 ELSE failures[t]
                         ELSE failures[t]]
      BY <1>6 DEF HandlerFails
    <3>. QED
      BY <3>1, <3>2
  <2>. QED
    BY <1>6, <2>2, <2>3 DEF HandlerFails, queues
<1>7. ASSUME NEW l \in Lane, Republish(l) PROVE TypeOK'
  <2>1. lane[l] # Idle
    BY <1>7 DEF Republish, AttemptsOf, Idle
  <2>2. lane[l].msg \in Message /\ lane[l].msg.attempt < MaxRetries
    BY <2>1, BusyLane DEF AttemptsPlaced, Holding
  <2>. DEFINE copy == [task |-> lane[l].msg.task, attempt |-> lane[l].msg.attempt + 1,
                       durable |-> TRUE]
  <2>3. copy \in Message
    BY <2>2 DEF Message
  <2>4. retry' \in Bag /\ dlq' \in Bag
    BY <1>7, <2>3, PutBag DEF Republish, AttemptsOf
  <2>5. lane' \in [Lane -> {Idle} \cup Busy]
    BY <1>7, <2>1 DEF Republish, AttemptsOf, Busy, Stage
  <2>. QED
    BY <1>7, <2>4, <2>5 DEF Republish, AttemptsOf, history
<1>8. ASSUME NEW l \in Lane, RepublishRefused(l) PROVE TypeOK'
  <2>1. lost' \in [Tasks -> SUBSET Cause]
    BY <1>8 DEF RepublishRefused, Cause
  <2>2. budget' \in [{"disconnects", "refused", "restarts", "requeues", "purges"} -> Nat]
    BY <1>8 DEF RepublishRefused, Spend
  <2>3. lane' \in [Lane -> {Idle} \cup Busy]
    BY <1>8 DEF RepublishRefused
  <2>. QED
    BY <1>8, <2>1, <2>2, <2>3 DEF RepublishRefused, queues
<1>9. ASSUME NEW l \in Lane, Ack(l) PROVE TypeOK'
  BY <1>9 DEF Ack, queues, history
<1>10. ASSUME NEW m \in Message, Expire(m) PROVE TypeOK'
  <2>1. retry' \in Bag /\ ready' \in Bag
    BY <1>10, TakeBag, PutBag DEF Expire
  <2>. QED
    BY <1>10, <2>1 DEF Expire, history
<1>11. ASSUME NEW m \in Message, RequeuePublish(m) PROVE TypeOK'
  <2>1. [task |-> m.task, attempt |-> 0, durable |-> FALSE] \in Message
    BY DEF Message
  <2>2. hand' \in Bag /\ ready' \in Bag
    BY <1>11, <2>1, TakeBag, PutBag DEF RequeuePublish
  <2>. QED
    BY <1>11, <2>2 DEF RequeuePublish, history
<1>12. ASSUME BrokerRestart PROVE TypeOK'
  <2>1. ASSUME NEW q \in Bag PROVE Surviving(q) \in Bag
    BY DEF Surviving, Bag
  <2>2. ready' \in Bag /\ retry' \in Bag /\ dlq' \in Bag
    <3>1. Returned(ready, Lane) \in Bag
      BY ReturnedBag
    <3>. QED
      BY <1>12, <2>1, <3>1 DEF BrokerRestart
  <2>3. lane' \in [Lane -> {Idle} \cup Busy]
    BY <1>12 DEF BrokerRestart
  <2>4. budget' \in [{"disconnects", "refused", "restarts", "requeues", "purges"} -> Nat]
    BY <1>12 DEF BrokerRestart, Spend
  <2>5. lost' \in [Tasks -> SUBSET Cause]
    BY <1>12 DEF BrokerRestart, Cause
  <2>6. consuming' \in SUBSET Consumers
    BY <1>12 DEF BrokerRestart
  <2>. QED
    BY <1>12, <2>2, <2>3, <2>4, <2>5, <2>6 DEF BrokerRestart
<1>13. ASSUME RequeueTake PROVE TypeOK'
  BY <1>13, EmptyBag DEF RequeueTake, Spend, history
<1>14. ASSUME RequeueRefused PROVE TypeOK'
  <2>1. lost' \in [Tasks -> SUBSET Cause]
    BY <1>14 DEF RequeueRefused, Cause
  <2>. QED
    BY <1>14, <2>1, EmptyBag DEF RequeueRefused, Spend, queues
<1>15. ASSUME NEW name \in {"main", "retry", "dlq"}, PurgeQueue(name) PROVE TypeOK'
  <2>1. lost' \in [Tasks -> SUBSET Cause]
    BY <1>15 DEF PurgeQueue, Cause
  <2>. QED
    BY <1>15, <2>1, EmptyBag DEF PurgeQueue, Spend
<1>16. CASE UNCHANGED vars
  BY <1>16 DEF vars
<1>. QED
  BY <1>1, <1>2, <1>3, <1>4, <1>5, <1>6, <1>7, <1>8, <1>9, <1>10, <1>11, <1>12,
     <1>13, <1>14, <1>15, <1>16 DEF Next

-----------------------------------------------------------------------------
\* The retry ledger: where a message may be, given its attempt header, and
\* how the header relates to the failures its task has had.
AttemptLedger ==
    /\ AttemptsPlaced
    /\ FailureCounted
    /\ HonestAttempts

\* A step that adds no message, puts none in a lane and takes no failure back
\* keeps the ledger.
LEMMA LedgerKept ==
  ASSUME TypeOK, AttemptLedger,
         \A m \in Message :
            /\ (ready'[m] > 0 \/ retry'[m] > 0 \/ Holding(Lane, m)' # {}) =>
                  (ready[m] > 0 \/ retry[m] > 0 \/ Holding(Lane, m) # {})
            /\ (dlq'[m] > 0 \/ hand'[m] > 0) => (dlq[m] > 0 \/ hand[m] > 0),
         \A l \in Lane : lane'[l] = lane[l] \/ lane'[l] = Idle \/ lane'[l].at # "republishing",
         failures' = failures
  PROVE  AttemptLedger'
<1>1. AttemptsPlaced'
  BY DEF AttemptLedger, AttemptsPlaced
<1>2. FailureCounted'
  BY DEF AttemptLedger, FailureCounted
<1>3. \A m \in Message : (Kept(m) \/ Holding(Lane, m) # {}) <=>
          (ready[m] > 0 \/ retry[m] > 0 \/ dlq[m] > 0 \/ hand[m] > 0 \/ Holding(Lane, m) # {})
  BY DEF Kept, Holding
<1>4. \A m \in Message : (Kept(m) \/ Holding(Lane, m) # {})' <=>
          (ready'[m] > 0 \/ retry'[m] > 0 \/ dlq'[m] > 0 \/ hand'[m] > 0 \/ Holding(Lane, m)' # {})
  BY DEF Kept, Holding
<1>5. HonestAttempts'
  BY <1>3, <1>4 DEF AttemptLedger, HonestAttempts
<1>. QED
  BY <1>1, <1>2, <1>5 DEF AttemptLedger

\* Every step keeps the retry ledger.
LEMMA LedgerStep ==
  ASSUME TypeOK, AttemptLedger, [Next]_vars
  PROVE  AttemptLedger'
<1>. USE RetriesAssumption
<1>a. AttemptsPlaced /\ FailureCounted /\ HonestAttempts
  BY DEF AttemptLedger
<1>b. \A m \in Message : m.attempt \in 0..MaxRetries /\ m.task \in Tasks
  BY DEF Message
<1>c. \A t \in Tasks : failures[t] \in 0..MaxRetries
  BY DEF TypeOK
<1>1. ASSUME NEW t \in Tasks, Publish(t) PROVE AttemptLedger'
  <2>0. [task |-> t, attempt |-> 0, durable |-> TRUE] \in Message
    BY DEF Message
  <2>b. PICK new \in Message : new = [task |-> t, attempt |-> 0, durable |-> TRUE]
    BY <2>0
  <2>1. new.attempt < MaxRetries /\ new.attempt <= failures[new.task]
    BY <1>c, <2>b
  <2>a. ready' = Put(ready, new) /\ ready \in Bag
    BY <1>1, <2>b DEF Publish, TypeOK
  <2>2. \A m \in Message : ready'[m] > 0 <=> ready[m] > 0 \/ m = new
    BY <2>a, PutBag
  <2>3. AttemptsPlaced'
    BY <1>1, <1>a, <2>1, <2>2 DEF AttemptsPlaced, Publish, Holding
  <2>4. FailureCounted'
    BY <1>1, <1>a DEF FailureCounted, Publish
  <2>5. HonestAttempts'
    BY <1>1, <1>a, <2>1, <2>2 DEF HonestAttempts, Publish, Kept, Holding
  <2>. QED
    BY <2>3, <2>4, <2>5 DEF AttemptLedger
<1>2. ASSUME NEW c \in Consumers, Register(c) PROVE AttemptLedger'
  BY <1>2, LedgerKept DEF Register, queues, history, Holding
<1>3. ASSUME NEW c \in Consumers, Disconnect(c) PROVE AttemptLedger'
  <2>1. \A m \in Message : ready'[m] > 0 => ready[m] > 0 \/ Holding(Lane, m) # {}
    BY <1>3, ReturnedBag DEF Disconnect, TypeOK, LanesOf, Holding
  <2>2. \A l \in Lane : lane'[l] = lane[l] \/ lane'[l] = Idle
    BY <1>3 DEF Disconnect
  <2>3. \A m \in Message : Holding(Lane, m)' # {} => Holding(Lane, m) # {}
    BY <2>2 DEF Holding
  <2>. QED
    BY <1>3, <2>1, <2>2, <2>3, LedgerKept DEF Disconnect, history
<1>4. ASSUME NEW l \in Lane, NEW m \in Message, Deliver(l, m) PROVE AttemptLedger'
  <2>1. \A n \in Message : ready'[n] > 0 => ready[n] > 0
    BY <1>4, TakeBag DEF Deliver, TypeOK
  <2>2. lane' = [lane EXCEPT ![l] = [at |-> "handling", msg |-> m]]
    BY <1>4 DEF Deliver
  <2>3. \A n \in Message : Holding(Lane, n)' # {} => Holding(Lane, n) # {} \/ n = m
    BY <2>2 DEF Holding, TypeOK
  <2>4. \A k \in Lane : lane'[k] = lane[k] \/ lane'[k].at # "republishing"
    BY <2>2 DEF TypeOK
  <2>. QED
    BY <1>4, <2>1, <2>3, <2>4, LedgerKept DEF Deliver, history
<1>5. ASSUME NEW l \in Lane, HandlerOk(l) \/ Ack(l) PROVE AttemptLedger'
  <2>1. /\ lane[l] # Idle
        /\ lane' = [lane EXCEPT ![l].at = "acking"] \/ lane' = [lane EXCEPT ![l] = Idle]
    BY <1>5 DEF HandlerOk, Ack, Idle
  <2>2. lane[l] \in Busy
    BY <2>1, BusyLane
  <2>3. \A n \in Message : Holding(Lane, n)' # {} => Holding(Lane, n) # {}
    BY <2>1, <2>2 DEF Holding, TypeOK, Busy, Idle
  <2>4. \A k \in Lane : lane'[k] = lane[k] \/ lane'[k] = Idle \/ lane'[k].at # "republishing"
    BY <2>1, <2>2 DEF TypeOK, Busy, Idle
  <2>. QED
    BY <1>5, <2>3, <2>4, LedgerKept DEF HandlerOk, Ack, history, queues
<1>6. ASSUME NEW l \in Lane, HandlerFails(l) PROVE AttemptLedger'
  <2>1. lane[l] # Idle /\ lane' = [lane EXCEPT ![l].at = "republishing"]
    BY <1>6 DEF HandlerFails, Idle
  <2>2. lane[l] \in Busy /\ lane[l].msg \in Message
    BY <2>1, BusyLane
  <2>3. \A n \in Message : Holding(Lane, n)' # {} <=> Holding(Lane, n) # {}
    BY <2>1, <2>2 DEF Holding, TypeOK, Busy, Idle
  <2>4. lane[l].msg.attempt < MaxRetries /\ lane[l].msg.attempt <= failures[lane[l].msg.task]
    BY <1>a, <2>1, <2>2 DEF AttemptsPlaced, HonestAttempts, Holding
  <2>5. \A t \in Tasks : failures'[t] >= failures[t] /\ failures'[t] \in 0..MaxRetries
    <3>1. failures' = [t \in Tasks |->
                         IF t = lane[l].msg.task
                         THEN IF failures[t] < MaxRetries THEN failures[t] + 1 ELSE failures[t]
                         ELSE failures[t]]
      BY <1>6 DEF HandlerFails, TypeOK
    <3>. QED
      BY <1>c, <3>1
  <2>6. lane[l].msg.attempt < failures'[lane[l].msg.task]
    <3>1. lane[l].msg.task \in Tasks /\ lane[l].msg.attempt \in Nat
      BY <2>2 DEF Message
    <3>2. failures'[lane[l].msg.task] = IF failures[lane[l].msg.task] < MaxRetries
                                       THEN failures[lane[l].msg.task] + 1
                                       ELSE failures[lane[l].msg.task]
      BY <1>6, <3>1 DEF HandlerFails, TypeOK
    <3>. QED
      BY <1>c, <2>4, <3>1, <3>2
  <2>7. AttemptsPlaced'
    BY <1>6, <1>a, <2>3 DEF HandlerFails, AttemptsPlaced, queues
  <2>8. FailureCounted'
    <3>1. ASSUME NEW k \in Lane, lane'[k] # Idle, lane'[k].at = "republishing", k # l
          PROVE  lane'[k].msg.attempt < failures'[lane'[k].msg.task]
      <4>1. lane'[k] = lane[k]
        BY <2>1, <3>1
      <4>2. lane[k].msg \in Message
        BY <3>1, <4>1, BusyLane
      <4>. QED
        BY <1>a, <1>b, <1>c, <2>5, <3>1, <4>1, <4>2 DEF FailureCounted
    <3>2. lane'[l].msg = lane[l].msg
      BY <2>1, <2>2 DEF TypeOK, Busy
    <3>. QED
      BY <2>6, <3>1, <3>2 DEF FailureCounted
  <2>9. HonestAttempts'
    <3>1. \A n \in Message : (Kept(n) \/ Holding(Lane, n) # {})' =>
                                 (Kept(n) \/ Holding(Lane, n) # {})
      BY <1>6, <2>3 DEF Kept, Holding, HandlerFails, queues
    <3>. QED
      BY <1>a, <1>b, <1>c, <2>5, <3>1 DEF HonestAttempts
  <2>. QED
    BY <2>7, <2>8, <2>9 DEF AttemptLedger
<1>7. ASSUME NEW l \in Lane, Republish(l) PROVE AttemptLedger'
  <2>1. lane[l] # Idle /\ lane[l].at = "republishing" /\ lane' = [lane EXCEPT ![l].at = "acking"]
    BY <1>7 DEF Republish, AttemptsOf, Idle
  <2>2. lane[l] \in Busy /\ lane[l].msg \in Message
    BY <2>1, BusyLane
  <2>3. lane[l].msg.attempt < MaxRetries /\ lane[l].msg.attempt < failures[lane[l].msg.task]
    BY <1>a, <2>1, <2>2 DEF AttemptsPlaced, FailureCounted, Holding
  <2>4. [task |-> lane[l].msg.task, attempt |-> lane[l].msg.attempt + 1,
         durable |-> TRUE] \in Message
    BY <1>b, <2>2, <2>3 DEF Message
  <2>b. PICK copy \in Message :
          copy = [task |-> lane[l].msg.task, attempt |-> lane[l].msg.attempt + 1,
                  durable |-> TRUE]
    BY <2>4
  <2>a. copy.attempt = lane[l].msg.attempt + 1 /\ copy.attempt <= failures[copy.task]
    BY <1>b, <1>c, <2>2, <2>3, <2>b
  <2>5. \A n \in Message : Holding(Lane, n)' # {} => Holding(Lane, n) # {}
    BY <2>1, <2>2 DEF Holding, TypeOK, Busy, Idle
  <2>6. \A k \in Lane : lane'[k] = lane[k] \/ lane'[k].at # "republishing"
    BY <2>1, <2>2 DEF TypeOK, Busy, Idle
  <2>7. FailureCounted'
    BY <1>7, <1>a, <2>6 DEF FailureCounted, Republish, AttemptsOf, history
  <2>8. CASE NextAction(copy.attempt) = "retry"
    <3>1. copy.attempt < MaxRetries
      BY <2>8 DEF NextAction
    <3>2. retry' = Put(retry, copy) /\ UNCHANGED <<ready, dlq, hand, failures>>
      BY <1>7, <2>8, <2>b DEF Republish, AttemptsOf, history
    <3>3. \A m \in Message : retry'[m] > 0 <=> retry[m] > 0 \/ m = copy
      BY <3>2, PutBag DEF TypeOK
    <3>4. AttemptsPlaced'
      BY <1>a, <2>5, <3>1, <3>2, <3>3 DEF AttemptsPlaced
    <3>5. HonestAttempts'
      BY <1>a, <2>a, <2>5, <3>2, <3>3 DEF HonestAttempts, Kept, Holding
    <3>. QED
      BY <2>7, <3>4, <3>5 DEF AttemptLedger
  <2>9. CASE NextAction(copy.attempt) = "dlq"
    <3>1. copy.attempt = MaxRetries
      BY <1>b, <2>a, <2>3, <2>2, <2>9 DEF NextAction
    <3>2. dlq' = Put(dlq, copy) /\ UNCHANGED <<ready, retry, hand, failures>>
      BY <1>7, <2>9, <2>b DEF Republish, AttemptsOf, history
    <3>3. \A m \in Message : dlq'[m] > 0 <=> dlq[m] > 0 \/ m = copy
      BY <3>2, PutBag DEF TypeOK
    <3>4. AttemptsPlaced'
      BY <1>a, <2>5, <3>1, <3>2, <3>3 DEF AttemptsPlaced
    <3>5. HonestAttempts'
      BY <1>a, <2>a, <2>5, <3>2, <3>3 DEF HonestAttempts, Kept, Holding
    <3>. QED
      BY <2>7, <3>4, <3>5 DEF AttemptLedger
  <2>. QED
    BY <2>8, <2>9 DEF NextAction
<1>8. ASSUME NEW l \in Lane, RepublishRefused(l) PROVE AttemptLedger'
  <2>1. lane' = [lane EXCEPT ![l] = Idle]
    BY <1>8 DEF RepublishRefused
  <2>2. \A k \in Lane : lane'[k] = lane[k] \/ lane'[k] = Idle
    BY <2>1
  <2>3. \A n \in Message : Holding(Lane, n)' # {} => Holding(Lane, n) # {}
    BY <2>2 DEF Holding
  <2>. QED
    BY <1>8, <2>2, <2>3, LedgerKept DEF RepublishRefused, queues
<1>9. ASSUME NEW m \in Message, Expire(m) PROVE AttemptLedger'
  <2>1. \A n \in Message : /\ retry'[n] > 0 => retry[n] > 0
                           /\ ready'[n] > 0 => ready[n] > 0 \/ retry[n] > 0
    BY <1>9, TakeBag, PutBag DEF Expire, TypeOK
  <2>. QED
    BY <1>9, <2>1, LedgerKept DEF Expire, history, Holding
<1>10. ASSUME NEW m \in Message, RequeuePublish(m) PROVE AttemptLedger'
  <2>. DEFINE new == [task |-> m.task, attempt |-> 0, durable |-> FALSE]
  <2>1. new \in Message /\ new.attempt < MaxRetries /\ new.attempt <= failures[new.task]
    BY <1>b, <1>c DEF Message
  <2>2. \A n \in Message : /\ ready'[n] > 0 <=> ready[n] > 0 \/ n = new
                           /\ hand'[n] > 0 => hand[n] > 0
    <3>1. ready' = Put(ready, new) /\ hand' = Take(hand, m) /\ hand[m] > 0
      BY <1>10 DEF RequeuePublish
    <3>. HIDE DEF new
    <3>. QED
      BY <2>1, <3>1, PutBag, TakeBag DEF TypeOK
  <2>3. AttemptsPlaced'
    BY <1>10, <1>a, <2>1, <2>2 DEF AttemptsPlaced, RequeuePublish, Holding
  <2>4. FailureCounted'
    BY <1>10, <1>a DEF FailureCounted, RequeuePublish, history
  <2>5. HonestAttempts'
    BY <1>10, <1>a, <2>1, <2>2 DEF HonestAttempts, RequeuePublish, Kept, Holding, history
  <2>. QED
    BY <2>3, <2>4, <2>5 DEF AttemptLedger
<1>11. ASSUME BrokerRestart PROVE AttemptLedger'
  <2>1. \A q \in Bag : \A m \in Message : Surviving(q)[m] > 0 => q[m] > 0
    BY DEF Surviving, Bag
  <2>2. Returned(ready, Lane) \in Bag
    BY ReturnedBag DEF TypeOK
  <2>3. \A m \in Message : ready'[m] > 0 => ready[m] > 0 \/ Holding(Lane, m) # {}
    BY <1>11, <2>1, <2>2, ReturnedBag DEF BrokerRestart, TypeOK
  <2>4. \A m \in Message : (retry'[m] > 0 => retry[m] > 0) /\ (dlq'[m] > 0 => dlq[m] > 0)
    BY <1>11, <2>1 DEF BrokerRestart, TypeOK
  <2>5. \A l \in Lane : lane'[l] = Idle
    BY <1>11 DEF BrokerRestart
  <2>6. \A m \in Message : Holding(Lane, m)' = {}
    BY <2>5 DEF Holding
  <2>. QED
    BY <1>11, <2>3, <2>4, <2>5, <2>6, LedgerKept DEF BrokerRestart
<1>12. ASSUME RequeueTake PROVE AttemptLedger'
  <2>1. \A m \in Message : dlq'[m] = 0 /\ hand'[m] = dlq[m]
    BY <1>12, EmptyBag DEF RequeueTake
  <2>. QED
    BY <1>12, <2>1, LedgerKept DEF RequeueTake, history, Holding
<1>13. ASSUME RequeueRefused PROVE AttemptLedger'
  <2>1. \A m \in Message : hand'[m] = 0
    BY <1>13, EmptyBag DEF RequeueRefused
  <2>. QED
    BY <1>13, <2>1, LedgerKept DEF RequeueRefused, queues, Holding
<1>14. ASSUME NEW name \in {"main", "retry", "dlq"}, PurgeQueue(name) PROVE AttemptLedger'
  <2>1. \A m \in Message : /\ ready'[m] > 0 => ready[m] > 0
                           /\ retry'[m] > 0 => retry[m] > 0
                           /\ dlq'[m] > 0 => dlq[m] > 0
    BY <1>14, EmptyBag DEF PurgeQueue
  <2>. QED
    BY <1>14, <2>1, LedgerKept DEF PurgeQueue, Holding
<1>15. CASE UNCHANGED vars
  BY <1>15, LedgerKept DEF vars, Holding
<1>. QED
  BY <1>1, <1>2, <1>3, <1>4, <1>5, <1>6, <1>7, <1>8, <1>9, <1>10, <1>11, <1>12,
     <1>13, <1>14, <1>15 DEF Next

-----------------------------------------------------------------------------
\* A task is accounted for when it is finished, in the system, or lost to a cause.
Accounted(t) == t \in completed \/ InSystem(t) \/ lost[t] # {}

\* A step that publishes nothing, and after which every kept message is still
\* kept or its task accounted for, lets no task vanish.
LEMMA NothingVanished ==
  ASSUME NoTaskVanishes,
         published' = published,
         completed \subseteq completed',
         \A t \in Tasks : lost[t] # {} => lost'[t] # {},
         \A m \in Message : Kept(m) => Kept(m)' \/ Accounted(m.task)'
  PROVE  NoTaskVanishes'
BY DEF NoTaskVanishes, InSystem, Accounted

\* The kept copies of the next state, by where they are.
LEMMA KeptNext ==
  ASSUME NEW m \in Message
  PROVE  Kept(m)' <=> \/ ready'[m] > 0
                      \/ retry'[m] > 0
                      \/ dlq'[m] > 0
                      \/ hand'[m] > 0
                      \/ \E l \in Lane : /\ lane'[l] # Idle
                                         /\ lane'[l].msg = m
                                         /\ lane'[l].at # "acking"
BY DEF Kept

\* Every step keeps every task accounted for.
LEMMA VanishStep ==
  ASSUME TypeOK, AttemptLedger, NoTaskVanishes, [Next]_vars
  PROVE  NoTaskVanishes'
<1>. USE RetriesAssumption
<1>a. \A m \in Message : m.attempt \in 0..MaxRetries /\ m.task \in Tasks
  BY DEF Message
<1>1. ASSUME NEW t \in Tasks, Publish(t) PROVE NoTaskVanishes'
  <2>0. [task |-> t, attempt |-> 0, durable |-> TRUE] \in Message
    BY DEF Message
  <2>1. PICK new \in Message : new = [task |-> t, attempt |-> 0, durable |-> TRUE]
    BY <2>0
  <2>a. ready' = Put(ready, new) /\ ready \in Bag
    BY <1>1, <2>1 DEF Publish, TypeOK
  <2>2. \A m \in Message : ready'[m] > 0 <=> ready[m] > 0 \/ m = new
    BY <2>a, PutBag
  <2>3. \A m \in Message : Kept(m) \/ m = new => Kept(m)'
    BY <1>1, <2>2 DEF Publish, Kept
  <2>4. \A u \in Tasks : published'[u] > 0 => published[u] > 0 \/ u = t
    BY <1>1 DEF Publish, TypeOK
  <2>5. InSystem(t)'
    BY <2>1, <2>3 DEF InSystem
  <2>. QED
    BY <1>1, <2>3, <2>4, <2>5 DEF Publish, NoTaskVanishes, InSystem
<1>2. ASSUME NEW c \in Consumers, Register(c) PROVE NoTaskVanishes'
  BY <1>2, NothingVanished DEF Register, queues, history, Kept
<1>3. ASSUME NEW c \in Consumers, Disconnect(c) PROVE NoTaskVanishes'
  <2>1. /\ LanesOf(c) \in SUBSET Lane
        /\ ready' = Returned(ready, LanesOf(c))
        /\ lane' = [l \in Lane |-> IF l[1] = c THEN Idle ELSE lane[l]]
        /\ UNCHANGED <<retry, dlq, hand, published, completed, lost>>
    BY <1>3 DEF Disconnect, LanesOf, history
  <2>2. \A m \in Message : ready'[m] > 0 <=> ready[m] > 0 \/ Holding(LanesOf(c), m) # {}
    BY <2>1, ReturnedBag DEF TypeOK
  <2>3. ASSUME NEW m \in Message, Kept(m) PROVE Kept(m)'
    <3>1. CASE \E l \in Lane : lane[l] # Idle /\ lane[l].msg = m /\ lane[l].at # "acking"
      <4>1. PICK l \in Lane : lane[l] # Idle /\ lane[l].msg = m /\ lane[l].at # "acking"
        BY <3>1
      <4>2. CASE l[1] = c
        BY <2>2, <4>1, <4>2, KeptNext DEF Holding, LanesOf
      <4>3. CASE l[1] # c
        BY <2>1, <4>1, <4>3, KeptNext
      <4>. QED
        BY <4>2, <4>3
    <3>2. CASE ready[m] > 0 \/ retry[m] > 0 \/ dlq[m] > 0 \/ hand[m] > 0
      BY <2>1, <2>2, <3>2, KeptNext
    <3>. QED
      BY <2>3, <3>1, <3>2 DEF Kept
  <2>. QED
    BY <2>1, <2>3, NothingVanished
<1>4. ASSUME NEW l \in Lane, NEW m \in Message, Deliver(l, m) PROVE NoTaskVanishes'
  <2>1. /\ lane' = [lane EXCEPT ![l] = [at |-> "handling", msg |-> m]]
        /\ lane[l] = Idle
        /\ UNCHANGED <<retry, dlq, hand, published, completed, lost>>
    BY <1>4 DEF Deliver, history
  <2>2. \A n \in Message : n # m => ready'[n] = ready[n]
    BY <1>4, TakeBag DEF Deliver, TypeOK
  <2>3. Kept(m)'
    <3>1. lane'[l] = [at |-> "handling", msg |-> m]
      BY <2>1 DEF TypeOK
    <3>2. lane'[l] # Idle /\ lane'[l].msg = m /\ lane'[l].at # "acking"
      BY <3>1 DEF Idle
    <3>. QED
      BY <3>2, KeptNext
  <2>4. ASSUME NEW n \in Message, Kept(n), n # m PROVE Kept(n)'
    <3>1. \A k \in Lane : lane[k] # Idle => lane'[k] = lane[k]
      BY <2>1
    <3>. QED
      BY <2>1, <2>2, <2>4, <3>1, KeptNext DEF Kept
  <2>. QED
    BY <2>1, <2>3, <2>4, NothingVanished
<1>5. ASSUME NEW l \in Lane, HandlerOk(l) PROVE NoTaskVanishes'
  <2>1. /\ lane[l] # Idle
        /\ lane' = [lane EXCEPT ![l].at = "acking"]
        /\ completed' = completed \cup {lane[l].msg.task}
        /\ UNCHANGED <<ready, retry, dlq, hand, published, lost>>
    BY <1>5 DEF HandlerOk, Idle, queues
  <2>2. \A k \in Lane : k # l => lane'[k] = lane[k]
    BY <2>1
  <2>3. ASSUME NEW m \in Message, Kept(m) PROVE Kept(m)' \/ Accounted(m.task)'
    BY <2>1, <2>2, <2>3, KeptNext DEF Kept, Accounted
  <2>. QED
    BY <2>1, <2>3, NothingVanished
<1>6. ASSUME NEW l \in Lane, HandlerFails(l) PROVE NoTaskVanishes'
  <2>1. /\ lane[l] # Idle
        /\ lane' = [lane EXCEPT ![l].at = "republishing"]
        /\ UNCHANGED <<ready, retry, dlq, hand, published, completed, lost>>
    BY <1>6 DEF HandlerFails, Idle, queues
  <2>2. /\ \A k \in Lane : k # l => lane'[k] = lane[k]
        /\ lane'[l].msg = lane[l].msg /\ lane'[l].at = "republishing" /\ lane'[l] # Idle
    BY <2>1, BusyLane DEF TypeOK, Busy, Idle
  <2>3. ASSUME NEW m \in Message, Kept(m) PROVE Kept(m)'
    BY <2>1, <2>2, <2>3, KeptNext DEF Kept
  <2>. QED
    BY <2>1, <2>3, NothingVanished
<1>7. ASSUME NEW l \in Lane, Republish(l) PROVE NoTaskVanishes'
  <2>1. /\ lane[l] # Idle
        /\ lane' = [lane EXCEPT ![l].at = "acking"]
        /\ UNCHANGED <<ready, hand, published, completed, lost>>
    BY <1>7 DEF Republish, AttemptsOf, Idle, history
  <2>2. lane[l].msg \in Message /\ lane[l].msg.attempt < MaxRetries
    BY <2>1, BusyLane DEF AttemptLedger, AttemptsPlaced, Holding
  <2>3. PICK copy \in Message :
           copy = [task |-> lane[l].msg.task, attempt |-> lane[l].msg.attempt + 1, durable |-> TRUE]
    <3>1. /\ lane[l].msg.task \in Tasks
          /\ lane[l].msg.attempt + 1 \in 0..MaxRetries
      BY <1>a, <2>2, RetriesAssumption DEF Message
    <3>2. [task |-> lane[l].msg.task, attempt |-> lane[l].msg.attempt + 1, durable |-> TRUE] \in Message
      BY <3>1 DEF Message
    <3>. QED
      BY <3>2
  <2>4. \/ retry' = Put(retry, copy) /\ UNCHANGED dlq
        \/ dlq' = Put(dlq, copy) /\ UNCHANGED retry
    BY <1>7, <2>3 DEF Republish, AttemptsOf
  <2>5. \A m \in Message : /\ retry[m] > 0 => retry'[m] > 0
                           /\ dlq[m] > 0 => dlq'[m] > 0
    BY <2>4, PutBag DEF TypeOK
  <2>6. retry'[copy] > 0 \/ dlq'[copy] > 0
    BY <2>4, PutBag DEF TypeOK
  <2>7. \A m \in Message : m = lane[l].msg => InSystem(m.task)'
    <3>1. Kept(copy)'
      BY <2>6, KeptNext
    <3>2. copy.task = lane[l].msg.task
      BY <2>3
    <3>. QED
      BY <3>1, <3>2 DEF InSystem
  <2>8. \A k \in Lane : k # l => lane'[k] = lane[k]
    BY <2>1
  <2>9. ASSUME NEW m \in Message, Kept(m) PROVE Kept(m)' \/ Accounted(m.task)'
    BY <2>1, <2>5, <2>7, <2>8, <2>9, KeptNext DEF Kept, Accounted
  <2>. QED
    BY <2>1, <2>9, NothingVanished
<1>8. ASSUME NEW l \in Lane, RepublishRefused(l) PROVE NoTaskVanishes'
  <2>1. /\ lane[l] # Idle
        /\ lane' = [lane EXCEPT ![l] = Idle]
        /\ lost' = [lost EXCEPT ![lane[l].msg.task] = @ \cup {"republish_refused"}]
        /\ UNCHANGED <<ready, retry, dlq, hand, published, completed>>
    BY <1>8 DEF RepublishRefused, Idle, queues
  <2>2. lane[l].msg.task \in Tasks
    BY <1>a, <2>1, BusyLane
  <2>3. lost'[lane[l].msg.task] # {} /\ \A t \in Tasks : lost[t] # {} => lost'[t] # {}
    BY <2>1, <2>2 DEF TypeOK
  <2>4. \A k \in Lane : k # l => lane'[k] = lane[k]
    BY <2>1
  <2>5. ASSUME NEW m \in Message, Kept(m) PROVE Kept(m)' \/ Accounted(m.task)'
    BY <2>1, <2>3, <2>4, <2>5, KeptNext DEF Kept, Accounted
  <2>. QED
    BY <2>1, <2>3, <2>5, NothingVanished
<1>9. ASSUME NEW l \in Lane, Ack(l) PROVE NoTaskVanishes'
  <2>1. /\ lane[l].at = "acking"
        /\ lane' = [lane EXCEPT ![l] = Idle]
        /\ UNCHANGED <<ready, retry, dlq, hand, published, completed, lost>>
    BY <1>9 DEF Ack, queues, history
  <2>2. \A k \in Lane : k # l => lane'[k] = lane[k]
    BY <2>1
  <2>3. ASSUME NEW m \in Message, Kept(m) PROVE Kept(m)'
    BY <2>1, <2>2, <2>3, KeptNext DEF Kept
  <2>. QED
    BY <2>1, <2>3, NothingVanished
<1>10. ASSUME NEW m \in Message, Expire(m) PROVE NoTaskVanishes'
  <2>1. \A n \in Message : /\ n # m => retry'[n] = retry[n]
                           /\ ready[n] > 0 \/ n = m => ready'[n] > 0
    BY <1>10, TakeBag, PutBag DEF Expire, TypeOK
  <2>2. ASSUME NEW n \in Message, Kept(n) PROVE Kept(n)'
    BY <1>10, <2>1, <2>2, KeptNext DEF Kept, Expire
  <2>. QED
    BY <1>10, <2>2, NothingVanished DEF Expire, history
<1>11. ASSUME NEW m \in Message, RequeuePublish(m) PROVE NoTaskVanishes'
  <2>. DEFINE new == [task |-> m.task, attempt |-> 0, durable |-> FALSE]
  <2>1. new \in Message /\ new.task = m.task
    BY <1>a DEF Message
  <2>2. ready' = Put(ready, new) /\ hand' = Take(hand, m) /\ hand[m] > 0
    BY <1>11 DEF RequeuePublish
  <2>3. UNCHANGED <<retry, dlq, lane, published, completed, lost>>
    BY <1>11 DEF RequeuePublish, history
  <2>. HIDE DEF new
  <2>4. \A n \in Message : /\ n # m => hand'[n] = hand[n]
                           /\ ready[n] > 0 \/ n = new => ready'[n] > 0
    BY <2>1, <2>2, TakeBag, PutBag DEF TypeOK
  <2>5. InSystem(m.task)'
    <3>1. Kept(new)'
      BY <2>1, <2>4, KeptNext
    <3>. QED
      BY <2>1, <3>1 DEF InSystem
  <2>6. ASSUME NEW n \in Message, Kept(n) PROVE Kept(n)' \/ Accounted(n.task)'
    BY <2>3, <2>4, <2>5, <2>6, KeptNext DEF Kept, Accounted
  <2>. QED
    BY <2>3, <2>6, NothingVanished
<1>12. ASSUME BrokerRestart PROVE NoTaskVanishes'
  <2>1. /\ ready' = Surviving(Returned(ready, Lane))
        /\ retry' = Surviving(retry)
        /\ dlq' = Surviving(dlq)
        /\ UNCHANGED <<hand, published, completed>>
    BY <1>12 DEF BrokerRestart
  <2>2. Returned(ready, Lane) \in Bag /\
        \A m \in Message : Returned(ready, Lane)[m] > 0 <=> ready[m] > 0 \/ Holding(Lane, m) # {}
    BY ReturnedBag DEF TypeOK
  <2>3. \A t \in Tasks : lost[t] # {} => lost'[t] # {}
    BY <1>12 DEF BrokerRestart
  <2>4. ASSUME NEW m \in Message, Kept(m) PROVE Kept(m)' \/ Accounted(m.task)'
    <3>1. Kept(m) => ready[m] > 0 \/ retry[m] > 0 \/ dlq[m] > 0 \/ hand[m] > 0
                       \/ Holding(Lane, m) # {}
      BY DEF Kept, Holding
    <3>2. CASE hand[m] > 0
      BY <2>1, <3>2, KeptNext
    <3>3. CASE m.durable /\ ~(hand[m] > 0)
      <4>1. /\ ready'[m] = Returned(ready, Lane)[m]
            /\ retry'[m] = retry[m]
            /\ dlq'[m] = dlq[m]
        BY <2>1, <3>3 DEF Surviving
      <4>. QED
        BY <2>2, <2>4, <3>1, <3>3, <4>1, KeptNext
    <3>4. CASE ~m.durable /\ ~(hand[m] > 0)
      <4>1. \E n \in Message :
                 /\ n.task = m.task
                 /\ ~n.durable
                 /\ ready[n] > 0 \/ retry[n] > 0 \/ dlq[n] > 0 \/ Holding(Lane, n) # {}
        BY <2>4, <3>1, <3>4
      <4>2. m.task \in Tasks
        BY <1>a
      <4>3. lost'[m.task] = lost[m.task] \cup {"broker_restart"}
        BY <1>12, <4>1, <4>2 DEF BrokerRestart
      <4>. QED
        BY <4>3 DEF Accounted
    <3>. QED
      BY <3>2, <3>3, <3>4 DEF Message
  <2>. QED
    BY <2>1, <2>3, <2>4, NothingVanished
<1>13. ASSUME RequeueTake PROVE NoTaskVanishes'
  <2>1. \A m \in Message : hand[m] = 0 /\ hand'[m] = dlq[m]
    BY <1>13, EmptyBag DEF RequeueTake
  <2>2. ASSUME NEW m \in Message, Kept(m) PROVE Kept(m)'
    BY <1>13, <2>1, <2>2, KeptNext DEF Kept, RequeueTake
  <2>. QED
    BY <1>13, <2>2, NothingVanished DEF RequeueTake, history
<1>14. ASSUME RequeueRefused PROVE NoTaskVanishes'
  <2>1. \A t \in Tasks : lost[t] # {} => lost'[t] # {}
    BY <1>14 DEF RequeueRefused
  <2>2. \A m \in Message : hand[m] > 0 => lost'[m.task] # {}
    <3>1. \A t \in Tasks : (\E m \in Message : m.task = t /\ hand[m] > 0) =>
                              lost'[t] = lost[t] \cup {"requeue_refused"}
      BY <1>14 DEF RequeueRefused
    <3>. QED
      BY <1>a, <3>1
  <2>3. ASSUME NEW m \in Message, Kept(m) PROVE Kept(m)' \/ Accounted(m.task)'
    BY <1>14, <2>2, <2>3, KeptNext DEF Kept, RequeueRefused, queues, Accounted
  <2>. QED
    BY <1>14, <2>1, <2>3, NothingVanished DEF RequeueRefused
<1>15. ASSUME NEW name \in {"main", "retry", "dlq"}, PurgeQueue(name) PROVE NoTaskVanishes'
  <2>. DEFINE q == CASE name = "main" -> ready [] name = "retry" -> retry [] name = "dlq" -> dlq
  <2>1. \A t \in Tasks : lost[t] # {} => lost'[t] # {}
    BY <1>15 DEF PurgeQueue
  <2>2. \A m \in Message : q[m] > 0 => lost'[m.task] # {}
    <3>1. \A t \in Tasks : (\E m \in Message : m.task = t /\ q[m] > 0) =>
                              lost'[t] = lost[t] \cup {"purged"}
      BY <1>15 DEF PurgeQueue
    <3>. HIDE DEF q
    <3>. QED
      BY <1>a, <3>1
  <2>3. \A m \in Message : /\ ready[m] > 0 => ready'[m] > 0 \/ q[m] > 0
                           /\ retry[m] > 0 => retry'[m] > 0 \/ q[m] > 0
                           /\ dlq[m] > 0 => dlq'[m] > 0 \/ q[m] > 0
    BY <1>15 DEF PurgeQueue
  <2>4. UNCHANGED <<hand, lane, published, completed>>
    BY <1>15 DEF PurgeQueue
  <2>. HIDE DEF q
  <2>5. ASSUME NEW m \in Message, Kept(m) PROVE Kept(m)' \/ Accounted(m.task)'
    BY <2>2, <2>3, <2>4, <2>5, KeptNext DEF Kept, Accounted
  <2>. QED
    BY <2>1, <2>4, <2>5, NothingVanished
<1>16. CASE UNCHANGED vars
  BY <1>16, NothingVanished DEF vars, Kept
<1>. QED
  BY <1>1, <1>2, <1>3, <1>4, <1>5, <1>6, <1>7, <1>8, <1>9, <1>10, <1>11, <1>12,
     <1>13, <1>14, <1>15, <1>16 DEF Next

-----------------------------------------------------------------------------
\* The inductive invariant.
DeliveryInv == TypeOK /\ AttemptLedger /\ NoTaskVanishes

\* It holds initially: nothing is published and every queue and lane is empty.
LEMMA DeliveryInit == Init => DeliveryInv
<1>. SUFFICES ASSUME Init PROVE DeliveryInv
  OBVIOUS
<1>. USE RetriesAssumption, BoundsAssumption DEF Init
<1>1. TypeOK
  BY EmptyBag DEF TypeOK, Cause
<1>2. \A m \in Message : Holding(Lane, m) = {} /\ Empty[m] = 0
  BY EmptyBag DEF Holding
<1>3. AttemptLedger
  BY <1>2 DEF AttemptLedger, AttemptsPlaced, FailureCounted, HonestAttempts, Kept
<1>4. NoTaskVanishes
  BY DEF NoTaskVanishes
<1>. QED
  BY <1>1, <1>3, <1>4 DEF DeliveryInv

\* The inductive invariant of the delivery.
LEMMA DeliveryInvariant == Spec => []DeliveryInv
<1>1. DeliveryInv /\ [Next]_vars => DeliveryInv'
  BY TypeStep, LedgerStep, VanishStep DEF DeliveryInv, AttemptLedger
<1>. QED
  BY <1>1, DeliveryInit, PTL DEF Spec

\* Every variable of a queue keeps its type (type correctness).
THEOREM DeliveryTypes == Spec => []TypeOK
<1>1. DeliveryInv => TypeOK
  BY DEF DeliveryInv
<1>. QED
  BY <1>1, DeliveryInvariant, PTL

\* No published task disappears from the main, retry and dead-letter queues
\* and the workers' lanes, but for one of the four named causes.
THEOREM NoLostTask == Spec => []NoTaskVanishes
<1>1. DeliveryInv => NoTaskVanishes
  BY DEF DeliveryInv
<1>. QED
  BY <1>1, DeliveryInvariant, PTL

\* The x-attempt header never claims more failures than the task has had.
THEOREM HeadersAreHonest == Spec => []HonestAttempts
<1>1. DeliveryInv => HonestAttempts
  BY DEF DeliveryInv, AttemptLedger
<1>. QED
  BY <1>1, DeliveryInvariant, PTL

\* Only a task whose handler failed MaxRetries times is ever dead-lettered.
THEOREM OnlyExhaustedDead == Spec => []DeadLettersAreExhausted
<1>1. DeliveryInv => DeadLettersAreExhausted
  <2>. SUFFICES ASSUME DeliveryInv, NEW m \in Message, dlq[m] > 0
                PROVE  failures[m.task] = MaxRetries
    BY DEF DeadLettersAreExhausted
  <2>1. m.attempt = MaxRetries
    BY DEF DeliveryInv, AttemptLedger, AttemptsPlaced
  <2>2. m.attempt <= failures[m.task]
    BY DEF DeliveryInv, AttemptLedger, HonestAttempts, Kept
  <2>3. failures[m.task] \in 0..MaxRetries
    BY DEF DeliveryInv, TypeOK, Message
  <2>. QED
    BY <2>1, <2>2, <2>3, RetriesAssumption
<1>. QED
  BY <1>1, DeliveryInvariant, PTL

-----------------------------------------------------------------------------
(* TaskDelivery implements TaskPromise. *)

\* What OnlyPublished asks of one message.
Present(m) == Kept(m) \/ Holding(Lane, m) # {}

\* Where a message may be, now and after a step.
LEMMA PresentNow ==
  ASSUME NEW m \in Message
  PROVE  /\ Present(m) <=> \/ ready[m] > 0 \/ retry[m] > 0 \/ dlq[m] > 0 \/ hand[m] > 0
                           \/ Holding(Lane, m) # {}
         /\ Present(m)' <=> \/ ready'[m] > 0 \/ retry'[m] > 0 \/ dlq'[m] > 0 \/ hand'[m] > 0
                            \/ Holding(Lane, m)' # {}
BY DEF Present, Kept, Holding

\* A step after which every message there was one of its task's before.
LEMMA PublishedKept ==
  ASSUME OnlyPublished, published' = published,
         \A m \in Message : Present(m)' => \E n \in Message : n.task = m.task /\ Present(n),
         \A t \in Tasks : lost'[t] # {} =>
             lost[t] # {} \/ \E n \in Message : n.task = t /\ Present(n)
  PROVE  OnlyPublished'
BY DEF OnlyPublished, Present

\* Lanes that are emptied, or keep their message, hold nothing new.
LEMMA HoldsNoMore ==
  ASSUME TypeOK,
         \A k \in Lane : \/ lane'[k] = lane[k] \/ lane'[k] = Idle
                         \/ lane[k] # Idle /\ lane'[k].msg = lane[k].msg,
         NEW m \in Message, Holding(Lane, m)' # {}
  PROVE  Holding(Lane, m) # {}
BY DEF Holding

\* No step brings a message that was never published.
LEMMA PublishedStep ==
  ASSUME TypeOK, AttemptLedger, OnlyPublished, [Next]_vars
  PROVE  OnlyPublished'
<1>. USE RetriesAssumption
<1>a. \A m \in Message : m.attempt \in 0..MaxRetries /\ m.task \in Tasks
  BY DEF Message
<1>b. \A q \in Bag : \A m \in Message : Surviving(q)[m] > 0 => q[m] > 0
  BY DEF Surviving, Bag
<1>1. ASSUME NEW t \in Tasks, Publish(t) PROVE OnlyPublished'
  <2>0. [task |-> t, attempt |-> 0, durable |-> TRUE] \in Message
    BY DEF Message
  <2>1. PICK new \in Message : new = [task |-> t, attempt |-> 0, durable |-> TRUE]
    BY <2>0
  <2>2. ready' = Put(ready, new) /\ ready \in Bag
    BY <1>1, <2>1 DEF Publish, TypeOK
  <2>3. \A m \in Message : ready'[m] > 0 <=> ready[m] > 0 \/ m = new
    BY <2>2, PutBag
  <2>4. published'[t] > 0 /\ \A u \in Tasks : published[u] > 0 => published'[u] > 0
    BY <1>1 DEF Publish, TypeOK
  <2>5. \A m \in Message : Present(m)' => Present(m) \/ m = new
    BY <1>1, <2>3, PresentNow DEF Publish, Holding
  <2>. QED
    BY <1>1, <1>a, <2>1, <2>4, <2>5 DEF OnlyPublished, Present, Publish
<1>2. ASSUME NEW c \in Consumers, Register(c) PROVE OnlyPublished'
  BY <1>2, PublishedKept, PresentNow DEF Register, queues, history, Holding
<1>3. ASSUME NEW c \in Consumers, Disconnect(c) PROVE OnlyPublished'
  <2>1. \A m \in Message : ready'[m] > 0 => ready[m] > 0 \/ Holding(Lane, m) # {}
    BY <1>3, ReturnedBag DEF Disconnect, TypeOK, LanesOf, Holding
  <2>2. \A m \in Message : Holding(Lane, m)' # {} => Holding(Lane, m) # {}
    BY <1>3, HoldsNoMore DEF Disconnect
  <2>. QED
    BY <1>3, <2>1, <2>2, PublishedKept, PresentNow DEF Disconnect, history
<1>4. ASSUME NEW l \in Lane, NEW m \in Message, Deliver(l, m) PROVE OnlyPublished'
  <2>1. \A n \in Message : ready'[n] > 0 => ready[n] > 0
    BY <1>4, TakeBag DEF Deliver, TypeOK
  <2>2. \A n \in Message : Holding(Lane, n)' # {} => Holding(Lane, n) # {} \/ n = m
    BY <1>4 DEF Deliver, Holding, TypeOK
  <2>3. ready[m] > 0
    BY <1>4 DEF Deliver
  <2>. QED
    BY <1>4, <2>1, <2>2, <2>3, PublishedKept, PresentNow DEF Deliver, history
<1>5. ASSUME NEW l \in Lane, HandlerOk(l) \/ HandlerFails(l) \/ RepublishRefused(l) \/ Ack(l)
      PROVE  OnlyPublished'
  <2>1. lane[l] # Idle
    BY <1>5 DEF HandlerOk, HandlerFails, RepublishRefused, Ack, Idle
  <2>2. lane[l] \in Busy
    BY <2>1, BusyLane
  <2>3. \A k \in Lane : \/ lane'[k] = lane[k] \/ lane'[k] = Idle
                        \/ lane[k] # Idle /\ lane'[k].msg = lane[k].msg
    BY <1>5, <2>1, <2>2 DEF HandlerOk, HandlerFails, RepublishRefused, Ack, TypeOK, Busy
  <2>4. \A m \in Message : Holding(Lane, m)' # {} => Holding(Lane, m) # {}
    BY <2>3, HoldsNoMore
  <2>5. lane[l].msg \in Message /\ Present(lane[l].msg)
    BY <2>1, BusyLane DEF Present, Holding
  <2>6. \A t \in Tasks : lost'[t] # {} => lost[t] # {} \/ t = lane[l].msg.task
    BY <1>5 DEF HandlerOk, HandlerFails, RepublishRefused, Ack, history, TypeOK
  <2>7. UNCHANGED <<queues, hand, published>>
    BY <1>5 DEF HandlerOk, HandlerFails, RepublishRefused, Ack, history
  <2>. QED
    BY <2>4, <2>5, <2>6, <2>7, PublishedKept, PresentNow DEF queues
<1>6. ASSUME NEW l \in Lane, Republish(l) PROVE OnlyPublished'
  <2>1. lane[l] # Idle /\ lane' = [lane EXCEPT ![l].at = "acking"]
    BY <1>6 DEF Republish, AttemptsOf, Idle
  <2>2. lane[l] \in Busy /\ lane[l].msg \in Message
    BY <2>1, BusyLane
  <2>3. lane[l].msg.attempt < MaxRetries
    BY <2>1, <2>2 DEF AttemptLedger, AttemptsPlaced, Holding
  <2>a. [task |-> lane[l].msg.task, attempt |-> lane[l].msg.attempt + 1,
         durable |-> TRUE] \in Message
    BY <1>a, <2>2, <2>3 DEF Message
  <2>4. PICK copy \in Message :
          copy = [task |-> lane[l].msg.task, attempt |-> lane[l].msg.attempt + 1,
                  durable |-> TRUE]
    BY <2>a
  <2>5. \/ retry' = Put(retry, copy) /\ UNCHANGED dlq
        \/ dlq' = Put(dlq, copy) /\ UNCHANGED retry
    BY <1>6, <2>4 DEF Republish, AttemptsOf
  <2>6. \A m \in Message : /\ retry'[m] > 0 => retry[m] > 0 \/ m = copy
                           /\ dlq'[m] > 0 => dlq[m] > 0 \/ m = copy
    BY <2>5, PutBag DEF TypeOK
  <2>7. \A m \in Message : Holding(Lane, m)' # {} => Holding(Lane, m) # {}
    BY <2>1, <2>2, HoldsNoMore DEF TypeOK, Busy
  <2>8. Present(lane[l].msg) /\ copy.task = lane[l].msg.task
    BY <2>1, <2>2, <2>4 DEF Present, Holding
  <2>9. UNCHANGED <<ready, hand, published, lost>>
    BY <1>6 DEF Republish, AttemptsOf, history
  <2>. QED
    BY <2>2, <2>6, <2>7, <2>8, <2>9, PublishedKept, PresentNow
<1>7. ASSUME NEW m \in Message, Expire(m) PROVE OnlyPublished'
  <2>1. \A n \in Message : /\ retry'[n] > 0 => retry[n] > 0
                           /\ ready'[n] > 0 => ready[n] > 0 \/ retry[n] > 0
    BY <1>7, TakeBag, PutBag DEF Expire, TypeOK
  <2>. QED
    BY <1>7, <2>1, PublishedKept, PresentNow DEF Expire, history, Holding
<1>8. ASSUME NEW m \in Message, RequeuePublish(m) PROVE OnlyPublished'
  <2>. DEFINE new == [task |-> m.task, attempt |-> 0, durable |-> FALSE]
  <2>1. new \in Message /\ new.task = m.task
    BY <1>a DEF Message
  <2>2. ready' = Put(ready, new) /\ hand' = Take(hand, m) /\ hand[m] > 0
    BY <1>8 DEF RequeuePublish
  <2>. HIDE DEF new
  <2>3. \A n \in Message : /\ ready'[n] > 0 => ready[n] > 0 \/ n = new
                           /\ hand'[n] > 0 => hand[n] > 0
    BY <2>1, <2>2, PutBag, TakeBag DEF TypeOK
  <2>4. UNCHANGED <<retry, dlq, lane, published, lost>>
    BY <1>8 DEF RequeuePublish, history
  <2>5. \A n \in Message : Present(n)' => Present(n) \/ n = new
    BY <2>3, <2>4, PresentNow DEF Holding
  <2>6. Present(m)
    BY <2>2, PresentNow
  <2>. QED
    BY <2>1, <2>4, <2>5, <2>6, PublishedKept
<1>9. ASSUME BrokerRestart PROVE OnlyPublished'
  <2>1. Returned(ready, Lane) \in Bag
    BY ReturnedBag DEF TypeOK
  <2>2. \A m \in Message : /\ ready'[m] > 0 => ready[m] > 0 \/ Holding(Lane, m) # {}
                           /\ retry'[m] > 0 => retry[m] > 0
                           /\ dlq'[m] > 0 => dlq[m] > 0
    BY <1>9, <1>b, <2>1, ReturnedBag DEF BrokerRestart, TypeOK
  <2>3. \A m \in Message : Holding(Lane, m)' = {}
    BY <1>9 DEF BrokerRestart, Holding
  <2>4. \A m \in Message : Present(m)' => Present(m)
    BY <1>9, <2>2, <2>3, PresentNow DEF BrokerRestart
  <2>5. \A t \in Tasks : lost'[t] # {} =>
            lost[t] # {} \/ \E n \in Message : n.task = t /\ Present(n)
    BY <1>9, PresentNow DEF BrokerRestart
  <2>. QED
    BY <1>9, <2>4, <2>5, PublishedKept DEF BrokerRestart
<1>10. ASSUME RequeueTake PROVE OnlyPublished'
  BY <1>10, EmptyBag, PublishedKept, PresentNow DEF RequeueTake, history, Holding
<1>13. ASSUME RequeueRefused PROVE OnlyPublished'
  <2>1. \A m \in Message : Present(m)' => Present(m)
    BY <1>13, EmptyBag, PresentNow DEF RequeueRefused, queues, Holding
  <2>2. \A t \in Tasks : lost'[t] # {} =>
            lost[t] # {} \/ \E n \in Message : n.task = t /\ Present(n)
    BY <1>13, PresentNow DEF RequeueRefused
  <2>. QED
    BY <1>13, <2>1, <2>2, PublishedKept DEF RequeueRefused
<1>11. ASSUME NEW name \in {"main", "retry", "dlq"}, PurgeQueue(name) PROVE OnlyPublished'
  <2>1. \A m \in Message : /\ ready'[m] > 0 => ready[m] > 0
                           /\ retry'[m] > 0 => retry[m] > 0
                           /\ dlq'[m] > 0 => dlq[m] > 0
    BY <1>11, EmptyBag DEF PurgeQueue
  <2>2. \A m \in Message : Present(m)' => Present(m)
    BY <1>11, <2>1, PresentNow DEF PurgeQueue, Holding
  <2>3. \A t \in Tasks : lost'[t] # {} =>
            lost[t] # {} \/ \E n \in Message : n.task = t /\ Present(n)
    BY <1>11, PresentNow DEF PurgeQueue
  <2>. QED
    BY <1>11, <2>2, <2>3, PublishedKept DEF PurgeQueue
<1>12. CASE UNCHANGED vars
  BY <1>12, PublishedKept, PresentNow DEF vars, Holding
<1>. QED
  BY <1>1, <1>2, <1>3, <1>4, <1>5, <1>6, <1>7, <1>8, <1>9, <1>10, <1>11, <1>12,
     <1>13 DEF Next

-----------------------------------------------------------------------------
\* Enough to know of a state to see that its steps are steps of the promise.
PromiseInv == DeliveryInv /\ OnlyPublished

\* Nothing is there before the first publish.
LEMMA PromiseInvInit == Init => PromiseInv
<1>. SUFFICES ASSUME Init PROVE OnlyPublished
  BY DeliveryInit DEF PromiseInv
<1>2. \A t \in Tasks : lost[t] = {}
  BY DEF Init
<1>1. \A m \in Message : ~Kept(m) /\ Holding(Lane, m) = {}
  BY EmptyBag DEF Init, Kept, Holding
<1>. QED
  BY <1>1, <1>2 DEF OnlyPublished

\* The inductive invariant of the refinement.
LEMMA PromiseInvariant == Spec => []PromiseInv
<1>1. PromiseInv /\ [Next]_vars => PromiseInv'
  BY TypeStep, LedgerStep, VanishStep, PublishedStep DEF PromiseInv, DeliveryInv, AttemptLedger
<1>. QED
  BY <1>1, PromiseInvInit, PTL DEF Spec

-----------------------------------------------------------------------------
\* What a step may leave of a task, in the terms of TaskDelivery.
SameCounts(t) == published'[t] = published[t] /\ failures'[t] = failures[t]
SameDone(t) == t \in completed' <=> t \in completed
SameLost(t) == lost'[t] # {} <=> lost[t] # {}
SameDead(t) == Dead(t)' <=> Dead(t)

\* One task at a step of the promise.
Moves(t) ==
    \/ Promise!Accepts(t) \/ Promise!Finishes(t) \/ Promise!FailsRun(t)
    \/ Promise!Buries(t) \/ Promise!Revives(t) \/ Promise!ComesBack(t)
    \/ Promise!IsDestroyed(t)

\* The task is left alone, or a delivery of it comes back.
LEMMA MovesBack ==
  ASSUME NEW t \in Tasks, SameCounts(t), SameDone(t), SameLost(t), SameDead(t),
         InSystem(t) => InSystem(t)', InSystem(t)' => published[t] > 0
  PROVE  Moves(t)
<1>1. Promise!ComesBack(t)
  BY DEF Promise!ComesBack, Promise!PublishedStays, Promise!DeadStays, Promise!DoneStays,
         Promise!FailedStays, Promise!DestroyedStays, SameCounts, SameDone, SameLost, SameDead
<1>. QED
  BY <1>1 DEF Moves

\* A cause destroys a copy of the task, or has done so before.
LEMMA MovesDestroyed ==
  ASSUME NEW t \in Tasks, SameCounts(t), SameDone(t), lost'[t] # {},
         published[t] > 0, Dead(t)' => Dead(t)
  PROVE  Moves(t)
<1>1. Promise!IsDestroyed(t)
  BY DEF Promise!IsDestroyed, Promise!PublishedStays, Promise!DoneStays,
         Promise!FailedStays, SameCounts, SameDone
<1>. QED
  BY <1>1 DEF Moves

\* The copies of one task, before and after a step that keeps each of them.
LEMMA SystemGrows ==
  ASSUME NEW t, \A m \in Message : m.task = t /\ Kept(m) => InSystem(t)'
  PROVE  InSystem(t) => InSystem(t)'
BY DEF InSystem

\* Once published, always published.
LEMMA BackPublished ==
  ASSUME OnlyPublished', NEW t \in Tasks, SameCounts(t)
  PROVE  /\ InSystem(t)' => published[t] > 0
         /\ lost'[t] # {} => published[t] > 0
BY DEF OnlyPublished, InSystem, SameCounts

\* A step that touches no count and no cause, and keeps every copy.
LEMMA QuietStep ==
  ASSUME OnlyPublished', UNCHANGED <<published, completed, failures, lost>>,
         \A m \in Message : Kept(m) => Kept(m)',
         \A t \in Tasks : SameDead(t), NEW t \in Tasks
  PROVE  Moves(t)
<1>1. SameCounts(t) /\ SameDone(t) /\ SameLost(t)
  BY DEF SameCounts, SameDone, SameLost
<1>2. InSystem(t) => InSystem(t)'
  BY DEF InSystem
<1>. QED
  BY <1>1, <1>2, BackPublished, MovesBack

\* A step that puts every task it takes a copy of on record.
LEMMA LossyStep ==
  ASSUME OnlyPublished', UNCHANGED <<published, completed, failures>>,
         \A t \in Tasks : lost[t] # {} => lost'[t] # {},
         \A m \in Message : dlq'[m] > 0 => dlq[m] > 0,
         \A m \in Message : Kept(m) => Kept(m)' \/ lost'[m.task] # {},
         \A m \in Message : dlq[m] > 0 => dlq'[m] > 0 \/ lost'[m.task] # {},
         NEW t \in Tasks
  PROVE  Moves(t)
<1>1. SameCounts(t) /\ SameDone(t)
  BY DEF SameCounts, SameDone
<1>2. Dead(t)' => Dead(t)
  BY DEF Dead
<1>3. CASE lost'[t] # {}
  BY <1>1, <1>2, <1>3, BackPublished, MovesDestroyed
<1>4. CASE lost'[t] = {}
  <2>1. SameLost(t)
    BY <1>4 DEF SameLost
  <2>2. Dead(t) => Dead(t)'
    BY <1>4 DEF Dead
  <2>3. InSystem(t) => InSystem(t)'
    BY <1>4 DEF InSystem
  <2>. QED
    BY <1>1, <1>2, <2>1, <2>2, <2>3, BackPublished, MovesBack DEF SameDead
<1>. QED
  BY <1>3, <1>4

-----------------------------------------------------------------------------
\* Each step moves each task as the promise allows.
LEMMA TaskStep ==
  ASSUME PromiseInv, OnlyPublished', Next, NEW t \in Tasks
  PROVE  Moves(t)
<1>. USE RetriesAssumption
<1>a. \A m \in Message : m.attempt \in 0..MaxRetries /\ m.task \in Tasks
  BY DEF Message
<1>b. TypeOK /\ AttemptLedger /\ OnlyPublished
  BY DEF PromiseInv, DeliveryInv
<1>c. AttemptsPlaced /\ HonestAttempts /\ FailureCounted
  BY <1>b DEF AttemptLedger
<1>1. ASSUME NEW u \in Tasks, Publish(u) PROVE Moves(t)
  <2>0. [task |-> u, attempt |-> 0, durable |-> TRUE] \in Message
    BY DEF Message
  <2>1. PICK new \in Message : new = [task |-> u, attempt |-> 0, durable |-> TRUE]
    BY <2>0
  <2>2. /\ ready' = Put(ready, new) /\ ready \in Bag
        /\ UNCHANGED <<retry, dlq, lane, hand, completed, failures, lost>>
        /\ published' = [published EXCEPT ![u] = @ + 1]
    BY <1>1, <1>b, <2>1 DEF Publish, TypeOK
  <2>3. \A m \in Message : ready'[m] > 0 <=> ready[m] > 0 \/ m = new
    BY <2>2, PutBag
  <2>4. \A m \in Message : Kept(m)' <=> Kept(m) \/ m = new
    BY <2>2, <2>3 DEF Kept
  <2>5. SameDone(t) /\ SameLost(t) /\ SameDead(t) /\ failures'[t] = failures[t]
    BY <2>2 DEF SameDone, SameLost, SameDead, Dead
  <2>6. CASE t = u
    <3>1. InSystem(t)'
      BY <2>1, <2>4, <2>6 DEF InSystem
    <3>2. published'[t] = published[t] + 1
      BY <1>b, <2>2, <2>6 DEF TypeOK
    <3>3. Promise!Accepts(t)
      BY <2>5, <3>1, <3>2
         DEF Promise!Accepts, Promise!DeadStays, Promise!DoneStays, Promise!FailedStays,
             Promise!DestroyedStays, SameDone, SameLost, SameDead
    <3>. QED
      BY <3>3 DEF Moves
  <2>7. CASE t # u
    <3>1. SameCounts(t)
      BY <1>b, <2>2, <2>5, <2>7 DEF SameCounts, TypeOK
    <3>2. InSystem(t) => InSystem(t)'
      BY <2>4 DEF InSystem
    <3>. QED
      BY <2>5, <3>1, <3>2, BackPublished, MovesBack
  <2>. QED
    BY <2>6, <2>7
<1>2. ASSUME NEW c \in Consumers, Register(c) PROVE Moves(t)
  BY <1>2, QuietStep DEF Register, queues, history, Kept, SameDead, Dead
<1>3. ASSUME NEW c \in Consumers, Disconnect(c) PROVE Moves(t)
  <2>1. /\ LanesOf(c) \in SUBSET Lane
        /\ ready' = Returned(ready, LanesOf(c))
        /\ lane' = [l \in Lane |-> IF l[1] = c THEN Idle ELSE lane[l]]
        /\ UNCHANGED <<retry, dlq, hand, published, completed, failures, lost>>
    BY <1>3 DEF Disconnect, LanesOf, history
  <2>2. \A m \in Message : ready'[m] > 0 <=> ready[m] > 0 \/ Holding(LanesOf(c), m) # {}
    BY <1>b, <2>1, ReturnedBag DEF TypeOK
  <2>3. ASSUME NEW m \in Message, Kept(m) PROVE Kept(m)'
    <3>1. CASE \E l \in Lane : lane[l] # Idle /\ lane[l].msg = m /\ lane[l].at # "acking"
      <4>1. PICK l \in Lane : lane[l] # Idle /\ lane[l].msg = m /\ lane[l].at # "acking"
        BY <3>1
      <4>2. CASE l[1] = c
        BY <2>2, <4>1, <4>2, KeptNext DEF Holding, LanesOf
      <4>3. CASE l[1] # c
        BY <2>1, <4>1, <4>3, KeptNext
      <4>. QED
        BY <4>2, <4>3
    <3>2. CASE ready[m] > 0 \/ retry[m] > 0 \/ dlq[m] > 0 \/ hand[m] > 0
      BY <2>1, <2>2, <3>2, KeptNext
    <3>. QED
      BY <2>3, <3>1, <3>2 DEF Kept
  <2>. QED
    BY <2>1, <2>3, QuietStep DEF SameDead, Dead
<1>4. ASSUME NEW l \in Lane, NEW m \in Message, Deliver(l, m) PROVE Moves(t)
  <2>1. /\ lane' = [lane EXCEPT ![l] = [at |-> "handling", msg |-> m]]
        /\ lane[l] = Idle
        /\ UNCHANGED <<retry, dlq, hand, published, completed, failures, lost>>
    BY <1>4 DEF Deliver, history
  <2>2. \A n \in Message : n # m => ready'[n] = ready[n]
    BY <1>4, <1>b, TakeBag DEF Deliver, TypeOK
  <2>3. Kept(m)'
    <3>1. lane'[l] = [at |-> "handling", msg |-> m]
      BY <1>b, <2>1 DEF TypeOK
    <3>. QED
      BY <3>1, KeptNext DEF Idle
  <2>4. ASSUME NEW n \in Message, Kept(n), n # m PROVE Kept(n)'
    <3>1. \A k \in Lane : lane[k] # Idle => lane'[k] = lane[k]
      BY <2>1
    <3>. QED
      BY <2>1, <2>2, <2>4, <3>1, KeptNext DEF Kept
  <2>. QED
    BY <2>1, <2>3, <2>4, QuietStep DEF SameDead, Dead
<1>5. ASSUME NEW l \in Lane, HandlerOk(l) PROVE Moves(t)
  <2>1. /\ lane[l] # Idle /\ lane[l].at = "handling"
        /\ lane' = [lane EXCEPT ![l].at = "acking"]
        /\ completed' = completed \cup {lane[l].msg.task}
        /\ UNCHANGED <<ready, retry, dlq, hand, published, failures, lost>>
    BY <1>5 DEF HandlerOk, Idle, queues
  <2>2. lane[l].msg \in Message /\ Kept(lane[l].msg)
    BY <1>b, <2>1, BusyLane DEF Kept
  <2>3. SameCounts(t) /\ SameLost(t) /\ SameDead(t)
    BY <2>1 DEF SameCounts, SameLost, SameDead, Dead
  <2>4. CASE t = lane[l].msg.task
    <3>1. InSystem(t) /\ t \in completed'
      BY <2>1, <2>2, <2>4 DEF InSystem
    <3>2. Promise!Finishes(t)
      BY <2>3, <3>1
         DEF Promise!Finishes, Promise!PublishedStays, Promise!DeadStays,
             Promise!FailedStays, Promise!DestroyedStays, SameCounts, SameLost, SameDead
    <3>. QED
      BY <3>2 DEF Moves
  <2>5. CASE t # lane[l].msg.task
    <3>1. SameDone(t)
      BY <2>1, <2>5 DEF SameDone
    <3>2. \A k \in Lane : k # l => lane'[k] = lane[k]
      BY <2>1
    <3>3. ASSUME NEW m \in Message, m.task = t, Kept(m) PROVE Kept(m)'
      BY <2>1, <2>5, <3>2, <3>3, KeptNext DEF Kept
    <3>4. InSystem(t) => InSystem(t)'
      BY <3>3 DEF InSystem
    <3>. QED
      BY <2>3, <3>1, <3>4, BackPublished, MovesBack
  <2>. QED
    BY <2>4, <2>5
<1>6. ASSUME NEW l \in Lane, HandlerFails(l) PROVE Moves(t)
  <2>1. /\ lane[l] # Idle /\ lane[l].at = "handling"
        /\ lane' = [lane EXCEPT ![l].at = "republishing"]
        /\ UNCHANGED <<ready, retry, dlq, hand, published, completed, lost>>
    BY <1>6 DEF HandlerFails, Idle, queues
  <2>2. /\ \A k \in Lane : k # l => lane'[k] = lane[k]
        /\ lane'[l].msg = lane[l].msg /\ lane'[l].at = "republishing" /\ lane'[l] # Idle
    BY <1>b, <2>1, BusyLane DEF TypeOK, Busy, Idle
  <2>3. ASSUME NEW m \in Message, Kept(m) PROVE Kept(m)'
    BY <2>1, <2>2, <2>3, KeptNext DEF Kept
  <2>4. lane[l].msg \in Message /\ Kept(lane[l].msg)
    BY <1>b, <2>1, BusyLane DEF Kept
  <2>5. /\ published'[t] = published[t] /\ SameDone(t) /\ SameLost(t) /\ SameDead(t)
        /\ InSystem(t) => InSystem(t)'
    BY <2>1, <2>3 DEF SameDone, SameLost, SameDead, Dead, InSystem
  <2>6. failures'[t] = IF t = lane[l].msg.task /\ failures[t] < MaxRetries
                       THEN failures[t] + 1 ELSE failures[t]
    BY <1>6, <1>b DEF HandlerFails, TypeOK
  <2>7. CASE t = lane[l].msg.task /\ failures[t] < MaxRetries
    <3>1. InSystem(t) /\ InSystem(t)'
      BY <2>4, <2>5, <2>7 DEF InSystem
    <3>2. Promise!FailsRun(t)
      BY <2>5, <2>6, <2>7, <3>1
         DEF Promise!FailsRun, Promise!PublishedStays, Promise!DeadStays, Promise!DoneStays,
             Promise!DestroyedStays, SameDone, SameLost, SameDead
    <3>. QED
      BY <3>2 DEF Moves
  <2>8. CASE ~(t = lane[l].msg.task /\ failures[t] < MaxRetries)
    <3>1. SameCounts(t)
      BY <2>5, <2>6, <2>8 DEF SameCounts
    <3>. QED
      BY <2>5, <3>1, BackPublished, MovesBack
  <2>. QED
    BY <2>7, <2>8
<1>7. ASSUME NEW l \in Lane, Republish(l) PROVE Moves(t)
  <2>1. /\ lane[l] # Idle /\ lane[l].at = "republishing"
        /\ lane' = [lane EXCEPT ![l].at = "acking"]
        /\ UNCHANGED <<ready, hand, published, completed, failures, lost>>
    BY <1>7 DEF Republish, AttemptsOf, Idle, history
  <2>2. /\ lane[l].msg \in Message /\ Kept(lane[l].msg)
        /\ lane[l].msg.attempt < MaxRetries
        /\ lane[l].msg.attempt < failures[lane[l].msg.task]
    BY <1>b, <1>c, <2>1, BusyLane DEF AttemptsPlaced, FailureCounted, Holding, Kept
  <2>3. [task |-> lane[l].msg.task, attempt |-> lane[l].msg.attempt + 1,
         durable |-> TRUE] \in Message
    BY <1>a, <2>2 DEF Message
  <2>4. PICK copy \in Message :
          copy = [task |-> lane[l].msg.task, attempt |-> lane[l].msg.attempt + 1,
                  durable |-> TRUE]
    BY <2>3
  <2>5. \A k \in Lane : k # l => lane'[k] = lane[k]
    BY <2>1
  <2>6. SameCounts(t) /\ SameDone(t) /\ SameLost(t)
    BY <2>1 DEF SameCounts, SameDone, SameLost
  <2>7. \/ retry' = Put(retry, copy) /\ UNCHANGED dlq
        \/ /\ NextAction(copy.attempt) = "dlq"
           /\ dlq' = Put(dlq, copy) /\ UNCHANGED retry
    BY <1>7, <2>4 DEF Republish, AttemptsOf
  <2>8. /\ \A m \in Message : /\ retry[m] > 0 => retry'[m] > 0
                              /\ dlq[m] > 0 => dlq'[m] > 0
        /\ retry'[copy] > 0 \/ dlq'[copy] > 0
    BY <1>b, <2>7, PutBag DEF TypeOK
  <2>9. Kept(copy)' /\ copy.task = lane[l].msg.task
    BY <2>4, <2>8, KeptNext
  <2>10. InSystem(t) => InSystem(t)'
    <3>1. ASSUME NEW m \in Message, m.task = t, Kept(m) PROVE InSystem(t)'
      <4>1. CASE m = lane[l].msg
        BY <2>9, <3>1, <4>1 DEF InSystem
      <4>2. CASE m # lane[l].msg
        <5>1. Kept(m)'
          BY <2>1, <2>5, <2>8, <3>1, <4>2, KeptNext DEF Kept
        <5>. QED
          BY <3>1, <5>1 DEF InSystem
      <4>. QED
        BY <4>1, <4>2
    <3>. QED
      BY <3>1, SystemGrows
  <2>11. CASE SameDead(t)
    BY <2>6, <2>10, <2>11, BackPublished, MovesBack
  <2>12. CASE ~SameDead(t)
    <3>1. /\ NextAction(copy.attempt) = "dlq"
          /\ \A m \in Message : dlq'[m] > 0 <=> dlq[m] > 0 \/ m = copy
      BY <1>b, <2>7, <2>12, PutBag DEF SameDead, Dead, TypeOK
    <3>2. t = copy.task /\ Dead(t)'
      BY <2>12, <3>1 DEF SameDead, Dead
    <3>3. failures[t] = MaxRetries
      <4>1. /\ failures[t] \in 0..MaxRetries /\ lane[l].msg.attempt \in Nat
            /\ copy.attempt = lane[l].msg.attempt + 1
        BY <1>a, <1>b, <2>2, <2>4 DEF TypeOK, Message
      <4>. QED
        BY <2>2, <2>9, <3>1, <3>2, <4>1 DEF NextAction
    <3>4. InSystem(t) /\ InSystem(t)'
      BY <2>2, <2>9, <3>2 DEF InSystem
    <3>5. Promise!Buries(t)
      BY <2>6, <3>2, <3>3, <3>4
         DEF Promise!Buries, Promise!PublishedStays, Promise!DoneStays,
             Promise!FailedStays, Promise!DestroyedStays, SameCounts, SameDone, SameLost
    <3>. QED
      BY <3>5 DEF Moves
  <2>. QED
    BY <2>11, <2>12
<1>8. ASSUME NEW l \in Lane, RepublishRefused(l) PROVE Moves(t)
  <2>1. /\ lane[l] # Idle
        /\ lane' = [lane EXCEPT ![l] = Idle]
        /\ lost' = [lost EXCEPT ![lane[l].msg.task] = @ \cup {"republish_refused"}]
        /\ UNCHANGED <<ready, retry, dlq, hand, published, completed, failures>>
    BY <1>8 DEF RepublishRefused, Idle, queues
  <2>2. lane[l].msg.task \in Tasks
    BY <1>a, <1>b, <2>1, BusyLane
  <2>3. lost'[lane[l].msg.task] # {} /\ \A u \in Tasks : lost[u] # {} => lost'[u] # {}
    BY <1>b, <2>1, <2>2 DEF TypeOK
  <2>4. \A k \in Lane : k # l => lane'[k] = lane[k]
    BY <2>1
  <2>5. ASSUME NEW m \in Message, Kept(m) PROVE Kept(m)' \/ lost'[m.task] # {}
    BY <2>1, <2>3, <2>4, <2>5, KeptNext DEF Kept
  <2>. QED
    BY <2>1, <2>3, <2>5, LossyStep
<1>9. ASSUME NEW l \in Lane, Ack(l) PROVE Moves(t)
  <2>1. /\ lane[l].at = "acking"
        /\ lane' = [lane EXCEPT ![l] = Idle]
        /\ UNCHANGED <<ready, retry, dlq, hand, published, completed, failures, lost>>
    BY <1>9 DEF Ack, queues, history
  <2>2. \A k \in Lane : k # l => lane'[k] = lane[k]
    BY <2>1
  <2>3. ASSUME NEW m \in Message, Kept(m) PROVE Kept(m)'
    BY <2>1, <2>2, <2>3, KeptNext DEF Kept
  <2>. QED
    BY <2>1, <2>3, QuietStep DEF SameDead, Dead
<1>10. ASSUME NEW m \in Message, Expire(m) PROVE Moves(t)
  <2>1. \A n \in Message : /\ n # m => retry'[n] = retry[n]
                           /\ ready[n] > 0 \/ n = m => ready'[n] > 0
    BY <1>10, <1>b, TakeBag, PutBag DEF Expire, TypeOK
  <2>2. ASSUME NEW n \in Message, Kept(n) PROVE Kept(n)'
    BY <1>10, <2>1, <2>2, KeptNext DEF Kept, Expire
  <2>. QED
    BY <1>10, <2>2, QuietStep DEF Expire, history, SameDead, Dead
<1>11. ASSUME NEW m \in Message, RequeuePublish(m) PROVE Moves(t)
  <2>. DEFINE new == [task |-> m.task, attempt |-> 0, durable |-> FALSE]
  <2>1. new \in Message /\ new.task = m.task
    BY <1>a DEF Message
  <2>2. /\ ready' = Put(ready, new) /\ hand' = Take(hand, m) /\ hand[m] > 0
        /\ UNCHANGED <<retry, dlq, lane, published, completed, failures, lost>>
    BY <1>11 DEF RequeuePublish, history
  <2>. HIDE DEF new
  <2>3. \A n \in Message : /\ n # m => hand'[n] = hand[n]
                           /\ ready[n] > 0 \/ n = new => ready'[n] > 0
    BY <1>b, <2>1, <2>2, TakeBag, PutBag DEF TypeOK
  <2>4. Kept(new)'
    BY <2>1, <2>3, KeptNext
  <2>5. InSystem(t) => InSystem(t)'
    <3>1. ASSUME NEW n \in Message, n.task = t, Kept(n) PROVE InSystem(t)'
      <4>1. CASE n = m
        BY <2>1, <2>4, <3>1, <4>1 DEF InSystem
      <4>2. CASE n # m
        <5>1. Kept(n)'
          BY <2>2, <2>3, <3>1, <4>2, KeptNext DEF Kept
        <5>. QED
          BY <3>1, <5>1 DEF InSystem
      <4>. QED
        BY <4>1, <4>2
    <3>. QED
      BY <3>1, SystemGrows
  <2>6. SameCounts(t) /\ SameDone(t) /\ SameLost(t) /\ SameDead(t)
    BY <2>2 DEF SameCounts, SameDone, SameLost, SameDead, Dead
  <2>. QED
    BY <2>5, <2>6, BackPublished, MovesBack
<1>12. ASSUME BrokerRestart PROVE Moves(t)
  <2>1. /\ ready' = Surviving(Returned(ready, Lane))
        /\ retry' = Surviving(retry)
        /\ dlq' = Surviving(dlq)
        /\ UNCHANGED <<hand, published, completed, failures>>
    BY <1>12 DEF BrokerRestart
  <2>2. Returned(ready, Lane) \in Bag /\
        \A m \in Message : Returned(ready, Lane)[m] > 0 <=> ready[m] > 0 \/ Holding(Lane, m) # {}
    BY <1>b, ReturnedBag DEF TypeOK
  <2>3. \A u \in Tasks : lost[u] # {} => lost'[u] # {}
    BY <1>12 DEF BrokerRestart
  <2>4. \A m \in Message :
          /\ m.durable => /\ ready'[m] = Returned(ready, Lane)[m]
                          /\ retry'[m] = retry[m] /\ dlq'[m] = dlq[m]
          /\ ~m.durable => dlq'[m] = 0
    BY <2>1 DEF Surviving
  <2>5. ASSUME NEW m \in Message, ~m.durable,
               ready[m] > 0 \/ retry[m] > 0 \/ dlq[m] > 0 \/ Holding(Lane, m) # {}
        PROVE  lost'[m.task] # {}
    <3>1. lost'[m.task] = lost[m.task] \cup {"broker_restart"}
      BY <1>12, <1>a, <2>5 DEF BrokerRestart
    <3>. QED
      BY <3>1
  <2>6. ASSUME NEW m \in Message, Kept(m) PROVE Kept(m)' \/ lost'[m.task] # {}
    <3>1. ready[m] > 0 \/ retry[m] > 0 \/ dlq[m] > 0 \/ hand[m] > 0 \/ Holding(Lane, m) # {}
      BY <2>6 DEF Kept, Holding
    <3>2. CASE hand[m] > 0
      BY <2>1, <3>2, KeptNext
    <3>3. CASE m.durable /\ ~(hand[m] > 0)
      BY <2>2, <2>4, <3>1, <3>3, KeptNext
    <3>4. CASE ~m.durable /\ ~(hand[m] > 0)
      BY <2>5, <3>1, <3>4
    <3>. QED
      BY <3>2, <3>3, <3>4
  <2>7. \A m \in Message : dlq'[m] > 0 => dlq[m] > 0
    BY <2>4
  <2>8. \A m \in Message : dlq[m] > 0 => dlq'[m] > 0 \/ lost'[m.task] # {}
    BY <2>4, <2>5
  <2>. QED
    BY <2>1, <2>3, <2>6, <2>7, <2>8, LossyStep
<1>13. ASSUME RequeueTake PROVE Moves(t)
  <2>1. /\ \A m \in Message : hand[m] = 0 /\ hand'[m] = dlq[m] /\ dlq'[m] = 0
        /\ UNCHANGED <<ready, retry, lane, published, completed, failures, lost>>
    BY <1>13, EmptyBag DEF RequeueTake, history
  <2>2. ASSUME NEW m \in Message, Kept(m) PROVE Kept(m)'
    BY <2>1, <2>2, KeptNext DEF Kept
  <2>3. SameCounts(t) /\ SameDone(t) /\ SameLost(t)
    BY <2>1 DEF SameCounts, SameDone, SameLost
  <2>4. InSystem(t) => InSystem(t)'
    BY <2>2 DEF InSystem
  <2>5. CASE Dead(t)
    <3>1. InSystem(t) /\ ~Dead(t)'
      BY <2>1, <2>5 DEF Dead, InSystem, Kept
    <3>2. Promise!Revives(t)
      BY <2>3, <2>4, <3>1
         DEF Promise!Revives, Promise!PublishedStays, Promise!DoneStays,
             Promise!FailedStays, Promise!DestroyedStays, SameCounts, SameDone, SameLost
    <3>. QED
      BY <3>2 DEF Moves
  <2>6. CASE ~Dead(t)
    <3>1. SameDead(t)
      BY <2>1, <2>6 DEF SameDead, Dead
    <3>. QED
      BY <2>3, <2>4, <3>1, BackPublished, MovesBack
  <2>. QED
    BY <2>5, <2>6
<1>14. ASSUME RequeueRefused PROVE Moves(t)
  <2>1. \A u \in Tasks : lost[u] # {} => lost'[u] # {}
    BY <1>14 DEF RequeueRefused
  <2>2. \A m \in Message : hand[m] > 0 => lost'[m.task] # {}
    <3>1. \A u \in Tasks : (\E m \in Message : m.task = u /\ hand[m] > 0) =>
                              lost'[u] = lost[u] \cup {"requeue_refused"}
      BY <1>14 DEF RequeueRefused
    <3>. QED
      BY <1>a, <3>1
  <2>3. UNCHANGED <<ready, retry, dlq, lane, published, completed, failures>>
    BY <1>14 DEF RequeueRefused, queues
  <2>4. ASSUME NEW m \in Message, Kept(m) PROVE Kept(m)' \/ lost'[m.task] # {}
    BY <2>2, <2>3, <2>4, KeptNext DEF Kept
  <2>. QED
    BY <2>1, <2>3, <2>4, LossyStep
<1>15. ASSUME NEW name \in {"main", "retry", "dlq"}, PurgeQueue(name) PROVE Moves(t)
  <2>. DEFINE q == CASE name = "main" -> ready [] name = "retry" -> retry [] name = "dlq" -> dlq
  <2>1. \A u \in Tasks : lost[u] # {} => lost'[u] # {}
    BY <1>15 DEF PurgeQueue
  <2>2. \A m \in Message : q[m] > 0 => lost'[m.task] # {}
    <3>1. \A u \in Tasks : (\E m \in Message : m.task = u /\ q[m] > 0) =>
                              lost'[u] = lost[u] \cup {"purged"}
      BY <1>15 DEF PurgeQueue
    <3>. HIDE DEF q
    <3>. QED
      BY <1>a, <3>1
  <2>3. \A m \in Message : /\ ready[m] > 0 => ready'[m] > 0 \/ q[m] > 0
                           /\ retry[m] > 0 => retry'[m] > 0 \/ q[m] > 0
                           /\ dlq[m] > 0 => dlq'[m] > 0 \/ q[m] > 0
                           /\ dlq'[m] > 0 => dlq[m] > 0
    BY <1>15, EmptyBag DEF PurgeQueue
  <2>4. UNCHANGED <<hand, lane, published, completed, failures>>
    BY <1>15 DEF PurgeQueue
  <2>. HIDE DEF q
  <2>5. ASSUME NEW m \in Message, Kept(m) PROVE Kept(m)' \/ lost'[m.task] # {}
    BY <2>2, <2>3, <2>4, <2>5, KeptNext DEF Kept
  <2>. QED
    BY <2>1, <2>2, <2>3, <2>4, <2>5, LossyStep
<1>. QED
  BY <1>1, <1>2, <1>3, <1>4, <1>5, <1>6, <1>7, <1>8, <1>9, <1>10, <1>11, <1>12,
     <1>13, <1>14, <1>15 DEF Next

\* The queues of broker.py, its workers and the gateway's two operations
\* implement the promise: every behaviour of TaskDelivery, of whatever size, is
\* one of TaskPromise.
THEOREM DeliveryAsPromised == Spec => DeliversAsPromised
<1>1. Init => Promise!PromiseInit
  <2>1. SUFFICES ASSUME Init PROVE Promise!PromiseInit
    OBVIOUS
  <2>2. \A m \in Message : ~Kept(m) /\ ~(dlq[m] > 0)
    BY <2>1, EmptyBag DEF Init, Kept
  <2>3. \A t \in Tasks : ~InSystem(t) /\ ~Dead(t) /\ lost[t] = {}
    BY <2>1, <2>2 DEF Init, InSystem, Dead
  <2>. QED
    BY <2>1, <2>3 DEF Init, Promise!PromiseInit
<1>2. ASSUME PromiseInv, PromiseInv', Next PROVE Promise!PromiseNext
  <2>1. TypeOK' /\ OnlyPublished'
    BY <1>2 DEF PromiseInv, DeliveryInv
  <2>2. Promise!PromiseTypes'
    BY <2>1 DEF TypeOK, Promise!PromiseTypes
  <2>3. \A t \in Tasks : Moves(t)
    BY <1>2, <2>1, TaskStep
  <2>. QED
    BY <2>2, <2>3 DEF Moves, Promise!PromiseNext
<1>3. UNCHANGED vars =>
        UNCHANGED <<published, {t \in Tasks : InSystem(t)}, {t \in Tasks : Dead(t)},
                    completed, failures, {t \in Tasks : lost[t] # {}}>>
  BY DEF vars, InSystem, Kept, Dead
<1>4. PromiseInv /\ PromiseInv' /\ [Next]_vars =>
        [Promise!PromiseNext]_<<published, {t \in Tasks : InSystem(t)},
                                {t \in Tasks : Dead(t)}, completed, failures,
                                {t \in Tasks : lost[t] # {}}>>
  BY <1>2, <1>3
<1>. QED
  BY <1>1, <1>4, PromiseInvariant, PTL DEF Spec, DeliversAsPromised, Promise!PromiseSpec
=============================================================================
