---------------------------- MODULE TaskDelivery ----------------------------
(***************************************************************************)
(* One task queue of deedlit.ingest/broker.py with its two companions: the *)
(* main queue, the ".retry" queue (messages dead-letter back to the main   *)
(* queue when their TTL expires) and the ".dlq".  The consumers are the    *)
(* worker processes of run_worker, each holding at most Prefetch unacked   *)
(* deliveries; process_delivery runs the handler of a delivery and settles *)
(* it.  The gateway's purge and requeue_dlq (deedlit.api/app.py) act on    *)
(* the same queues.                                                        *)
(*                                                                         *)
(* A queue is a bag of messages: RabbitMQ hands the messages of a queue to *)
(* several consumers, redelivers and expires them, so their order carries  *)
(* no guarantee the code could use.                                        *)
(***************************************************************************)
EXTENDS Integers, FiniteSets

CONSTANTS
    Tasks,         \* the tasks producers publish on this queue
    Consumers,     \* the worker processes that name this queue in QUEUES
    Prefetch,      \* unacked window of one consumer (prefetch_for)
    Exclusive,     \* TRUE for the label queue (exclusive_for)
    MaxRetries,    \* MAX_RETRIES
    \* Bounds of the model, in the guards of the actions they name.
    MaxPublishes,  \* publishes of one task (Publish)
    MaxDisconnects, \* worker crashes and lost connections (Disconnect)
    MaxRefused,    \* publishes the broker refuses (RepublishRefused, RequeueRefused)
    MaxRestarts,   \* broker restarts (BrokerRestart)
    MaxRequeues,   \* requeue_dlq calls (RequeueTake)
    MaxPurges      \* purge_queue calls (PurgeQueue)

ASSUME RetriesAssumption == MaxRetries \in Nat \ {0}
ASSUME PrefetchAssumption == Prefetch \in Nat \ {0}
ASSUME FiniteAssumption == IsFiniteSet(Consumers)
ASSUME ExclusiveAssumption == Exclusive \in BOOLEAN
ASSUME BoundsAssumption ==
    /\ MaxPublishes \in Nat
    /\ MaxDisconnects \in Nat
    /\ MaxRefused \in Nat
    /\ MaxRestarts \in Nat
    /\ MaxRequeues \in Nat
    /\ MaxPurges \in Nat

\* A message: the task in its body, the x-attempt header (0 when absent) and
\* whether it was published persistent.
Message == [task : Tasks, attempt : 0..MaxRetries, durable : BOOLEAN]

\* A consumer's window: one lane per unacked delivery it may hold.
Lane == Consumers \X (1..Prefetch)

\* Where process_delivery is with the delivery of a lane: running the handler,
\* about to republish after a failure, or settled and about to be acked.
Stage == {"handling", "republishing", "acking"}

Idle == [at |-> "idle"]
Busy == [at : Stage, msg : Message]

\* Ways the code has of losing a message for good.
Cause == {"republish_refused", "requeue_refused", "broker_restart", "purged"}

VARIABLES
    ready,      \* [Message -> Nat]: the main queue
    retry,      \* [Message -> Nat]: <queue>.retry
    dlq,        \* [Message -> Nat]: <queue>.dlq
    lane,       \* [Lane -> {Idle} \cup Busy]
    consuming,  \* the consumers registered with the broker
    hand,       \* [Message -> Nat]: taken off the dlq by requeue_dlq, not yet republished
    published,  \* [Tasks -> Nat]: how often producers published each task
    completed,  \* the tasks some handler run has finished
    failures,   \* [Tasks -> 0..MaxRetries]: failed handler runs, saturating
    lost,       \* [Tasks -> SUBSET Cause]: how copies of the task vanished
    budget      \* what is left of the bounds

vars == <<ready, retry, dlq, lane, consuming, hand, published, completed,
          failures, lost, budget>>

queues == <<ready, retry, dlq>>
history == <<published, completed, failures, lost>>

Empty == [m \in Message |-> 0]

Put(q, m) == [q EXCEPT ![m] = @ + 1]
Take(q, m) == [q EXCEPT ![m] = @ - 1]

\* The copies of message m that lanes of L hold unacked.
Holding(L, m) == {l \in L : lane[l] # Idle /\ lane[l].msg = m}

LanesOf(c) == {l \in Lane : l[1] = c}

\* Mutant: deliveries consumed with no_ack, which the broker forgets at once.
ReturnedNone(q, L) == q

\* The broker puts unacked deliveries back when their channel goes away.
Returned(q, L) == [m \in Message |-> q[m] + Cardinality(Holding(L, m))]

Spend(b) == /\ budget[b] > 0
            /\ budget' = [budget EXCEPT ![b] = @ - 1]

-----------------------------------------------------------------------------
Init ==
    /\ ready = Empty
    /\ retry = Empty
    /\ dlq = Empty
    /\ hand = Empty
    /\ lane = [l \in Lane |-> Idle]
    /\ consuming = {}
    /\ published = [t \in Tasks |-> 0]
    /\ completed = {}
    /\ failures = [t \in Tasks |-> 0]
    /\ lost = [t \in Tasks |-> {}]
    /\ budget = [disconnects |-> MaxDisconnects, refused |-> MaxRefused,
                 restarts |-> MaxRestarts, requeues |-> MaxRequeues,
                 purges |-> MaxPurges]

\* publish_task by a producer: a persistent message without an attempt header.
Publish(t) ==
    /\ published[t] < MaxPublishes
    /\ published' = [published EXCEPT ![t] = @ + 1]
    /\ ready' = Put(ready, [task |-> t, attempt |-> 0, durable |-> TRUE])
    /\ UNCHANGED <<retry, dlq, lane, consuming, hand, completed, failures, lost, budget>>

\* queue.consume: the broker refuses a second consumer on an exclusive queue
\* (the refused worker exits and is restarted, which changes nothing here).
Register(c) ==
    /\ c \notin consuming
    /\ Exclusive => consuming = {}
    /\ consuming' = consuming \cup {c}
    /\ UNCHANGED <<queues, lane, hand, history, budget>>

Deliver(l, m) ==
    /\ l[1] \in consuming
    /\ lane[l] = Idle
    /\ ready[m] > 0
    /\ ready' = Take(ready, m)
    /\ lane' = [lane EXCEPT ![l] = [at |-> "handling", msg |-> m]]
    /\ UNCHANGED <<retry, dlq, consuming, hand, history, budget>>

HandlerOk(l) ==
    /\ lane[l].at = "handling"
    /\ completed' = completed \cup {lane[l].msg.task}
    /\ lane' = [lane EXCEPT ![l].at = "acking"]
    /\ UNCHANGED <<queues, consuming, hand, published, failures, lost, budget>>

HandlerFails(l) ==
    LET t == lane[l].msg.task
    IN  /\ lane[l].at = "handling"
        /\ failures' = [failures EXCEPT ![t] = IF @ < MaxRetries THEN @ + 1 ELSE @]
        /\ lane' = [lane EXCEPT ![l].at = "republishing"]
        /\ UNCHANGED <<queues, consuming, hand, published, completed, lost, budget>>

\* Mutant: the header of a delivery is copied instead of raised.
AttemptsUnraised(m) == m.attempt

\* The failed runs of a delivery, the one that just ended included.
AttemptsOf(m) == m.attempt + 1

\* Mutant: the run that just failed is counted twice.
NextActionEarly(attempts) == IF attempts + 1 < MaxRetries THEN "retry" ELSE "dlq"

\* next_action: the failures so far, this one included.
NextAction(attempts) == IF attempts < MaxRetries THEN "retry" ELSE "dlq"

\* Mutant: a failure that is logged and acked.
RepublishNone(l) ==
    /\ lane[l].at = "republishing"
    /\ lane' = [lane EXCEPT ![l].at = "acking"]
    /\ UNCHANGED <<queues, consuming, hand, history, budget>>

\* The except branch of process_delivery: a persistent copy with the raised
\* attempt header goes to the retry queue or, when exhausted, to the dlq.
Republish(l) ==
    /\ lane[l].at = "republishing"
    /\ LET m    == lane[l].msg
           copy == [task |-> m.task, attempt |-> AttemptsOf(m), durable |-> TRUE]
       IN  \/ /\ NextAction(AttemptsOf(m)) = "retry"
              /\ retry' = Put(retry, copy)
              /\ UNCHANGED dlq
           \/ /\ NextAction(AttemptsOf(m)) = "dlq"
              /\ dlq' = Put(dlq, copy)
              /\ UNCHANGED retry
    /\ lane' = [lane EXCEPT ![l].at = "acking"]
    /\ UNCHANGED <<ready, consuming, hand, history, budget>>

\* The republish raises: the exception leaves process_delivery, and
\* message.process(requeue=False) rejects the delivery.  The main queue has no
\* dead-letter exchange, so the broker discards it.
RepublishRefused(l) ==
    LET t == lane[l].msg.task
    IN  /\ lane[l].at = "republishing"
        /\ Spend("refused")
        /\ lost' = [lost EXCEPT ![t] = @ \cup {"republish_refused"}]
        /\ lane' = [lane EXCEPT ![l] = Idle]
        /\ UNCHANGED <<queues, consuming, hand, published, completed, failures>>

Ack(l) ==
    /\ lane[l].at = "acking"
    /\ lane' = [lane EXCEPT ![l] = Idle]
    /\ UNCHANGED <<queues, consuming, hand, history, budget>>

\* The per-message TTL runs out: the retry queue dead-letters to the main one.
Expire(m) ==
    /\ retry[m] > 0
    /\ retry' = Take(retry, m)
    /\ ready' = Put(ready, m)
    /\ UNCHANGED <<dlq, lane, consuming, hand, history, budget>>

\* A worker process dies, or its connection is cut and its callbacks with it.
Disconnect(c) ==
    /\ c \in consuming
    /\ Spend("disconnects")
    /\ consuming' = consuming \ {c}
    /\ ready' = Returned(ready, LanesOf(c))
    /\ lane' = [l \in Lane |-> IF l[1] = c THEN Idle ELSE lane[l]]
    /\ UNCHANGED <<retry, dlq, hand, history>>

\* The broker restarts: every consumer is cut off, and only the messages that
\* were published persistent are still there.
Surviving(q) == [m \in Message |-> IF m.durable THEN q[m] ELSE 0]

BrokerRestart ==
    /\ Spend("restarts")
    /\ consuming' = {}
    /\ ready' = Surviving(Returned(ready, Lane))
    /\ retry' = Surviving(retry)
    /\ dlq' = Surviving(dlq)
    /\ lane' = [l \in Lane |-> Idle]
    /\ lost' = [t \in Tasks |->
                  IF \E m \in Message :
                        /\ m.task = t
                        /\ ~m.durable
                        /\ ready[m] > 0 \/ retry[m] > 0 \/ dlq[m] > 0 \/ Holding(Lane, m) # {}
                  THEN lost[t] \cup {"broker_restart"}
                  ELSE lost[t]]
    /\ UNCHANGED <<hand, published, completed, failures>>

\* requeue_dlq, first call: the messages (up to its limit, which the bounds of
\* the model never reach) are acknowledged off the dlq.  One call at a time.
RequeueTake ==
    /\ hand = Empty
    /\ dlq # Empty
    /\ Spend("requeues")
    /\ hand' = dlq
    /\ dlq' = Empty
    /\ UNCHANGED <<ready, retry, lane, consuming, history>>

\* requeue_dlq, one publish of its loop: no headers and no delivery mode, so a
\* fresh retry budget and a transient message.
RequeuePublish(m) ==
    /\ hand[m] > 0
    /\ hand' = Take(hand, m)
    /\ ready' = Put(ready, [task |-> m.task, attempt |-> 0, durable |-> FALSE])
    /\ UNCHANGED <<retry, dlq, lane, consuming, history, budget>>

\* requeue_dlq, a publish fails: the loop ends and what it held is gone.
RequeueRefused ==
    /\ hand # Empty
    /\ Spend("refused")
    /\ lost' = [t \in Tasks |->
                  IF \E m \in Message : m.task = t /\ hand[m] > 0
                  THEN lost[t] \cup {"requeue_refused"}
                  ELSE lost[t]]
    /\ hand' = Empty
    /\ UNCHANGED <<queues, lane, consuming, published, completed, failures>>

\* purge_queue on any of the three queues: only ready messages are dropped.
PurgeQueue(name) ==
    LET q == CASE name = "main" -> ready [] name = "retry" -> retry [] name = "dlq" -> dlq
    IN  /\ q # Empty
        /\ Spend("purges")
        /\ ready' = IF name = "main" THEN Empty ELSE ready
        /\ retry' = IF name = "retry" THEN Empty ELSE retry
        /\ dlq' = IF name = "dlq" THEN Empty ELSE dlq
        /\ lost' = [t \in Tasks |->
                      IF \E m \in Message : m.task = t /\ q[m] > 0
                      THEN lost[t] \cup {"purged"}
                      ELSE lost[t]]
        /\ UNCHANGED <<lane, consuming, hand, published, completed, failures>>

Settle(l) == HandlerOk(l) \/ HandlerFails(l) \/ Republish(l) \/ RepublishRefused(l) \/ Ack(l)

Next ==
    \/ \E t \in Tasks : Publish(t)
    \/ \E c \in Consumers : Register(c) \/ Disconnect(c)
    \/ \E l \in Lane : \E m \in Message : Deliver(l, m)
    \/ \E l \in Lane : HandlerOk(l)
    \/ \E l \in Lane : HandlerFails(l)
    \/ \E l \in Lane : Republish(l)
    \/ \E l \in Lane : RepublishRefused(l)
    \/ \E l \in Lane : Ack(l)
    \/ \E m \in Message : Expire(m)
    \/ \E m \in Message : RequeuePublish(m)
    \/ BrokerRestart
    \/ RequeueTake
    \/ RequeueRefused
    \/ \E name \in {"main", "retry", "dlq"} : PurgeQueue(name)

Spec == Init /\ [][Next]_vars

\* The scheduling the code relies on: a handler ends (every call it makes has a
\* timeout), a settled delivery is acked, TTLs expire, a stopped worker is
\* restarted (compose's restart: unless-stopped), and the broker's FIFO queues
\* starve no message while some consumer keeps becoming free.
Fairness ==
    /\ \A c \in Consumers : WF_vars(Register(c))
    /\ \A l \in Lane : WF_vars(Settle(l))
    /\ \A m \in Message : WF_vars(Expire(m))
    /\ \A m \in Message : SF_vars(\E l \in Lane : Deliver(l, m))
    /\ WF_vars(\E m \in Message : RequeuePublish(m))

FairSpec == Spec /\ Fairness

-----------------------------------------------------------------------------
Bag == [Message -> Nat]

\* Every variable has its type.
TypeOK ==
    /\ ready \in Bag
    /\ retry \in Bag
    /\ dlq \in Bag
    /\ hand \in Bag
    /\ lane \in [Lane -> {Idle} \cup Busy]
    /\ consuming \in SUBSET Consumers
    /\ published \in [Tasks -> Nat]
    /\ completed \in SUBSET Tasks
    /\ failures \in [Tasks -> 0..MaxRetries]
    /\ lost \in [Tasks -> SUBSET Cause]
    /\ budget \in [{"disconnects", "refused", "restarts", "requeues", "purges"} -> Nat]

\* The copies of a task that the system still has to act on or keep: in a
\* queue, held by requeue_dlq, or in a lane that has not settled it yet.
Kept(m) ==
    \/ ready[m] > 0
    \/ retry[m] > 0
    \/ dlq[m] > 0
    \/ hand[m] > 0
    \/ \E l \in Lane : lane[l] # Idle /\ lane[l].msg = m /\ lane[l].at # "acking"

InSystem(t) == \E m \in Message : m.task = t /\ Kept(m)

\* No published task disappears: until a handler has finished it, a copy of it
\* is in a queue, in a lane or in the requeue loop's hands, unless one of the
\* four named causes destroyed a copy.  In particular a crash anywhere in
\* process_delivery, or between republish and ack, destroys nothing.
NoTaskVanishes ==
    \A t \in Tasks :
        published[t] > 0 => t \in completed \/ InSystem(t) \/ lost[t] # {}

\* The x-attempt header of a message never exceeds the number of handler runs
\* of its task that failed, whatever is redelivered, duplicated or requeued: a
\* crash or a duplicate does not use up the retry budget.
HonestAttempts ==
    \A m \in Message :
        (Kept(m) \/ Holding(Lane, m) # {}) => m.attempt <= failures[m.task]

\* A lane that failed its handler and is about to republish has counted it.
FailureCounted ==
    \A l \in Lane :
        lane[l] # Idle /\ lane[l].at = "republishing" =>
            lane[l].msg.attempt < failures[lane[l].msg.task]

\* A message still to be handled has retries left; one past them is in the dlq
\* or taken off it.
AttemptsPlaced ==
    \A m \in Message :
        /\ (ready[m] > 0 \/ retry[m] > 0 \/ Holding(Lane, m) # {}) => m.attempt < MaxRetries
        /\ (dlq[m] > 0 \/ hand[m] > 0) => m.attempt = MaxRetries

\* A task reaches the dlq only after MaxRetries failed handler runs: neither a
\* crash nor a redelivered duplicate shortens its retries (next_action).
DeadLettersAreExhausted ==
    \A m \in Message : dlq[m] > 0 => failures[m.task] = MaxRetries

\* Whatever is in the queues, is held by a lane or was lost had been published.
OnlyPublished ==
    /\ \A m \in Message : Kept(m) \/ Holding(Lane, m) # {} => published[m.task] > 0
    /\ \A t \in Tasks : lost[t] # {} => published[t] > 0

Dead(t) == \E m \in Message : m.task = t /\ dlq[m] > 0

\* What the queues, lanes and counts say of the tasks, for the abstract
\* specification.
Promise == INSTANCE TaskPromise WITH
    kept      <- {t \in Tasks : InSystem(t)},
    dead      <- {t \in Tasks : Dead(t)},
    done      <- completed,
    failed    <- failures,
    destroyed <- {t \in Tasks : lost[t] # {}}

\* The queues, the workers and the two operations of the gateway implement the
\* promise: whatever crashes, is redelivered, duplicated, requeued or purged, a task
\* is run only while it is there, let go of only by a run that finished it, set
\* aside only out of retries, and otherwise taken only by a cause on record.
DeliversAsPromised == Promise!PromiseSpec

\* Every published task is eventually finished, dead-lettered or destroyed by
\* one of the causes: no delivery hot-loops between the three queues for ever.
EventuallySettled ==
    \A t \in Tasks :
        published[t] > 0 ~>
            (t \in completed \/ lost[t] # {} \/ Dead(t))

=============================================================================
