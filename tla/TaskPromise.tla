---------------------------- MODULE TaskPromise ----------------------------
(***************************************************************************)
(* What deedlit.ingest/broker.py promises every task published on a queue, *)
(* with no queues, workers, messages or headers in it: delivery at least   *)
(* once, with at most MaxRetries failed runs before the dead-letter queue. *)
(* TaskDelivery implements it.                                             *)
(***************************************************************************)
EXTENDS Integers

CONSTANTS Tasks, MaxRetries

VARIABLES
    published,  \* how often each task was published
    kept,       \* the tasks of which a copy is there to be run, or set aside
    dead,       \* the tasks with a copy in the dead-letter queue
    done,       \* the tasks some run has finished
    failed,     \* failed runs, saturating
    destroyed   \* the tasks of which one of the named causes took a copy

PromiseTypes ==
    /\ published \in [Tasks -> Nat]
    /\ kept \subseteq Tasks /\ dead \subseteq Tasks
    /\ done \subseteq Tasks /\ destroyed \subseteq Tasks
    /\ failed \in [Tasks -> 0..MaxRetries]

PublishedStays(t) == published'[t] = published[t]
KeptStays(t) == t \in kept' <=> t \in kept
DeadStays(t) == t \in dead' <=> t \in dead
DoneStays(t) == t \in done' <=> t \in done
FailedStays(t) == failed'[t] = failed[t]
DestroyedStays(t) == t \in destroyed' <=> t \in destroyed

Accepts(t) ==
    /\ published'[t] = published[t] + 1 /\ t \in kept'
    /\ DeadStays(t) /\ DoneStays(t) /\ FailedStays(t) /\ DestroyedStays(t)

\* Only a task that is there is run.  It is let go of by a run that finished
\* it, though not for good: a copy may come back and run again.
Finishes(t) ==
    /\ t \in kept /\ t \in done'
    /\ PublishedStays(t) /\ DeadStays(t) /\ FailedStays(t) /\ DestroyedStays(t)

FailsRun(t) ==
    /\ t \in kept /\ t \in kept'
    /\ failed[t] < MaxRetries /\ failed'[t] = failed[t] + 1
    /\ PublishedStays(t) /\ DeadStays(t) /\ DoneStays(t) /\ DestroyedStays(t)

\* A task that used up its retries is set aside, and kept.
Buries(t) ==
    /\ t \in kept /\ t \in kept' /\ t \in dead' /\ failed[t] = MaxRetries
    /\ PublishedStays(t) /\ DoneStays(t) /\ FailedStays(t) /\ DestroyedStays(t)

Revives(t) ==
    /\ t \in kept /\ t \in kept' /\ t \notin dead'
    /\ PublishedStays(t) /\ DoneStays(t) /\ FailedStays(t) /\ DestroyedStays(t)

\* Nothing happens to the task, or a delivery that was not acknowledged comes
\* back.
ComesBack(t) ==
    /\ t \in kept => t \in kept'
    /\ t \in kept' => published[t] > 0
    /\ PublishedStays(t) /\ DeadStays(t) /\ DoneStays(t) /\ FailedStays(t)
    /\ DestroyedStays(t)

\* The exception: what is taken is taken by a cause that is on record.
IsDestroyed(t) ==
    /\ t \in destroyed' /\ published[t] > 0
    /\ t \in dead' => t \in dead
    /\ PublishedStays(t) /\ DoneStays(t) /\ FailedStays(t)

\* A restart, a purge or a requeue touches many tasks at once.
PromiseNext ==
    /\ PromiseTypes'
    /\ \A t \in Tasks :
           \/ Accepts(t) \/ Finishes(t) \/ FailsRun(t) \/ Buries(t) \/ Revives(t)
           \/ ComesBack(t) \/ IsDestroyed(t)

PromiseInit ==
    /\ published = [t \in Tasks |-> 0] /\ failed = [t \in Tasks |-> 0]
    /\ kept = {} /\ dead = {} /\ done = {} /\ destroyed = {}

PromiseSpec ==
    PromiseInit /\ [][PromiseNext]_<<published, kept, dead, done, failed, destroyed>>

=============================================================================
