----------------------------- MODULE QueuesPage -----------------------------
(***************************************************************************)
(* The queue page of the library UI (app/admin/queues/page.tsx): a table   *)
(* of live depths polled every three seconds, a headline number of dead    *)
(* letters, peeks into single queues, and the two destructive operations,  *)
(* requeueing and purging a dead-letter queue.                             *)
(*                                                                         *)
(* A poll is not aborted by the next one, so answers overlap and may land  *)
(* in any order.  An answer the gateway could not make leaves the table as *)
(* it was; a single queue it could not reach is answered as an empty,      *)
(* unreachable row.                                                        *)
(***************************************************************************)
EXTENDS Naturals, Sequences

CONSTANTS Bases,           \* stages with a dead-letter queue (DLQ_BASES)
          Letters,         \* task messages that can be dead letters
          MaxQueuePolls,   \* bound on polls in flight at once
          MaxQueueClicks,  \* bound on the operator's clicks
          MaxQueueFaults   \* bound on answers that go wrong

VARIABLES held,        \* Letters -> where the message is: <<base, "live" or "dlq">>, or Nowhere
          depths,      \* the table: a function on the queues, or NoTable
          queuePolls,  \* slot -> a poll in flight, or NoPoll
          peeked,      \* queue -> the letters of the last peek, or NotPeeked
          expanded,    \* the live queue whose inspector is open, or NoQueue
          queueCalls,  \* calls in flight: peek, requeue, purge, tasks
          told,        \* the notice or the error the page shows
          ledger,      \* the task history shown: letters, or NotPeeked
          queueClicks, queueFaults

queueVars == <<held, depths, queuePolls, peeked, expanded, queueCalls, told, ledger, queueClicks, queueFaults>>

Queues == Bases \X {"live", "dlq"}
Nowhere == <<"", "">>
NoQueue == Nowhere
NoTable == <<>>
NotPeeked == {"not asked"}
NoPoll == [stage |-> "none", table |-> NoTable]
Slots == 1..MaxQueuePolls

QueueClick == queueClicks < MaxQueueClicks /\ queueClicks' = queueClicks + 1
QueueFault == queueFaults < MaxQueueFaults /\ queueFaults' = queueFaults + 1

----------------------------------------------------------------------------
(* The broker and the gateway's answers.                                   *)

In(q) == {l \in Letters : held[l] = q}

\* A queue that could not be reached reads as an idle one.
Stat(q, out) == [messages |-> IF q \in out THEN {} ELSE In(q), reachable |-> q \notin out]

\* A worker gives up on a letter: it moves to the stage's dead-letter queue.
DeadLetter(l) == /\ held[l][2] = "live"
                 /\ held' = [held EXCEPT ![l] = <<held[l][1], "dlq">>]
                 /\ UNCHANGED <<depths, queuePolls, peeked, expanded, queueCalls, told, ledger, queueClicks, queueFaults>>

\* A worker finishes with a letter.
Processed(l) == /\ held[l][2] = "live"
                /\ held' = [held EXCEPT ![l] = Nowhere]
                /\ UNCHANGED <<depths, queuePolls, peeked, expanded, queueCalls, told, ledger, queueClicks, queueFaults>>

----------------------------------------------------------------------------
(* The table.                                                              *)

\* refresh(): on mount, every three seconds, on the button and after a
\* requeue or a purge; earlier requests stay in flight.
Ask(polls) == \E s \in Slots : /\ queuePolls[s] = NoPoll
                               /\ polls = [queuePolls EXCEPT ![s] = [NoPoll EXCEPT !.stage = "sent"]]
Refreshed(polls) == \/ Ask(polls)
                    \/ (\A s \in Slots : queuePolls[s] # NoPoll) /\ polls = queuePolls

PollQueues == /\ Ask(queuePolls')
              /\ UNCHANGED <<held, depths, peeked, expanded, queueCalls, told, ledger, queueClicks, queueFaults>>

\* GET /queues: one row per queue, read one by one by the gateway.
DepthsServed(s) ==
    /\ queuePolls[s].stage = "sent"
    /\ \E out \in {{}, Queues} :
          /\ out = {} \/ QueueFault
          /\ out = {} => UNCHANGED queueFaults
          /\ queuePolls' = [queuePolls EXCEPT ![s] =
                               [stage |-> "answered", table |-> [q \in Queues |-> Stat(q, out)]]]
    /\ UNCHANGED <<held, depths, peeked, expanded, queueCalls, told, ledger, queueClicks>>

\* An error answer has no array of queues: the table stays.
DepthsRefused(s) == /\ queuePolls[s].stage = "sent"
                    /\ QueueFault
                    /\ queuePolls' = [queuePolls EXCEPT ![s] = [stage |-> "answered", table |-> NoTable]]
                    /\ UNCHANGED <<held, depths, peeked, expanded, queueCalls, told, ledger, queueClicks>>

\* the table as the first answer left it: an effect with a stale closure
TableOfFirst(answer) == IF depths = NoTable THEN answer ELSE depths
Table(answer) == IF answer = NoTable THEN depths ELSE answer

DepthsArrive(s) == /\ queuePolls[s].stage = "answered"
                   /\ depths' = Table(queuePolls[s].table)
                   /\ queuePolls' = [queuePolls EXCEPT ![s] = NoPoll]
                   /\ UNCHANGED <<held, peeked, expanded, queueCalls, told, ledger, queueClicks, queueFaults>>

\* A row of the table, and the letters the headline counts.
Row(q) == IF depths = NoTable THEN [messages |-> {}, reachable |-> FALSE] ELSE depths[q]
DlqTotal == UNION {Row(q).messages : q \in {x \in Queues : x[2] = "dlq"}}

----------------------------------------------------------------------------
(* Peeking, requeueing, purging, and the task history.                     *)

Call(kind, q) == [id |-> queueClicks, kind |-> kind, queue |-> q, stage |-> "sent", got |-> {}]

Peek(q) == /\ QueueClick
           /\ queueCalls' = queueCalls \union {Call("peek", q)}
           /\ told' = ""
           /\ UNCHANGED <<held, depths, queuePolls, peeked, expanded, ledger, queueFaults>>

\* The inspector of a live queue: closing it keeps what was peeked, opening
\* it asks only the first time.
ToggleInspect(q) ==
    /\ QueueClick
    /\ q[2] = "live" /\ Row(q).reachable
    /\ expanded' = IF expanded = q THEN NoQueue ELSE q
    /\ queueCalls' = IF expanded # q /\ peeked[q] = NotPeeked THEN queueCalls \union {Call("peek", q)} ELSE queueCalls
    /\ told' = IF expanded # q /\ peeked[q] = NotPeeked THEN "" ELSE told
    /\ UNCHANGED <<held, depths, queuePolls, peeked, ledger, queueFaults>>

\* The button is live while the table shows dead letters, and asks first.
RequeueDlq(b) == /\ QueueClick
                 /\ Row(<<b, "dlq">>).messages # {}
                 /\ queueCalls' = queueCalls \union {Call("requeue", <<b, "dlq">>)}
                 /\ told' = ""
                 /\ UNCHANGED <<held, depths, queuePolls, peeked, expanded, ledger, queueFaults>>

Purge(b) == /\ QueueClick
            /\ queueCalls' = queueCalls \union {Call("purge", <<b, "dlq">>)}
            /\ told' = ""
            /\ UNCHANGED <<held, depths, queuePolls, peeked, expanded, ledger, queueFaults>>

LookupTasks == /\ QueueClick
               /\ queueCalls' = queueCalls \union {Call("tasks", NoQueue)}
               /\ told' = ""
               /\ UNCHANGED <<held, depths, queuePolls, peeked, expanded, ledger, queueFaults>>

Moved(c) == CASE c.kind = "requeue" -> [l \in Letters |-> IF held[l] = c.queue THEN <<c.queue[1], "live">> ELSE held[l]]
              [] c.kind = "purge" -> [l \in Letters |-> IF held[l] = c.queue THEN Nowhere ELSE held[l]]
              [] OTHER -> held

Reported(c) == IF c.kind = "tasks" THEN {l \in Letters : held[l] # Nowhere} ELSE In(c.queue)

CallServed(c) ==
    /\ c.stage = "sent"
    /\ held' = Moved(c)
    /\ queueCalls' = (queueCalls \ {c}) \union {[c EXCEPT !.stage = "answered", !.got = Reported(c)]}
    /\ UNCHANGED <<depths, queuePolls, peeked, expanded, told, ledger, queueClicks, queueFaults>>

\* No answer is checked for its status: a refusal is read as an answer with
\* nothing in it.
CallRefused(c) ==
    /\ c.stage = "sent"
    /\ QueueFault
    /\ queueCalls' = (queueCalls \ {c}) \union {[c EXCEPT !.stage = "answered"]}
    /\ UNCHANGED <<held, depths, queuePolls, peeked, expanded, told, ledger, queueClicks>>

PeekArrives(c) == /\ c.stage = "answered" /\ c.kind = "peek"
                  /\ peeked' = [peeked EXCEPT ![c.queue] = c.got]
                  /\ queueCalls' = queueCalls \ {c}
                  /\ UNCHANGED <<held, depths, queuePolls, expanded, told, ledger, queueClicks, queueFaults>>

\* A requeue or a purge empties the card and asks for the table again.
Emptied(c) == /\ c.stage = "answered" /\ c.kind \in {"requeue", "purge"}
              /\ told' = c.kind
              /\ peeked' = [peeked EXCEPT ![c.queue] = {}]
              /\ Refreshed(queuePolls')
              /\ queueCalls' = queueCalls \ {c}
              /\ UNCHANGED <<held, depths, expanded, ledger, queueClicks, queueFaults>>

TasksArrive(c) == /\ c.stage = "answered" /\ c.kind = "tasks"
                  /\ ledger' = c.got
                  /\ queueCalls' = queueCalls \ {c}
                  /\ UNCHANGED <<held, depths, queuePolls, peeked, expanded, told, queueClicks, queueFaults>>

----------------------------------------------------------------------------
QueuesInit ==
    /\ held \in [Letters -> Bases \X {"live"}]
    /\ depths = NoTable
    /\ queuePolls = [s \in Slots |-> NoPoll]
    /\ peeked = [q \in Queues |-> NotPeeked]
    /\ expanded = NoQueue
    /\ queueCalls = {} /\ told = "" /\ ledger = NotPeeked
    /\ queueClicks = 0 /\ queueFaults = 0

DepthsMove == \/ PollQueues
              \/ \E s \in Slots : DepthsServed(s) \/ DepthsRefused(s) \/ DepthsArrive(s)

QueuesNext ==
    \/ \E l \in Letters : DeadLetter(l) \/ Processed(l)
    \/ DepthsMove
    \/ \E q \in Queues : Peek(q) \/ ToggleInspect(q)
    \/ \E b \in Bases : RequeueDlq(b) \/ Purge(b)
    \/ LookupTasks
    \/ \E c \in queueCalls : CallServed(c) \/ CallRefused(c) \/ PeekArrives(c) \/ Emptied(c) \/ TasksArrive(c)

\* The interval fires and every request gets some answer; each answer is
\* handled.  Nothing is assumed of the operator, or of the workers.
QueuesFairness == /\ WF_queueVars(PollQueues)
                  /\ \A s \in Slots : /\ WF_queueVars(DepthsServed(s) \/ DepthsRefused(s))
                                      /\ WF_queueVars(DepthsArrive(s))

QueuesSpec == QueuesInit /\ [][QueuesNext]_queueVars /\ QueuesFairness

----------------------------------------------------------------------------
(* A dead letter that stays where it is ends up counted, and stays counted, *)
(* at the top of the page (page.tsx:368: "a stuck dead-letter is            *)
(* impossible to miss"): late answers of older polls, refusals and          *)
(* unreachable queues only delay it.                                        *)
StuckLettersAreShown ==
    \A l \in Letters : <>[](held[l][2] = "dlq") => <>[](l \in DlqTotal)
=============================================================================
