-------------------------- MODULE IngestDag_proofs --------------------------
(***************************************************************************)
(* Proofs about IngestDag for any number of workers, any retry limit and   *)
(* any bounds: its types, and the fan-in (FanInHolds) with the graph's     *)
(* counterpart (NodeOwed).                                                 *)
(***************************************************************************)
EXTENDS IngestDag, TLAPS

\* A worker that is not idle holds a job.
LEMMA BusyWorker ==
  ASSUME TypeOK, NEW w \in Workers, slot[w] # Idle
  PROVE  slot[w] \in Job /\ slot[w].msg \in Message /\ slot[w].msg.stage \in Stage
BY DEF TypeOK, Job, Message

\* Publishing keeps a bag of messages, and every message in it.
LEMMA PublishedBag ==
  ASSUME NEW q \in [Message -> Nat], NEW S
  PROVE  /\ Published(q, S) \in [Message -> Nat]
         /\ \A m \in Message : q[m] > 0 => Published(q, S)[m] > 0
BY DEF Published

\* A message put on a queue is one more of it.
LEMMA PutBag ==
  ASSUME NEW q \in [Message -> Nat], NEW m \in Message
  PROVE  /\ Put(q, m) \in [Message -> Nat]
         /\ Put(q, m)[m] > 0
         /\ \A n \in Message : q[n] > 0 => Put(q, m)[n] > 0
BY DEF Put

\* A message made for a stage is a message of that stage.
LEMMA FreshMessage ==
  ASSUME NEW s \in Stage
  PROVE  Fresh(s) \in Message /\ Fresh(s).stage = s
BY RetriesAssumption DEF Fresh, Message

\* A handler that raises leaves its worker idle and every queued message in
\* place, and its own stage queued again or dead-lettered.
LEMMA RaiseEffect ==
  ASSUME TypeOK, NEW w \in Workers, slot[w] # Idle, NEW S, Raise(w, S)
  PROVE  /\ slot' = [slot EXCEPT ![w] = Idle]
         /\ pending' \in [Message -> Nat]
         /\ dead' \in SUBSET Stage /\ dead \subseteq dead'
         /\ \A m \in Message : pending[m] > 0 => pending'[m] > 0
         /\ \/ \E n \in Message : n.stage = slot[w].msg.stage /\ pending'[n] > 0
            \/ slot[w].msg.stage \in dead'
<1>1. slot[w].msg \in Message /\ pending \in [Message -> Nat] /\ dead \in SUBSET Stage
  BY BusyWorker DEF TypeOK
<1>2. slot' = [slot EXCEPT ![w] = Idle]
  BY DEF Raise, Goto
<1>3. PICK q \in [Message -> Nat] : q = Published(pending, S)
  BY <1>1, PublishedBag
<1>4. \A m \in Message : pending[m] > 0 => q[m] > 0
  BY <1>1, <1>3, PublishedBag
<1>5. CASE slot[w].msg.attempt + 1 < MaxRetries
  <2>1. [slot[w].msg EXCEPT !.attempt = @ + 1] \in Message
    BY <1>1, <1>5, RetriesAssumption DEF Message
  <2>2. PICK n \in Message : n = [slot[w].msg EXCEPT !.attempt = @ + 1]
    BY <2>1
  <2>3. n.stage = slot[w].msg.stage
    BY <1>1, <2>2 DEF Message
  <2>4. pending' = Put(q, n) /\ dead' = dead
    BY <1>1, <1>3, <1>5, <2>2, RetriesAssumption DEF Raise, Message
  <2>. QED
    BY <1>1, <1>2, <1>3, <1>4, <2>3, <2>4, PutBag
<1>6. CASE slot[w].msg.attempt + 1 >= MaxRetries
  <2>1. pending' = q /\ dead' = dead \cup {slot[w].msg.stage}
    BY <1>1, <1>3, <1>6, RetriesAssumption DEF Raise, Message
  <2>2. slot[w].msg.stage \in Stage
    BY <1>1 DEF Message
  <2>. QED
    BY <1>1, <1>2, <1>4, <2>1, <2>2
<1>. QED
  BY <1>1, <1>5, <1>6, RetriesAssumption DEF Message

\* What a read of the record leaves the worker with.
LEMMA ReadEffect ==
  ASSUME TypeOK, NEW w \in Workers, slot[w] # Idle, NEW next \in Step, ReadRecord(w, next)
  PROVE  /\ \E r \in Text \cup {"none"} :
               slot' = [slot EXCEPT ![w] = [slot[w] EXCEPT !.record = r, !.at = next]]
         /\ damage \subseteq damage'
         /\ damage' \in SUBSET Damage
         /\ budget' \in [{"scans", "toggles", "crashes", "failures", "degraded", "deletes"} -> Nat]
<1>1. RecordText \in Text \cup {"none"}
  BY DEF RecordText, TypeOK
<1>2. CASE /\ slot' = [slot EXCEPT ![w] = [slot[w] EXCEPT !.record = RecordText, !.at = next]]
           /\ UNCHANGED <<damage, budget>>
  BY <1>1, <1>2 DEF TypeOK
<1>3. CASE /\ Spend("degraded")
           /\ damage' = damage \cup {"degraded_read"}
           /\ slot' = [slot EXCEPT ![w] = [slot[w] EXCEPT !.record = "none", !.at = next]]
  <2>1. budget' \in [{"scans", "toggles", "crashes", "failures", "degraded", "deletes"} -> Nat]
    BY <1>3 DEF Spend, TypeOK
  <2>. QED
    BY <1>3, <2>1 DEF TypeOK, Damage
<1>. QED
  BY <1>2, <1>3 DEF ReadRecord, Goto

\* What is spent of a bound leaves the bounds numbers.
LEMMA SpendEffect ==
  ASSUME TypeOK, NEW b \in {"scans", "toggles", "crashes", "failures", "degraded", "deletes"},
         Spend(b)
  PROVE  budget' \in [{"scans", "toggles", "crashes", "failures", "degraded", "deletes"} -> Nat]
BY DEF Spend, TypeOK
-----------------------------------------------------------------------------
\* The types, and the shape of the jobs that TypeOK's induction needs.
Sound == TypeOK /\ ShapeOK

\* A step of worker w that leaves it idle or with a well-shaped job, and all
\* else typed, is sound.
LEMMA SlotSound ==
  ASSUME Sound, NEW w \in Workers, NEW j \in Job \cup {Idle},
         j # Idle => JobShape(j),
         slot' = [slot EXCEPT ![w] = j]
  PROVE  slot' \in [Workers -> Job \cup {Idle}] /\ ShapeOK'
BY DEF Sound, TypeOK, ShapeOK

\* Every step keeps the types and the shape of the jobs.
LEMMA SoundStep ==
  ASSUME Sound, [Next]_vars
  PROVE  Sound'
<1>. USE DEF Sound
<1>1. CASE Scan
  <2>1. budget' \in [{"scans", "toggles", "crashes", "failures", "degraded", "deletes"} -> Nat]
    BY <1>1, SpendEffect DEF Scan
  <2>2. Fresh("ingest") \in Message
    BY FreshMessage DEF Stage
  <2>3. pending' \in [Message -> Nat]
    BY <1>1, <2>2, PutBag DEF Scan, TypeOK
  <2>. QED
    BY <1>1, <2>1, <2>3 DEF Scan, TypeOK, ShapeOK, store
<1>2. CASE Toggle
  <2>1. budget' \in [{"scans", "toggles", "crashes", "failures", "degraded", "deletes"} -> Nat]
    BY <1>2, SpendEffect DEF Toggle
  <2>. QED
    BY <1>2, <2>1 DEF Toggle, TypeOK, ShapeOK, store
<1>3. ASSUME NEW w \in Workers, NEW m \in Message, Take(w, m) PROVE Sound'
  <2>. DEFINE j == [msg |-> m, at |-> "start", record |-> "none", dense |-> "unread",
                    sparse |-> "unread", todo |-> {}]
  <2>1. j \in Job /\ JobShape(j)
    BY DEF Job, Step, JobShape
  <2>2. slot' = [slot EXCEPT ![w] = j]
    BY <1>3 DEF Take, Goto
  <2>. HIDE DEF j
  <2>3. slot' \in [Workers -> Job \cup {Idle}] /\ ShapeOK'
    BY <2>1, <2>2, SlotSound
  <2>4. pending' \in [Message -> Nat]
    BY <1>3 DEF Take, TypeOK
  <2>. QED
    BY <1>3, <2>3, <2>4 DEF Take, TypeOK, store
<1>4. ASSUME NEW w \in Workers, Ack(w) PROVE Sound'
  <2>1. slot' \in [Workers -> Job \cup {Idle}] /\ ShapeOK'
    BY <1>4, SlotSound DEF Ack, Goto
  <2>. QED
    BY <1>4, <2>1 DEF Ack, TypeOK, store
<1>5. ASSUME NEW w \in Workers, NEW S, slot[w] # Idle, Raise(w, S),
             UNCHANGED <<llm, store, del, damage>>,
             budget' \in [{"scans", "toggles", "crashes", "failures", "degraded", "deletes"} -> Nat]
      PROVE Sound'
  <2>1. slot' \in [Workers -> Job \cup {Idle}] /\ ShapeOK'
    BY <1>5, RaiseEffect, SlotSound
  <2>2. pending' \in [Message -> Nat] /\ dead' \in SUBSET Stage
    BY <1>5, RaiseEffect
  <2>. QED
    BY <1>5, <2>1, <2>2 DEF TypeOK, store
<1>6. ASSUME NEW w \in Workers, StageFails(w) PROVE Sound'
  BY <1>5, <1>6, SpendEffect DEF StageFails
<1>7. ASSUME NEW w \in Workers, FanoutFails(w) PROVE Sound'
  <2>1. slot[w] # Idle /\ \E S : Raise(w, S)
    BY <1>7 DEF FanoutFails, Idle
  <2>. QED
    BY <1>5, <1>7, <2>1, SpendEffect DEF FanoutFails
<1>8. ASSUME NEW w \in Workers, DescriptionRefused(w) PROVE Sound'
  BY <1>5, <1>8 DEF DescriptionRefused, At, TypeOK
<1>9. ASSUME NEW w \in Workers, LabelOrphan(w) PROVE Sound'
  BY <1>5, <1>9 DEF LabelOrphan, At, TypeOK
<1>10. ASSUME NEW w \in Workers, Crash(w) PROVE Sound'
  <2>1. slot' \in [Workers -> Job \cup {Idle}] /\ ShapeOK'
    BY <1>10, SlotSound DEF Crash, Goto
  <2>2. pending' \in [Message -> Nat]
    BY <1>10, BusyWorker, PutBag DEF Crash, TypeOK
  <2>. QED
    BY <1>10, <2>1, <2>2, SpendEffect DEF Crash, TypeOK, store
<1>11. ASSUME NEW w \in Workers, Fanout(w) PROVE Sound'
  <2>1. slot[w] # Idle
    BY <1>11 DEF Fanout, Idle
  <2>2. slot[w] \in Job /\ JobShape(slot[w])
    BY <2>1, BusyWorker DEF ShapeOK
  <2>3. PICK s \in Publishable(slot[w]) :
           /\ pending' = Put(pending, Fresh(s))
           /\ slot' = [slot EXCEPT ![w] =
                  [slot[w] EXCEPT !.todo = @ \ {s},
                                  !.at = IF slot[w].todo = {s} THEN "done" ELSE "fanout"]]
    BY <1>11 DEF Fanout, Goto
  <2>4. s \in slot[w].todo /\ s \in Stage
    BY <2>2 DEF Publishable, Job
  <2>5. PICK j : j = [slot[w] EXCEPT !.todo = @ \ {s},
                                  !.at = IF slot[w].todo = {s} THEN "done" ELSE "fanout"]
    OBVIOUS
  <2>6. j \in Job
    BY <2>2, <2>5 DEF Job, Step
  <2>7. JobShape(j)
    BY <1>11, <2>2, <2>5 DEF JobShape, Job, Fanout
  <2>8. slot' \in [Workers -> Job \cup {Idle}] /\ ShapeOK'
    BY <2>3, <2>5, <2>6, <2>7, SlotSound
  <2>9. pending' \in [Message -> Nat]
    BY <2>3, <2>4, FreshMessage, PutBag DEF TypeOK
  <2>. QED
    BY <1>11, <2>8, <2>9 DEF Fanout, TypeOK, store
<1>12. ASSUME NEW w \in Workers, IngestCatalog(w) PROVE Sound'
  <2>1. slot[w] \in Job /\ JobShape(slot[w])
    BY <1>12, BusyWorker DEF IngestCatalog, At, ShapeOK
  <2>2. PICK j : j = [slot[w] EXCEPT !.at = "thumbnail"]
    OBVIOUS
  <2>3. j \in Job /\ JobShape(j)
    BY <1>12, <2>1, <2>2 DEF IngestCatalog, At, Job, Step, JobShape
  <2>4. slot' \in [Workers -> Job \cup {Idle}] /\ ShapeOK'
    BY <1>12, <2>2, <2>3, SlotSound DEF IngestCatalog, Goto
  <2>. QED
    BY <1>12, <2>4 DEF IngestCatalog, TypeOK, Text
<1>13. ASSUME NEW w \in Workers, IngestThumbnail(w) PROVE Sound'
  <2>1. slot[w] \in Job /\ JobShape(slot[w])
    BY <1>13, BusyWorker DEF IngestThumbnail, At, ShapeOK
  <2>2. PICK t \in SUBSET Stage : t = {"embed.dense", "embed.sparse", "index.graph"}
                                       \cup (IF llm THEN {"label"} ELSE {})
    BY DEF Stage
  <2>3. PICK j : j = [slot[w] EXCEPT !.at = "fanout", !.todo = t]
    OBVIOUS
  <2>4. j \in Job /\ JobShape(j)
    BY <1>13, <2>1, <2>3 DEF IngestThumbnail, At, Job, Step, JobShape
  <2>5. slot' \in [Workers -> Job \cup {Idle}] /\ ShapeOK'
    BY <1>13, <2>2, <2>3, <2>4, SlotSound DEF IngestThumbnail, Goto
  <2>. QED
    BY <1>13, <2>5 DEF IngestThumbnail, TypeOK, Content
<1>14. ASSUME NEW w \in Workers, DenseStore(w) PROVE Sound'
  <2>1. slot[w] \in Job /\ JobShape(slot[w])
    BY <1>14, BusyWorker DEF DenseStore, At, ShapeOK
  <2>2. PICK j : j = [slot[w] EXCEPT !.at = "fanout", !.todo = {"index.search"}]
    OBVIOUS
  <2>3. j \in Job /\ JobShape(j)
    BY <1>14, <2>1, <2>2 DEF DenseStore, At, Job, Step, Stage, JobShape
  <2>4. slot' \in [Workers -> Job \cup {Idle}] /\ ShapeOK'
    BY <1>14, <2>2, <2>3, SlotSound DEF DenseStore, Goto
  <2>. QED
    BY <1>14, <2>4 DEF DenseStore, TypeOK, Content
\* The stages that read the record: the job read for is as well-shaped.
<1>15. ASSUME NEW w \in Workers, NEW next \in {"store", "write"},
              slot[w] # Idle, ReadRecord(w, next),
              slot[w].msg.stage \in {"embed.sparse", "index.graph", "label"} \/ slot[w].at = "record",
              next = "store" => slot[w].msg.stage = "embed.sparse",
              UNCHANGED <<pending, dead, llm, store, del>>
       PROVE Sound'
  <2>1. slot[w] \in Job /\ JobShape(slot[w])
    BY <1>15, BusyWorker DEF ShapeOK
  <2>2. next \in Step
    BY DEF Step
  <2>3. PICK r \in Text \cup {"none"} :
           slot' = [slot EXCEPT ![w] = [slot[w] EXCEPT !.record = r, !.at = next]]
    BY <1>15, <2>2, ReadEffect
  <2>4. PICK j : j = [slot[w] EXCEPT !.record = r, !.at = next]
    OBVIOUS
  <2>5. j \in Job
    BY <2>1, <2>2, <2>4 DEF Job
  <2>6. JobShape(j)
    BY <1>15, <2>1, <2>4 DEF Job, JobShape
  <2>7. slot' \in [Workers -> Job \cup {Idle}] /\ ShapeOK'
    BY <2>3, <2>4, <2>5, <2>6, SlotSound
  <2>8. /\ damage' \in SUBSET Damage
        /\ budget' \in [{"scans", "toggles", "crashes", "failures", "degraded", "deletes"} -> Nat]
    BY <1>15, <2>2, ReadEffect
  <2>. QED
    BY <1>15, <2>7, <2>8 DEF TypeOK, store
<1>16. ASSUME NEW w \in Workers, SparseRead(w) PROVE Sound'
  BY <1>15, <1>16 DEF SparseRead, At
<1>17. ASSUME NEW w \in Workers, GraphRead(w) PROVE Sound'
  BY <1>15, <1>17 DEF GraphRead, At
<1>18. ASSUME NEW w \in Workers, LabelRead(w) PROVE Sound'
  BY <1>15, <1>18 DEF LabelRead, At
<1>19. ASSUME NEW w \in Workers, SearchRecord(w) PROVE Sound'
  BY <1>15, <1>19 DEF SearchRecord, At
<1>20. ASSUME NEW w \in Workers, SparseStore(w) PROVE Sound'
  <2>1. slot[w] \in Job /\ JobShape(slot[w]) /\ slot[w].msg.stage = "embed.sparse"
    BY <1>20, BusyWorker DEF SparseStore, At, ShapeOK
  <2>2. PICK j : /\ slot' = [slot EXCEPT ![w] = j]
                 /\ \/ j = [slot[w] EXCEPT !.at = "describe"]
                    \/ j = [slot[w] EXCEPT !.at = "fanout", !.todo = {"index.search"}]
    BY <1>20 DEF SparseStore, Goto
  <2>3. j \in Job
    BY <2>1, <2>2 DEF Job, Step, Stage
  <2>4. JobShape(j)
    BY <2>1, <2>2 DEF JobShape, Job
  <2>5. slot' \in [Workers -> Job \cup {Idle}] /\ ShapeOK'
    BY <2>2, <2>3, <2>4, SlotSound
  <2>6. (IF slot[w].record = "none" THEN "empty" ELSE slot[w].record) \in Content
    BY <2>1 DEF Job, Content
  <2>7. blob' \in [BlobKinds -> Content \cup {"none"}]
    BY <1>20, <2>6 DEF SparseStore, TypeOK
  <2>. QED
    BY <1>20, <2>5, <2>7 DEF SparseStore, TypeOK
<1>21. ASSUME NEW w \in Workers, NEW kind \in {"embedding", "sparse"}, SearchLoad(w, kind)
       PROVE Sound'
  <2>1. slot[w] \in Job /\ slot[w].msg.stage = "index.search"
    BY <1>21, BusyWorker DEF SearchLoad, At
  <2>2. kind \in BlobKinds
    BY DEF BlobKinds
  <2>3. PICK content \in Content \cup {"none"}, j \in Job :
           /\ \/ j = [slot[w] EXCEPT !.dense = content]
              \/ j = [slot[w] EXCEPT !.sparse = content]
           /\ slot' = [slot EXCEPT ![w] = [j EXCEPT !.at = Gate(j)]]
    <3>1. PICK content \in {blob[kind], "none"} :
             slot' = [slot EXCEPT ![w] =
                [(IF kind = "embedding" THEN [slot[w] EXCEPT !.dense = content]
                                        ELSE [slot[w] EXCEPT !.sparse = content])
                    EXCEPT !.at = Gate(IF kind = "embedding" THEN [slot[w] EXCEPT !.dense = content]
                                        ELSE [slot[w] EXCEPT !.sparse = content])]]
      BY <1>21 DEF SearchLoad, Loaded, Goto
    <3>2. content \in Content \cup {"none"}
      BY <2>2, <3>1 DEF TypeOK
    <3>3. /\ [slot[w] EXCEPT !.dense = content] \in Job
          /\ [slot[w] EXCEPT !.sparse = content] \in Job
      BY <2>1, <3>2 DEF Job
    <3>. QED
      BY <3>1, <3>2, <3>3
  <2>4. j.msg = slot[w].msg
    BY <2>1, <2>3 DEF Job
  <2>5. PICK n : n = [j EXCEPT !.at = Gate(j)]
    OBVIOUS
  <2>6. /\ Gate(j) \in {"start", "record", "done"}
        /\ Gate(j) = "record" => "unread" \notin {j.dense, j.sparse} /\ "none" \notin {j.dense, j.sparse}
    BY DEF Gate
  <2>7. n \in Job /\ JobShape(n)
    BY <2>1, <2>3, <2>4, <2>5, <2>6 DEF Job, Step, JobShape
  <2>8. slot' \in [Workers -> Job \cup {Idle}] /\ ShapeOK'
    BY <2>3, <2>5, <2>7, SlotSound
  <2>9. /\ damage' \in SUBSET Damage
        /\ budget' \in [{"scans", "toggles", "crashes", "failures", "degraded", "deletes"} -> Nat]
    BY <1>21, SpendEffect DEF SearchLoad, TypeOK, Damage
  <2>. QED
    BY <1>21, <2>8, <2>9 DEF SearchLoad, TypeOK, store
<1>22. ASSUME NEW w \in Workers, SearchUpsert(w) PROVE Sound'
  <2>1. slot[w] \in Job /\ JobShape(slot[w])
    BY <1>22, BusyWorker DEF SearchUpsert, At, ShapeOK
  <2>2. PICK j : j = [slot[w] EXCEPT !.at = "done"]
    OBVIOUS
  <2>3. j \in Job /\ JobShape(j)
    BY <1>22, <2>1, <2>2 DEF SearchUpsert, At, Job, Step, JobShape
  <2>4. slot' \in [Workers -> Job \cup {Idle}] /\ ShapeOK'
    BY <1>22, <2>2, <2>3, SlotSound DEF SearchUpsert, Goto
  <2>5. point' \in Point
    BY <1>22, <2>1 DEF SearchUpsert, At, JobShape, Job, Point
  <2>. QED
    BY <1>22, <2>4, <2>5 DEF SearchUpsert, TypeOK
<1>23. ASSUME NEW w \in Workers, GraphMerge(w) PROVE Sound'
  <2>1. slot[w] \in Job /\ JobShape(slot[w])
    BY <1>23, BusyWorker DEF GraphMerge, At, ShapeOK
  <2>2. PICK j : j = [slot[w] EXCEPT !.at = "done"]
    OBVIOUS
  <2>3. j \in Job /\ JobShape(j)
    BY <1>23, <2>1, <2>2 DEF GraphMerge, At, Job, Step, JobShape
  <2>4. slot' \in [Workers -> Job \cup {Idle}] /\ ShapeOK'
    BY <1>23, <2>2, <2>3, SlotSound DEF GraphMerge, Goto
  <2>5. TagsOf(slot[w].record) \in SUBSET Text
    BY <2>1 DEF TagsOf, Job, Text
  <2>6. node' \in SUBSET ({"node"} \cup Text)
    BY <1>23, <2>5 DEF GraphMerge, TypeOK
  <2>. QED
    BY <1>23, <2>4, <2>6 DEF GraphMerge, TypeOK
<1>24. ASSUME NEW w \in Workers, LabelSkipped(w) PROVE Sound'
  <2>1. slot[w] \in Job /\ JobShape(slot[w])
    BY <1>24, BusyWorker DEF LabelSkipped, At, ShapeOK
  <2>2. PICK j : j = [slot[w] EXCEPT !.at = "done"]
    OBVIOUS
  <2>3. j \in Job /\ JobShape(j)
    BY <1>24, <2>1, <2>2 DEF LabelSkipped, At, Job, Step, JobShape
  <2>4. slot' \in [Workers -> Job \cup {Idle}] /\ ShapeOK'
    BY <1>24, <2>2, <2>3, SlotSound DEF LabelSkipped, Goto
  <2>. QED
    BY <1>24, <2>4 DEF LabelSkipped, TypeOK, store
<1>25. ASSUME NEW w \in Workers, LabelPatch(w) PROVE Sound'
  <2>1. slot[w] \in Job /\ JobShape(slot[w])
    BY <1>25, BusyWorker DEF LabelPatch, At, ShapeOK
  <2>2. PICK j : j = [slot[w] EXCEPT !.at = "fanout", !.todo = {"embed.sparse", "index.graph"}]
    OBVIOUS
  <2>3. j \in Job /\ JobShape(j)
    BY <1>25, <2>1, <2>2 DEF LabelPatch, At, Job, Step, Stage, JobShape
  <2>4. slot' \in [Workers -> Job \cup {Idle}] /\ ShapeOK'
    BY <1>25, <2>2, <2>3, SlotSound DEF LabelPatch, Goto
  <2>. QED
    BY <1>25, <2>4 DEF LabelPatch, TypeOK, Text, Damage
\* The steps of unindex_image.
<1>26. \A x : Left(del, x) \in [at : {"idle", "catalog", "projections"},
                                todo : SUBSET (BlobKinds \cup {"point", "node"})]
  BY DEF Left, Idling, TypeOK
<1>27. \A gone : Late(gone) \in SUBSET Damage
  BY DEF Late, TypeOK, Damage
<1>28. CASE DeleteRow
  BY <1>28, SpendEffect DEF DeleteRow, TypeOK, ShapeOK
<1>29. ASSUME NEW k \in BlobKinds, DeleteBlob(k) PROVE Sound'
  BY <1>26, <1>27, <1>29 DEF DeleteBlob, TypeOK, ShapeOK
<1>30. CASE DeletePoint
  BY <1>26, <1>27, <1>30 DEF DeletePoint, TypeOK, ShapeOK
<1>31. CASE DeleteNode
  BY <1>26, <1>27, <1>31 DEF DeleteNode, TypeOK, ShapeOK
<1>32. CASE CleanupFails
  BY <1>26, <1>32, SpendEffect DEF CleanupFails, TypeOK, ShapeOK, store
<1>33. CASE DeleteAborted
  BY <1>33, SpendEffect DEF DeleteAborted, TypeOK, ShapeOK, store, Idling
<1>34. CASE UNCHANGED vars
  BY <1>34 DEF vars, store, TypeOK, ShapeOK
<1>35. ASSUME NEW w \in Workers, StageStep(w) PROVE Sound'
  BY <1>35, <1>4, <1>8, <1>9, <1>11, <1>12, <1>13, <1>14, <1>16, <1>17, <1>18, <1>19,
     <1>20, <1>21, <1>22, <1>23, <1>24, <1>25 DEF StageStep
<1>. QED
  BY <1>1, <1>2, <1>3, <1>6, <1>7, <1>10, <1>28, <1>29, <1>30, <1>31, <1>32, <1>33, <1>34,
     <1>35 DEF Next
-----------------------------------------------------------------------------
Owed == DenseOwed /\ SparseOwed /\ PointOwed /\ NodeOwed

\* Stages that have lost no message stay underway.
LEMMA UnderwayKept ==
  ASSUME \A m \in Message : pending[m] > 0 => pending'[m] > 0,
         dead \subseteq dead', damage \subseteq damage',
         NEW S, Underway(S)
  PROVE  Underway(S)'
BY DEF Underway, Waiting

\* A step of worker w alone that loses no message: what was due still is, or
\* the job of w was its only carrier.
LEMMA DueKept ==
  ASSUME NEW w \in Workers, NEW j, slot' = [slot EXCEPT ![w] = j], TypeOK,
         \A m \in Message : pending[m] > 0 => pending'[m] > 0,
         dead \subseteq dead', damage \subseteq damage'
  PROVE  /\ DenseDue => DenseDue' \/ (slot[w] # Idle /\ DenseCarrier(slot[w]))
         /\ SparseDue => SparseDue' \/ (slot[w] # Idle /\ SparseCarrier(slot[w]))
         /\ PointDue => PointDue' \/ (slot[w] # Idle /\ PointCarrier(slot[w]))
         /\ NodeDue => NodeDue' \/ (slot[w] # Idle /\ NodeCarrier(slot[w]))
<1>1. \A v \in Workers : v # w => slot'[v] = slot[v]
  BY DEF TypeOK
<1>2. \A S : Underway(S) => Underway(S)'
  BY UnderwayKept
<1>3. DenseDue => DenseDue' \/ (slot[w] # Idle /\ DenseCarrier(slot[w]))
  BY <1>1, <1>2 DEF DenseDue
<1>4. SparseDue => SparseDue' \/ (slot[w] # Idle /\ SparseCarrier(slot[w]))
  BY <1>1, <1>2 DEF SparseDue
<1>5. PointDue => PointDue' \/ (slot[w] # Idle /\ PointCarrier(slot[w]))
  BY <1>1, <1>2 DEF PointDue
<1>6. NodeDue => NodeDue' \/ (slot[w] # Idle /\ NodeCarrier(slot[w]))
  BY <1>1, <1>2 DEF NodeDue
<1>. QED
  BY <1>3, <1>4, <1>5, <1>6

\* A job that goes back to its queue, or to the dead letters, leaves due what it
\* carried.
LEMMA ReturnedDue ==
  ASSUME TypeOK, NEW w \in Workers, slot[w] # Idle,
         slot' = [slot EXCEPT ![w] = Idle],
         \A m \in Message : pending[m] > 0 => pending'[m] > 0,
         dead \subseteq dead', damage \subseteq damage',
         \/ \E n \in Message : n.stage = slot[w].msg.stage /\ pending'[n] > 0
         \/ slot[w].msg.stage \in dead'
  PROVE  /\ DenseDue => DenseDue'
         /\ SparseDue => SparseDue'
         /\ PointDue => PointDue'
         /\ NodeDue => NodeDue'
<1>1. \A S : slot[w].msg.stage \in S => Underway(S)'
  BY DEF Underway, Waiting
<1>2. DenseCarrier(slot[w]) => DenseDue'
  BY <1>1 DEF DenseCarrier, WillPublish, DenseDue
<1>3. SparseCarrier(slot[w]) => SparseDue'
  BY <1>1 DEF SparseCarrier, WillPublish, SparseDue
<1>4. PointCarrier(slot[w]) => PointDue'
  BY <1>1 DEF PointCarrier, WillPublish, PointDue
<1>5. NodeCarrier(slot[w]) => NodeDue'
  BY <1>1 DEF NodeCarrier, WillPublish, NodeDue
<1>. QED
  BY <1>2, <1>3, <1>4, <1>5, DueKept

\* What is owed stays owed when the image's row, blobs, point and node are what
\* they were, or the row is gone, or the image is damaged.
LEMMA OwedKept ==
  ASSUME Owed,
         \/ row' = row /\ blob' = blob /\ point' = point /\ node' = node
         \/ row' = "absent"
         \/ damage' # {},
         DenseDue => DenseDue', SparseDue => SparseDue', PointDue => PointDue',
         NodeDue => NodeDue'
  PROVE  Owed'
<1>1. CASE row' = row /\ blob' = blob /\ point' = point /\ node' = node
  BY <1>1 DEF Owed, DenseOwed, SparseOwed, PointOwed, NodeOwed
<1>2. CASE row' = "absent"
  BY <1>2 DEF Owed, DenseOwed, SparseOwed, PointOwed, NodeOwed
<1>3. CASE damage' # {}
  BY <1>3 DEF Owed, DenseOwed, SparseOwed, PointOwed, NodeOwed,
              DenseDue, SparseDue, PointDue, NodeDue, Underway
<1>. QED
  BY <1>1, <1>2, <1>3

\* No step forgets an image.
LEMMA OwedStep ==
  ASSUME Sound, Owed, [Next]_vars
  PROVE  Owed'
<1>a. TypeOK /\ ShapeOK
  BY DEF Sound
<1>0. ASSUME UNCHANGED slot, \A m \in Message : pending[m] > 0 => pending'[m] > 0,
             dead \subseteq dead', damage \subseteq damage'
      PROVE  /\ DenseDue => DenseDue'
             /\ SparseDue => SparseDue'
             /\ PointDue => PointDue'
             /\ NodeDue => NodeDue'
  <2>1. \A S : Underway(S) => Underway(S)'
    BY <1>0, UnderwayKept
  <2>. QED
    BY <1>0, <2>1 DEF DenseDue, SparseDue, PointDue, NodeDue
<1>1. CASE Scan
  <2>1. \A m \in Message : pending[m] > 0 => pending'[m] > 0
    BY <1>1, <1>a, FreshMessage, PutBag DEF Scan, TypeOK, Stage
  <2>. QED
    BY <1>0, <1>1, <2>1, OwedKept DEF Scan, store
<1>2. CASE Toggle
  BY <1>0, <1>2, OwedKept DEF Toggle, store
<1>3. ASSUME NEW w \in Workers, NEW m \in Message, Take(w, m) PROVE Owed'
  <2>1. /\ slot'[w] # Idle /\ slot'[w].msg = m /\ slot'[w].at = "start"
        /\ slot'[w].dense = "unread" /\ slot'[w].sparse = "unread"
        /\ \A v \in Workers : v # w => slot'[v] = slot[v]
        /\ slot[w] = Idle
    BY <1>3, <1>a DEF Take, Goto, TypeOK, Idle
  <2>2. /\ \A n \in Message : n # m => pending'[n] = pending[n]
        /\ UNCHANGED <<dead, damage, store>>
    BY <1>3, <1>a DEF Take, TypeOK
  <2>3. \A S : Underway(S) => Underway(S)' \/ m.stage \in S
    BY <2>2 DEF Underway, Waiting
  <2>4. DenseDue => DenseDue'
    BY <2>1, <2>3 DEF DenseDue, DenseCarrier, WillPublish
  <2>5. SparseDue => SparseDue'
    BY <2>1, <2>3 DEF SparseDue, SparseCarrier, WillPublish
  <2>6. PointDue => PointDue'
    BY <2>1, <2>3 DEF PointDue, PointCarrier, WillPublish
  <2>7. NodeDue => NodeDue'
    BY <2>1, <2>3 DEF NodeDue, NodeCarrier, WillPublish
  <2>. QED
    BY <2>2, <2>4, <2>5, <2>6, <2>7, OwedKept DEF store
<1>4. ASSUME NEW w \in Workers, Ack(w) PROVE Owed'
  <2>1. /\ slot' = [slot EXCEPT ![w] = Idle]
        /\ slot[w].at = "done"
        /\ UNCHANGED <<pending, dead, damage, store>>
    BY <1>4 DEF Ack, Goto
  <2>2. /\ DenseDue => DenseDue'
        /\ SparseDue => SparseDue'
        /\ PointDue => PointDue'
        /\ NodeDue => NodeDue'
    BY <1>a, <2>1, DueKept DEF DenseCarrier, SparseCarrier, PointCarrier, NodeCarrier, WillPublish
  <2>. QED
    BY <2>1, <2>2, OwedKept DEF store
<1>5. ASSUME NEW w \in Workers, NEW S, slot[w] # Idle, Raise(w, S),
             UNCHANGED <<store, damage>>
      PROVE Owed'
  <2>1. /\ DenseDue => DenseDue'
        /\ SparseDue => SparseDue'
        /\ PointDue => PointDue'
        /\ NodeDue => NodeDue'
    BY <1>5, <1>a, RaiseEffect, ReturnedDue
  <2>. QED
    BY <1>5, <2>1, OwedKept DEF store
<1>6. ASSUME NEW w \in Workers, StageFails(w) PROVE Owed'
  BY <1>5, <1>6 DEF StageFails
<1>7. ASSUME NEW w \in Workers, FanoutFails(w) PROVE Owed'
  <2>1. slot[w] # Idle /\ \E S : Raise(w, S)
    BY <1>7 DEF FanoutFails, Idle
  <2>. QED
    BY <1>5, <1>7, <2>1 DEF FanoutFails
<1>8. ASSUME NEW w \in Workers, DescriptionRefused(w) PROVE Owed'
  BY <1>5, <1>8 DEF DescriptionRefused, At
<1>9. ASSUME NEW w \in Workers, LabelOrphan(w) PROVE Owed'
  BY <1>5, <1>9 DEF LabelOrphan, At
<1>10. ASSUME NEW w \in Workers, Crash(w) PROVE Owed'
  <2>1. slot[w].msg \in Message /\ pending \in [Message -> Nat]
    BY <1>10, <1>a, BusyWorker DEF Crash, TypeOK
  <2>2. /\ \A m \in Message : pending[m] > 0 => pending'[m] > 0
        /\ pending'[slot[w].msg] > 0
    BY <1>10, <2>1, PutBag DEF Crash
  <2>3. /\ DenseDue => DenseDue'
        /\ SparseDue => SparseDue'
        /\ PointDue => PointDue'
        /\ NodeDue => NodeDue'
    BY <1>10, <1>a, <2>1, <2>2, ReturnedDue DEF Crash, Goto
  <2>. QED
    BY <1>10, <2>3, OwedKept DEF Crash, store
<1>11. ASSUME NEW w \in Workers, Fanout(w) PROVE Owed'
  <2>1. slot[w] # Idle
    BY <1>11 DEF Fanout, Idle
  <2>2. slot[w] \in Job /\ JobShape(slot[w]) /\ slot[w].at = "fanout"
    BY <1>11, <1>a, <2>1, BusyWorker DEF ShapeOK, Fanout
  <2>3. PICK s, j :
           /\ s \in Publishable(slot[w])
           /\ pending' = Put(pending, Fresh(s))
           /\ j = [slot[w] EXCEPT !.todo = @ \ {s},
                                  !.at = IF slot[w].todo = {s} THEN "done" ELSE "fanout"]
           /\ slot' = [slot EXCEPT ![w] = j]
    BY <1>11 DEF Fanout, Goto
  <2>4. s \in slot[w].todo /\ s \in Stage
    BY <2>2, <2>3 DEF Publishable, Job
  <2>5. /\ j.msg = slot[w].msg /\ j.todo = slot[w].todo \ {s}
        /\ j.at = "fanout" \/ j.todo = {}
        /\ j # Idle /\ slot'[w] = j
    BY <2>2, <2>3, <1>a DEF Job, Idle, TypeOK
  <2>6. j.todo # {} => j.at = "fanout"
    BY <2>5
  <2>7. /\ \A m \in Message : pending[m] > 0 => pending'[m] > 0
        /\ \E n \in Message : n.stage = s /\ pending'[n] > 0
    BY <2>3, <2>4, <1>a, FreshMessage, PutBag DEF TypeOK
  <2>8. \A S : s \in S => Underway(S)'
    BY <2>7 DEF Underway, Waiting
  <2>9. DenseCarrier(slot[w]) => DenseDue'
    BY <2>2, <2>5, <2>6, <2>8 DEF DenseCarrier, WillPublish, DenseDue
  <2>10. SparseCarrier(slot[w]) => SparseDue'
    BY <2>2, <2>5, <2>6, <2>8 DEF SparseCarrier, WillPublish, SparseDue
  <2>11. PointCarrier(slot[w]) => PointDue'
    <3>1. CASE WillPublish(slot[w], "embed.dense")
      BY <3>1, <2>2, <2>5, <2>6, <2>8 DEF PointCarrier, WillPublish, PointDue
    <3>2. CASE slot[w].msg.stage \in {"embed.dense", "embed.sparse"}
      BY <3>2, <2>2, <2>4, <2>8 DEF JobShape, PointDue
    <3>3. CASE slot[w].msg.stage = "index.search"
      BY <3>3, <2>2 DEF JobShape
    <3>. QED
      BY <3>1, <3>2, <3>3 DEF PointCarrier
  <2>12. NodeCarrier(slot[w]) => NodeDue'
    <3>1. CASE WillPublish(slot[w], "index.graph")
      BY <3>1, <2>2, <2>5, <2>6, <2>8 DEF NodeCarrier, WillPublish, NodeDue
    <3>2. CASE slot[w].msg.stage = "index.graph"
      BY <3>2, <2>2 DEF JobShape
    <3>. QED
      BY <3>1, <3>2 DEF NodeCarrier
  <2>13. UNCHANGED <<dead, damage, store>>
    BY <1>11 DEF Fanout
  <2>14. /\ DenseDue => DenseDue'
         /\ SparseDue => SparseDue'
         /\ PointDue => PointDue'
         /\ NodeDue => NodeDue'
    BY <1>a, <2>3, <2>7, <2>9, <2>10, <2>11, <2>12, <2>13, DueKept
  <2>. QED
    BY <2>13, <2>14, OwedKept DEF store
\* The stages that read the record and change no store; their job goes on.
<1>12. ASSUME NEW w \in Workers, NEW next \in {"store", "write"},
              slot[w] # Idle, ReadRecord(w, next), next = "store" <=> slot[w].msg.stage = "embed.sparse",
              slot[w].msg.stage \in {"embed.sparse", "index.graph", "index.search", "label"},
              slot[w].at # "fanout", slot[w].at # "done",
              UNCHANGED <<pending, dead, llm, store, del>>
       PROVE Owed'
  <2>1. slot[w] \in Job /\ next \in Step
    BY <1>12, <1>a, BusyWorker DEF Step
  <2>r. PICK r \in Text \cup {"none"} :
           slot' = [slot EXCEPT ![w] = [slot[w] EXCEPT !.record = r, !.at = next]]
    BY <1>12, <1>a, <2>1, ReadEffect
  <2>2. PICK j :
           /\ j = [slot[w] EXCEPT !.record = r, !.at = next]
           /\ slot' = [slot EXCEPT ![w] = j]
    BY <2>r
  <2>3. /\ j.msg = slot[w].msg /\ j.at = next /\ j.dense = slot[w].dense /\ j.sparse = slot[w].sparse
        /\ j # Idle /\ slot'[w] = j
    BY <1>12, <1>a, <2>1, <2>2 DEF Job, Idle, TypeOK
  <2>4. damage \subseteq damage'
    BY <1>12, <1>a, <2>1, ReadEffect
  <2>5. ~DenseCarrier(slot[w])
    BY <1>12 DEF DenseCarrier, WillPublish
  <2>6. SparseCarrier(slot[w]) => SparseDue'
    BY <1>12, <2>3 DEF SparseCarrier, WillPublish, SparseDue
  <2>7. PointCarrier(slot[w]) => PointDue'
    BY <1>12, <2>3 DEF PointCarrier, WillPublish, PointDue
  <2>8. NodeCarrier(slot[w]) => NodeDue'
    BY <1>12, <2>3 DEF NodeCarrier, WillPublish, NodeDue
  <2>9. /\ DenseDue => DenseDue'
        /\ SparseDue => SparseDue'
        /\ PointDue => PointDue'
        /\ NodeDue => NodeDue'
    BY <1>12, <1>a, <2>2, <2>4, <2>5, <2>6, <2>7, <2>8, DueKept
  <2>. QED
    BY <1>12, <2>9, OwedKept DEF store
<1>13. ASSUME NEW w \in Workers, SparseRead(w) PROVE Owed'
  BY <1>12, <1>13 DEF SparseRead, At
<1>14. ASSUME NEW w \in Workers, GraphRead(w) PROVE Owed'
  BY <1>12, <1>14 DEF GraphRead, At
<1>15. ASSUME NEW w \in Workers, SearchRecord(w) PROVE Owed'
  BY <1>12, <1>15 DEF SearchRecord, At
<1>16. ASSUME NEW w \in Workers, LabelRead(w) PROVE Owed'
  BY <1>12, <1>16 DEF LabelRead, At
\* A job that stays with its worker, at another step, and is still a carrier of
\* what it carried, unless that is due no more.
<1>17. ASSUME NEW w \in Workers, NEW j, slot[w] # Idle, slot' = [slot EXCEPT ![w] = j],
              UNCHANGED <<pending, dead>>, damage \subseteq damage',
              DenseCarrier(slot[w]) => DenseDue' \/ blob'["embedding"] # "none",
              SparseCarrier(slot[w]) => SparseDue' \/ blob'["sparse"] # "none",
              PointCarrier(slot[w]) => PointDue' \/ point' # NoPoint
                    \/ blob'["embedding"] = "none" \/ blob'["sparse"] = "none",
              NodeCarrier(slot[w]) => NodeDue' \/ node' # {},
              row = "absent" /\ row' # "absent" =>
                  damage' # {} \/ (DenseDue' /\ SparseDue' /\ PointDue' /\ NodeDue'),
              blob["embedding"] # "none" => blob'["embedding"] # "none",
              blob["sparse"] # "none" => blob'["sparse"] # "none",
              (blob["embedding"] = "none" \/ blob["sparse"] = "none")
                 /\ blob'["embedding"] # "none" /\ blob'["sparse"] # "none" => PointDue',
              point # NoPoint => point' # NoPoint,
              node # {} => node' # {}
       PROVE Owed'
  <2>1. /\ DenseDue => DenseDue' \/ (slot[w] # Idle /\ DenseCarrier(slot[w]))
        /\ SparseDue => SparseDue' \/ (slot[w] # Idle /\ SparseCarrier(slot[w]))
        /\ PointDue => PointDue' \/ (slot[w] # Idle /\ PointCarrier(slot[w]))
        /\ NodeDue => NodeDue' \/ (slot[w] # Idle /\ NodeCarrier(slot[w]))
    BY <1>17, <1>a, DueKept
  <2>2. damage' # {} => DenseDue' /\ SparseDue' /\ PointDue' /\ NodeDue'
    BY DEF DenseDue, SparseDue, PointDue, NodeDue, Underway
  <2>3. DenseOwed'
    BY <1>17, <2>1, <2>2 DEF Owed, DenseOwed
  <2>4. SparseOwed'
    BY <1>17, <2>1, <2>2 DEF Owed, SparseOwed
  <2>5. PointOwed'
    BY <1>17, <2>1, <2>2 DEF Owed, PointOwed
  <2>6. NodeOwed'
    BY <1>17, <2>1, <2>2 DEF Owed, NodeOwed
  <2>. QED
    BY <2>3, <2>4, <2>5, <2>6 DEF Owed
<1>18. ASSUME NEW w \in Workers, IngestCatalog(w) PROVE Owed'
  <2>1. slot[w] \in Job /\ slot[w] # Idle
    BY <1>18, <1>a, BusyWorker DEF IngestCatalog, At
  <2>2. PICK j : j = [slot[w] EXCEPT !.at = "thumbnail"] /\ slot' = [slot EXCEPT ![w] = j]
    BY <1>18 DEF IngestCatalog, Goto
  <2>3. /\ j.msg = slot[w].msg /\ j.at = "thumbnail" /\ j.msg.stage = "ingest"
        /\ j # Idle /\ slot'[w] = j
    BY <1>18, <1>a, <2>1, <2>2 DEF Job, Idle, TypeOK, IngestCatalog, At
  <2>4. DenseDue' /\ SparseDue' /\ PointDue' /\ NodeDue'
    BY <2>3 DEF DenseDue, DenseCarrier, SparseDue, SparseCarrier, PointDue, PointCarrier,
                NodeDue, NodeCarrier, WillPublish
  <2>. QED
    BY <1>17, <1>18, <2>1, <2>2, <2>4 DEF IngestCatalog
<1>19. ASSUME NEW w \in Workers, IngestThumbnail(w) PROVE Owed'
  <2>1. slot[w] \in Job /\ slot[w] # Idle
    BY <1>19, <1>a, BusyWorker DEF IngestThumbnail, At
  <2>2. PICK t : t = {"embed.dense", "embed.sparse", "index.graph"}
                                       \cup (IF llm THEN {"label"} ELSE {})
    OBVIOUS
  <2>3. PICK j : j = [slot[w] EXCEPT !.at = "fanout", !.todo = t] /\ slot' = [slot EXCEPT ![w] = j]
    BY <1>19, <2>2 DEF IngestThumbnail, Goto
  <2>4. /\ j.msg = slot[w].msg /\ j.at = "fanout" /\ j.msg.stage = "ingest" /\ j.todo = t
        /\ j # Idle /\ slot'[w] = j
    BY <1>19, <1>a, <2>1, <2>3 DEF Job, Idle, TypeOK, IngestThumbnail, At
  <2>5. DenseDue' /\ SparseDue' /\ PointDue' /\ NodeDue'
    BY <2>2, <2>4 DEF DenseDue, DenseCarrier, SparseDue, SparseCarrier, PointDue, PointCarrier,
                NodeDue, NodeCarrier, WillPublish
  <2>6. blob'["embedding"] = blob["embedding"] /\ blob'["sparse"] = blob["sparse"]
    BY <1>19, <1>a DEF IngestThumbnail, TypeOK, BlobKinds
  <2>. QED
    BY <1>17, <1>19, <2>1, <2>3, <2>5, <2>6 DEF IngestThumbnail
<1>20. ASSUME NEW w \in Workers, DenseStore(w) PROVE Owed'
  <2>1. slot[w] \in Job /\ slot[w] # Idle
    BY <1>20, <1>a, BusyWorker DEF DenseStore, At
  <2>2. PICK j : /\ j = [slot[w] EXCEPT !.at = "fanout", !.todo = {"index.search"}]
                 /\ slot' = [slot EXCEPT ![w] = j]
    BY <1>20 DEF DenseStore, Goto
  <2>3. /\ j.msg = slot[w].msg /\ j.at = "fanout" /\ j.msg.stage = "embed.dense"
        /\ j # Idle /\ slot'[w] = j
    BY <1>20, <1>a, <2>1, <2>2 DEF Job, Idle, TypeOK, DenseStore, At
  <2>4. PointDue'
    BY <2>3 DEF PointDue, PointCarrier
  <2>5. blob'["embedding"] # "none" /\ blob'["sparse"] = blob["sparse"]
    BY <1>20, <1>a DEF DenseStore, TypeOK, BlobKinds
  <2>6. ~SparseCarrier(slot[w]) /\ ~NodeCarrier(slot[w])
    BY <1>20 DEF DenseStore, At, SparseCarrier, NodeCarrier, WillPublish
  <2>. QED
    BY <1>17, <1>20, <2>1, <2>2, <2>4, <2>5, <2>6 DEF DenseStore
<1>21. ASSUME NEW w \in Workers, SparseStore(w) PROVE Owed'
  <2>1. slot[w] \in Job /\ slot[w] # Idle
    BY <1>21, <1>a, BusyWorker DEF SparseStore, At
  <2>2. PICK j : /\ \/ j = [slot[w] EXCEPT !.at = "describe"]
                    \/ j = [slot[w] EXCEPT !.at = "fanout", !.todo = {"index.search"}]
                 /\ slot' = [slot EXCEPT ![w] = j]
    BY <1>21 DEF SparseStore, Goto
  <2>3. /\ j.msg = slot[w].msg /\ j.at \in {"describe", "fanout"} /\ j.msg.stage = "embed.sparse"
        /\ j # Idle /\ slot'[w] = j
    BY <1>21, <1>a, <2>1, <2>2 DEF Job, Idle, TypeOK, SparseStore, At
  <2>4. PointDue'
    BY <2>3 DEF PointDue, PointCarrier
  <2>5. blob'["sparse"] # "none" /\ blob'["embedding"] = blob["embedding"]
    BY <1>21, <1>a, <2>1 DEF SparseStore, TypeOK, BlobKinds
  <2>6. ~DenseCarrier(slot[w]) /\ ~NodeCarrier(slot[w])
    BY <1>21 DEF SparseStore, At, DenseCarrier, NodeCarrier, WillPublish
  <2>. QED
    BY <1>17, <1>21, <2>1, <2>2, <2>4, <2>5, <2>6 DEF SparseStore
\* A vector found missing when it is missing; a degraded read is damage.
<1>22. ASSUME NEW w \in Workers, NEW kind \in {"embedding", "sparse"}, SearchLoad(w, kind)
       PROVE Owed'
  <2>1. slot[w] \in Job /\ slot[w] # Idle
    BY <1>22, <1>a, BusyWorker DEF SearchLoad, At
  <2>c. PICK content \in {blob[kind], "none"} :
           /\ Loaded(w, IF kind = "embedding" THEN [slot[w] EXCEPT !.dense = content]
                                              ELSE [slot[w] EXCEPT !.sparse = content])
           /\ content = blob[kind] \/ damage' # {}
           /\ damage \subseteq damage'
    BY <1>22 DEF SearchLoad
  <2>2. PICK n, j :
           /\ n = IF kind = "embedding" THEN [slot[w] EXCEPT !.dense = content]
                                        ELSE [slot[w] EXCEPT !.sparse = content]
           /\ j = [n EXCEPT !.at = Gate(n)]
           /\ slot' = [slot EXCEPT ![w] = j]
    BY <2>c DEF Loaded, Goto
  <2>3. /\ n.msg = slot[w].msg
        /\ kind = "embedding" => n.dense = content /\ n.sparse = slot[w].sparse
        /\ kind = "sparse" => n.sparse = content /\ n.dense = slot[w].dense
        /\ j.msg = n.msg /\ j.dense = n.dense /\ j.sparse = n.sparse /\ j.at = Gate(n)
    BY <2>1, <2>2 DEF Job
  <2>4. Gate(n) = "done" => "none" \in {n.dense, n.sparse}
    BY DEF Gate
  <2>5. j # Idle /\ slot'[w] = j
    BY <1>a, <2>1, <2>2, <2>3 DEF Idle, TypeOK, Gate
  <2>6. PointCarrier(slot[w]) /\ content # "none" => PointDue'
    BY <1>22, <2>2, <2>3, <2>4, <2>5 DEF SearchLoad, At, PointCarrier, WillPublish, PointDue
  <2>7. ~DenseCarrier(slot[w]) /\ ~SparseCarrier(slot[w]) /\ ~NodeCarrier(slot[w])
    BY <1>22 DEF SearchLoad, At, DenseCarrier, SparseCarrier, NodeCarrier, WillPublish
  <2>8. damage' # {} => PointDue'
    BY DEF PointDue, Underway
  <2>9. PointCarrier(slot[w]) => PointDue' \/ blob'["embedding"] = "none" \/ blob'["sparse"] = "none"
    BY <1>22, <2>c, <2>2, <2>6, <2>8 DEF SearchLoad, store
  <2>. QED
    BY <1>17, <1>22, <2>1, <2>2, <2>7, <2>9 DEF SearchLoad, store
<1>23. ASSUME NEW w \in Workers, SearchUpsert(w) PROVE Owed'
  <2>1. slot[w] \in Job /\ slot[w] # Idle
    BY <1>23, <1>a, BusyWorker DEF SearchUpsert, At
  <2>2. PICK j : slot' = [slot EXCEPT ![w] = j]
    BY <1>23 DEF SearchUpsert, Goto
  <2>3. slot[w].record # "absent"
    BY <2>1 DEF Job, Text
  <2>4. point' # NoPoint
    BY <1>23, <2>3 DEF SearchUpsert, NoPoint
  <2>5. ~DenseCarrier(slot[w]) /\ ~SparseCarrier(slot[w]) /\ ~NodeCarrier(slot[w])
    BY <1>23 DEF SearchUpsert, At, DenseCarrier, SparseCarrier, NodeCarrier, WillPublish
  <2>. QED
    BY <1>17, <1>23, <2>1, <2>2, <2>4, <2>5 DEF SearchUpsert
<1>24. ASSUME NEW w \in Workers, GraphMerge(w) PROVE Owed'
  <2>1. slot[w] # Idle
    BY <1>24 DEF GraphMerge, At
  <2>2. PICK j : slot' = [slot EXCEPT ![w] = j]
    BY <1>24 DEF GraphMerge, Goto
  <2>3. node' # {}
    BY <1>24 DEF GraphMerge
  <2>4. ~DenseCarrier(slot[w]) /\ ~SparseCarrier(slot[w]) /\ ~PointCarrier(slot[w])
    BY <1>24 DEF GraphMerge, At, DenseCarrier, SparseCarrier, PointCarrier, WillPublish
  <2>. QED
    BY <1>17, <1>24, <2>1, <2>2, <2>3, <2>4 DEF GraphMerge
<1>25. ASSUME NEW w \in Workers, At(w, "label", slot[w].at)
       PROVE ~DenseCarrier(slot[w]) /\ ~SparseCarrier(slot[w]) /\ ~PointCarrier(slot[w])
             /\ ~NodeCarrier(slot[w])
  BY <1>25 DEF At, DenseCarrier, SparseCarrier, PointCarrier, NodeCarrier, WillPublish
<1>26. ASSUME NEW w \in Workers, LabelSkipped(w) PROVE Owed'
  <2>1. PICK j : slot' = [slot EXCEPT ![w] = j]
    BY <1>26 DEF LabelSkipped, Goto
  <2>2. At(w, "label", slot[w].at) /\ slot[w] # Idle
    BY <1>26 DEF LabelSkipped, At
  <2>. QED
    BY <1>17, <1>25, <1>26, <2>1, <2>2 DEF LabelSkipped, store
<1>27. ASSUME NEW w \in Workers, LabelPatch(w) PROVE Owed'
  <2>1. PICK j : slot' = [slot EXCEPT ![w] = j]
    BY <1>27 DEF LabelPatch, Goto
  <2>2. At(w, "label", slot[w].at) /\ slot[w] # Idle
    BY <1>27 DEF LabelPatch, At
  <2>3. damage \subseteq damage' /\ (row = "absent" => damage' # {})
    BY <1>27 DEF LabelPatch
  <2>. QED
    BY <1>17, <1>25, <1>27, <2>1, <2>2, <2>3 DEF LabelPatch
\* The steps of unindex_image publish nothing and take nothing from a queue.
<1>28. ASSUME UNCHANGED <<slot, pending, dead>>, damage \subseteq damage'
       PROVE  /\ DenseDue => DenseDue'
              /\ SparseDue => SparseDue'
              /\ PointDue => PointDue'
              /\ NodeDue => NodeDue'
  BY <1>0, <1>28
<1>29. CASE DeleteRow
  BY <1>28, <1>29, OwedKept DEF DeleteRow
<1>30. \A gone : damage \subseteq Late(gone) /\ (row # "absent" /\ gone => Late(gone) # {})
  BY DEF Late
<1>31. ASSUME NEW k \in BlobKinds, DeleteBlob(k) PROVE Owed'
  <2>1. row = "absent" \/ damage' # {} \/ blob' = blob
    BY <1>31, <1>30, <1>a DEF DeleteBlob, TypeOK
  <2>2. /\ UNCHANGED <<row, point, node, slot, pending, dead>>
        /\ damage \subseteq damage'
    BY <1>31, <1>30 DEF DeleteBlob
  <2>. QED
    BY <1>28, <2>1, <2>2, OwedKept
<1>32. CASE DeletePoint
  <2>1. row = "absent" \/ damage' # {} \/ point' = point
    BY <1>32, <1>30 DEF DeletePoint
  <2>2. /\ UNCHANGED <<row, blob, node, slot, pending, dead>>
        /\ damage \subseteq damage'
    BY <1>32, <1>30 DEF DeletePoint
  <2>. QED
    BY <1>28, <2>1, <2>2, OwedKept
<1>33. CASE DeleteNode
  <2>1. row = "absent" \/ damage' # {} \/ node' = node
    BY <1>33, <1>30 DEF DeleteNode
  <2>2. /\ UNCHANGED <<row, blob, point, slot, pending, dead>>
        /\ damage \subseteq damage'
    BY <1>33, <1>30 DEF DeleteNode
  <2>. QED
    BY <1>28, <2>1, <2>2, OwedKept
<1>34. CASE CleanupFails
  BY <1>28, <1>34, OwedKept DEF CleanupFails, store
<1>35. CASE DeleteAborted
  BY <1>28, <1>35, OwedKept DEF DeleteAborted, store
<1>36. CASE UNCHANGED vars
  BY <1>28, <1>36, OwedKept DEF vars, store
<1>37. ASSUME NEW w \in Workers, StageStep(w) PROVE Owed'
  BY <1>37, <1>4, <1>8, <1>9, <1>11, <1>13, <1>14, <1>15, <1>16, <1>18, <1>19, <1>20, <1>21,
     <1>22, <1>23, <1>24, <1>26, <1>27 DEF StageStep
<1>. QED
  BY <1>1, <1>2, <1>3, <1>6, <1>7, <1>10, <1>29, <1>31, <1>32, <1>33, <1>34, <1>35, <1>36,
     <1>37 DEF Next
-----------------------------------------------------------------------------
DagInv == Sound /\ Owed

\* The initial state is sound, and nothing is owed to an image not cataloged.
LEMMA DagInit == Init => DagInv
<1>1. Init => TypeOK
  BY LlmAssumption, BoundsAssumption DEF Init, TypeOK, Idling, Damage
<1>2. Init => ShapeOK
  BY DEF Init, ShapeOK
<1>3. Init => Owed
  BY DEF Init, Owed, DenseOwed, SparseOwed, PointOwed, NodeOwed
<1>. QED
  BY <1>1, <1>2, <1>3 DEF DagInv, Sound

\* The inductive invariant of the pipeline.
LEMMA DagInvariant == Spec => []DagInv
<1>1. DagInv /\ [Next]_vars => DagInv'
  BY SoundStep, OwedStep DEF DagInv
<1>. QED
  BY <1>1, DagInit, PTL DEF Spec

\* Every variable has its type in every reachable state, for any number of
\* workers, any retry limit and any bounds on the environment.
THEOREM DagTypes == Spec => []TypeOK
<1>1. DagInv => TypeOK
  BY DEF DagInv, Sound
<1>. QED
  BY <1>1, DagInvariant, PTL

\* The fan-in without a coordinator loses no image, whatever the interleaving of
\* any number of workers with crashes, failures, re-ingests and deletes.
THEOREM FanInLosesNothing == Spec => []FanInHolds
<1>1. DagInv => FanInHolds
  BY DEF DagInv, Owed, FanInHolds
<1>. QED
  BY <1>1, DagInvariant, PTL

\* Nor is a cataloged image left out of the graph.
THEOREM NoNodeForgotten == Spec => []NodeOwed
<1>1. DagInv => NodeOwed
  BY DEF DagInv, Owed
<1>. QED
  BY <1>1, DagInvariant, PTL
=============================================================================
