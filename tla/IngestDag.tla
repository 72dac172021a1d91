------------------------------ MODULE IngestDag ------------------------------
(***************************************************************************)
(* The per-stage ingest pipeline of deedlit.ingest (worker.py, pipeline.py)*)
(* for one image file: ingest fans out to embed.dense, embed.sparse,       *)
(* index.graph and label; both embeds publish index.search, the fan-in,    *)
(* which reads the two vectors back from catalog blobs and upserts the     *)
(* search point only when both are there.  The images of a library share   *)
(* no state, so one image stands for all.                                  *)
(*                                                                         *)
(* Worker processes run the stages concurrently; every call of a stage to  *)
(* the catalog, to search or to graph is a step of its own, between which  *)
(* the worker may crash (the broker redelivers) or fail (the broker module *)
(* retries, then dead-letters).  The gateway's unindex_image deletes the   *)
(* image, and a scan may ingest the file again, while stages are running.  *)
(*                                                                         *)
(* Queues are bags and a failed delivery is settled in one step:           *)
(* TaskDelivery has the detail of both.                                    *)
(***************************************************************************)
EXTENDS Integers, FiniteSets

CONSTANTS
    Workers,       \* deliveries that may be in flight at once
    MaxRetries,    \* MAX_RETRIES
    LlmEnabled,    \* the llm_enabled setting the workers start with
    \* Bounds of the model, in the guards of the actions they name.
    MaxScans,      \* ingest tasks published by scans (Scan)
    MaxToggles,    \* changes of the LLM switch (Toggle)
    MaxCrashes,    \* worker crashes (Crash)
    MaxFailures,   \* calls that raise (StageFails, FanoutFails, DeleteAborted, CleanupFails)
    MaxDegraded,   \* reads that fail and are taken for absent (the Degraded reads)
    MaxDeletes     \* unindex_image calls (DeleteRow)

ASSUME RetriesAssumption == MaxRetries \in Nat \ {0}
ASSUME LlmAssumption == LlmEnabled \in BOOLEAN
ASSUME BoundsAssumption ==
    /\ MaxScans \in Nat
    /\ MaxToggles \in Nat
    /\ MaxCrashes \in Nat
    /\ MaxFailures \in Nat
    /\ MaxDegraded \in Nat
    /\ MaxDeletes \in Nat

Stage == {"ingest", "embed.dense", "embed.sparse", "index.search", "index.graph", "label"}

\* A task message: its stage and its x-attempt header.
Message == [stage : Stage, attempt : 0..(MaxRetries - 1)]

\* The text of a catalog row: as extracted from the file, or with the AI
\* description and tags that the label stage adds.
Text == {"extracted", "labelled"}

\* BLOB_KINDS of the catalog, and the kind embed_sparse stores a description
\* vector under (CATALOG_DESCRIPTION_BLOB_KIND).
BlobKinds == {"thumbnail", "embedding", "sparse"}
DescriptionKind == "embedding_description"

\* What a blob holds: a vector or picture computed from the file alone, or a
\* sparse vector of no text or of a version of the row's text.
Content == {"bytes", "empty"} \cup Text

\* The steps of the stages; "done" is a delivery still to be acked.
Step == {"start", "thumbnail", "store", "describe", "record", "write", "fanout", "done"}

\* A delivery in flight: the step its stage is at, the record text and the
\* vectors it has read, and the stages it has still to publish.
Job == [msg : Message, at : Step, record : Text \cup {"none"},
        dense : Content \cup {"unread", "none"}, sparse : Content \cup {"unread", "none"},
        todo : SUBSET Stage]
Idle == [at |-> "idle"]

NoPoint == [text |-> "absent"]
Point == [text : Text \cup {"none"}, dense : Content, sparse : Content]

\* Why an image may stay out of an index with nothing left to repair it.
Damage == {"degraded_read", "late_delete", "resurrected"}

VARIABLES
    pending,   \* [Message -> Nat]: the queues, retry queues included
    dead,      \* the stages that have a message in their dead-letter queue
    slot,      \* [Workers -> Job \cup {Idle}]
    llm,       \* the workers' copy of the llm_enabled setting
    row,       \* the catalog row: "absent" or its text
    blob,      \* [BlobKinds -> Content \cup {"none"}]: the catalog's blobs
    point,     \* the search point: what it was built from, or NoPoint
    node,      \* the graph node: {} when absent, else "node" and its tags
    del,       \* the gateway's delete in progress: where it is and what is left
    damage,    \* SUBSET Damage: what has happened to the image so far
    budget     \* what is left of the bounds

store == <<row, blob, point, node>>
vars == <<pending, dead, slot, llm, store, del, damage, budget>>

Put(q, m) == [q EXCEPT ![m] = @ + 1]
Fresh(s) == [stage |-> s, attempt |-> 0]

\* Messages of the stages S published on top of q.
Published(q, S) ==
    [m \in Message |-> IF m.stage \in S /\ m.attempt = 0 THEN q[m] + 1 ELSE q[m]]

Spend(b) == /\ budget[b] > 0
            /\ budget' = [budget EXCEPT ![b] = @ - 1]

\* Job w is at step s of a stage.
At(w, stage, s) == slot[w] # Idle /\ slot[w].msg.stage = stage /\ slot[w].at = s

\* Worker w goes on as j.
Goto(w, j) == slot' = [slot EXCEPT ![w] = j]

Idling == [at |-> "idle", todo |-> {}]

Init ==
    /\ pending = [m \in Message |-> 0]
    /\ dead = {}
    /\ slot = [w \in Workers |-> Idle]
    /\ llm = LlmEnabled
    /\ row = "absent"
    /\ blob = [k \in BlobKinds |-> "none"]
    /\ point = NoPoint
    /\ node = {}
    /\ del = Idling
    /\ damage = {}
    /\ budget = [scans |-> MaxScans, toggles |-> MaxToggles, crashes |-> MaxCrashes,
                 failures |-> MaxFailures, degraded |-> MaxDegraded, deletes |-> MaxDeletes]

-----------------------------------------------------------------------------
\* Around the stages: producers, the workers' deliveries and their failures.

\* A folder scan publishes an ingest task for the file (publish_ingest_task).
Scan ==
    /\ Spend("scans")
    /\ pending' = Put(pending, Fresh("ingest"))
    /\ UNCHANGED <<dead, slot, llm, store, del, damage>>

\* _config_refresh_loop: the workers see the LLM switch changed.
Toggle ==
    /\ Spend("toggles")
    /\ llm' = ~llm
    /\ UNCHANGED <<pending, dead, slot, store, del, damage>>

Take(w, m) ==
    /\ slot[w] = Idle
    /\ pending[m] > 0
    /\ pending' = [pending EXCEPT ![m] = @ - 1]
    /\ Goto(w, [msg |-> m, at |-> "start", record |-> "none", dense |-> "unread",
                sparse |-> "unread", todo |-> {}])
    /\ UNCHANGED <<dead, llm, store, del, damage, budget>>

Ack(w) ==
    /\ slot[w].at = "done"
    /\ Goto(w, Idle)
    /\ UNCHANGED <<pending, dead, llm, store, del, damage, budget>>

\* A handler that raised, after publishing S: its message is retried with a
\* raised attempt header or dead-lettered (process_delivery).
Raise(w, S) ==
    LET m == slot[w].msg
    IN  /\ Goto(w, Idle)
        /\ \/ /\ m.attempt + 1 < MaxRetries
              /\ pending' = Put(Published(pending, S), [m EXCEPT !.attempt = @ + 1])
              /\ UNCHANGED dead
           \/ /\ m.attempt + 1 >= MaxRetries
              /\ pending' = Published(pending, S)
              /\ dead' = dead \cup {m.stage}

\* Some call of the stage raises, or its answer is lost after it took effect.
StageFails(w) ==
    /\ slot[w] # Idle
    /\ slot[w].at # "fanout"
    /\ Spend("failures")
    /\ Raise(w, {})
    /\ UNCHANGED <<llm, store, del, damage>>

\* Mutant: deliveries are acked on receipt, so that a crash forgets them.
CrashForgets(w) ==
    /\ slot[w] # Idle
    /\ Spend("crashes")
    /\ Goto(w, Idle)
    /\ UNCHANGED <<pending, dead, llm, store, del, damage>>

Crash(w) ==
    /\ slot[w] # Idle
    /\ Spend("crashes")
    /\ pending' = Put(pending, slot[w].msg)
    /\ Goto(w, Idle)
    /\ UNCHANGED <<dead, llm, store, del, damage>>

\* The stages job j may publish next: label_handler publishes in sequence,
\* publish_post_ingest all at once (asyncio.gather).
Publishable(j) ==
    IF j.msg.stage = "label" /\ "embed.sparse" \in j.todo THEN {"embed.sparse"} ELSE j.todo

Fanout(w) ==
    LET j == slot[w]
    IN  /\ j.at = "fanout"
        /\ \E s \in Publishable(j) :
              /\ pending' = Put(pending, Fresh(s))
              /\ Goto(w, [j EXCEPT !.todo = @ \ {s},
                                   !.at = IF j.todo = {s} THEN "done" ELSE "fanout"])
        /\ UNCHANGED <<dead, llm, store, del, damage, budget>>

\* A publish is refused.  gather raises the first failure and leaves the other
\* publishes running, so any of them may still go through.
FanoutFails(w) ==
    LET j == slot[w]
    IN  /\ j.at = "fanout"
        /\ Spend("failures")
        /\ \E s \in Publishable(j) :
              \E S \in SUBSET (Publishable(j) \ {s}) : Raise(w, S)
        /\ UNCHANGED <<llm, store, del, damage>>

-----------------------------------------------------------------------------
\* ingest: ingest_fast, then publish_post_ingest.

\* POST /images: the row is inserted; an existing row keeps its text, whose AI
\* part the catalog COALESCEs.
IngestCatalog(w) ==
    /\ At(w, "ingest", "start")
    /\ row' = IF row = "absent" THEN "extracted" ELSE row
    /\ Goto(w, [slot[w] EXCEPT !.at = "thumbnail"])
    /\ UNCHANGED <<pending, dead, llm, blob, point, node, del, damage, budget>>

\* Mutant: the graph is left to the label stage.
IngestThumbnailNoGraph(w) ==
    /\ At(w, "ingest", "thumbnail")
    /\ blob' = [blob EXCEPT !["thumbnail"] = "bytes"]
    /\ Goto(w, [slot[w] EXCEPT !.at = "fanout",
                   !.todo = {"embed.dense", "embed.sparse"} \cup (IF llm THEN {"label"} ELSE {})])
    /\ UNCHANGED <<pending, dead, llm, row, point, node, del, damage, budget>>

\* PUT of the thumbnail (a file that has none skips it), then the fan-out; label
\* only when the LLM switch is on.
IngestThumbnail(w) ==
    /\ At(w, "ingest", "thumbnail")
    /\ blob' = [blob EXCEPT !["thumbnail"] = "bytes"]
    /\ Goto(w, [slot[w] EXCEPT !.at = "fanout",
                   !.todo = {"embed.dense", "embed.sparse", "index.graph"}
                            \cup (IF llm THEN {"label"} ELSE {})])
    /\ UNCHANGED <<pending, dead, llm, row, point, node, del, damage, budget>>

\* embed.dense: the bytes come from the path in the payload.
DenseStore(w) ==
    /\ At(w, "embed.dense", "start")
    /\ blob' = [blob EXCEPT !["embedding"] = "bytes"]
    /\ Goto(w, [slot[w] EXCEPT !.at = "fanout", !.todo = {"index.search"}])
    /\ UNCHANGED <<pending, dead, llm, row, point, node, del, damage, budget>>

\* fetch_image_record: the row's text; None when there is no row, and None too
\* when the read fails, which is no error to the stage.
RecordText == IF row = "absent" THEN "none" ELSE row

ReadRecord(w, next) ==
    \/ /\ Goto(w, [slot[w] EXCEPT !.record = RecordText, !.at = next])
       /\ UNCHANGED <<damage, budget>>
    \/ /\ Spend("degraded")
       /\ damage' = damage \cup {"degraded_read"}
       /\ Goto(w, [slot[w] EXCEPT !.record = "none", !.at = next])

SparseRead(w) ==
    /\ At(w, "embed.sparse", "start")
    /\ ReadRecord(w, "store")
    /\ UNCHANGED <<pending, dead, llm, store, del>>

\* Mutant: embed.sparse trusts embed.dense, the slower one, to publish index.search.
SparseStoreSilent(w) ==
    LET text == slot[w].record
    IN  /\ At(w, "embed.sparse", "store")
        /\ blob' = [blob EXCEPT !["sparse"] = IF text = "none" THEN "empty" ELSE text]
        /\ Goto(w, [slot[w] EXCEPT !.at = IF text = "labelled" THEN "describe" ELSE "done"])
        /\ UNCHANGED <<pending, dead, llm, row, point, node, del, damage, budget>>

\* The sparse vector of what was read; a description has a vector of its own
\* to be stored before the fan-out.
SparseStore(w) ==
    LET text == slot[w].record
    IN  /\ At(w, "embed.sparse", "store")
        /\ blob' = [blob EXCEPT !["sparse"] = IF text = "none" THEN "empty" ELSE text]
        /\ IF text = "labelled"
           THEN Goto(w, [slot[w] EXCEPT !.at = "describe"])
           ELSE Goto(w, [slot[w] EXCEPT !.at = "fanout", !.todo = {"index.search"}])
        /\ UNCHANGED <<pending, dead, llm, row, point, node, del, damage, budget>>

\* PUT of the description vector: the catalog answers 422 to a kind it does not
\* know, and the stage fails.
DescriptionRefused(w) ==
    /\ At(w, "embed.sparse", "describe")
    /\ DescriptionKind \notin BlobKinds
    /\ Raise(w, {})
    /\ UNCHANGED <<llm, store, del, damage, budget>>

\* index.search: two concurrent reads, each taken for absent when it fails; one
\* vector missing ends the stage.
Gate(j) ==
    CASE "none" \in {j.dense, j.sparse} /\ "unread" \notin {j.dense, j.sparse} -> "done"
      [] "unread" \in {j.dense, j.sparse} -> "start"
      [] OTHER -> "record"

Loaded(w, j) == Goto(w, [j EXCEPT !.at = Gate(j)])

SearchLoad(w, kind) ==
    LET read(content) == IF kind = "embedding" THEN [slot[w] EXCEPT !.dense = content]
                                               ELSE [slot[w] EXCEPT !.sparse = content]
    IN  /\ At(w, "index.search", "start")
        /\ (IF kind = "embedding" THEN slot[w].dense ELSE slot[w].sparse) = "unread"
        /\ \/ /\ Loaded(w, read(blob[kind]))
              /\ UNCHANGED <<damage, budget>>
           \/ /\ Spend("degraded")
              /\ damage' = damage \cup {"degraded_read"}
              /\ Loaded(w, read("none"))
        /\ UNCHANGED <<pending, dead, llm, store, del>>

\* The record; the description blob read beside it always finds none, since
\* the catalog refuses its kind.
SearchRecord(w) ==
    /\ At(w, "index.search", "record")
    /\ ReadRecord(w, "write")
    /\ UNCHANGED <<pending, dead, llm, store, del>>

SearchUpsert(w) ==
    /\ At(w, "index.search", "write")
    /\ point' = [text |-> slot[w].record, dense |-> slot[w].dense, sparse |-> slot[w].sparse]
    /\ Goto(w, [slot[w] EXCEPT !.at = "done"])
    /\ UNCHANGED <<pending, dead, llm, row, blob, node, del, damage, budget>>

GraphRead(w) ==
    /\ At(w, "index.graph", "start")
    /\ ReadRecord(w, "write")
    /\ UNCHANGED <<pending, dead, llm, store, del>>

\* The tags a row of this text carries: AI tags are added to extracted ones.
TagsOf(text) == CASE text = "none" -> {}
                  [] text = "extracted" -> {"extracted"}
                  [] text = "labelled" -> {"extracted", "labelled"}

\* upsert_edges only ever merges: no tag of an earlier write is removed.
GraphMerge(w) ==
    /\ At(w, "index.graph", "write")
    /\ node' = node \cup {"node"} \cup TagsOf(slot[w].record)
    /\ Goto(w, [slot[w] EXCEPT !.at = "done"])
    /\ UNCHANGED <<pending, dead, llm, row, blob, point, del, damage, budget>>

\* label: dropped when the switch is off; the bytes are found through the row,
\* so the stage fails without one.
LabelSkipped(w) ==
    /\ At(w, "label", "start")
    /\ ~llm
    /\ Goto(w, [slot[w] EXCEPT !.at = "done"])
    /\ UNCHANGED <<pending, dead, llm, store, del, damage, budget>>

LabelRead(w) ==
    /\ At(w, "label", "start")
    /\ llm
    /\ row # "absent"
    /\ ReadRecord(w, "write")
    /\ UNCHANGED <<pending, dead, llm, store, del>>

LabelOrphan(w) ==
    /\ At(w, "label", "start")
    /\ llm
    /\ row = "absent"
    /\ Raise(w, {})
    /\ UNCHANGED <<llm, store, del, damage, budget>>

\* POST /images of the described record: an upsert, which re-creates a row
\* deleted while the model was describing it.
LabelPatch(w) ==
    /\ At(w, "label", "write")
    /\ row' = "labelled"
    /\ damage' = IF row = "absent" THEN damage \cup {"resurrected"} ELSE damage
    /\ Goto(w, [slot[w] EXCEPT !.at = "fanout", !.todo = {"embed.sparse", "index.graph"}])
    /\ UNCHANGED <<pending, dead, llm, blob, point, node, del, budget>>

-----------------------------------------------------------------------------
\* unindex_image, one call at a time: the catalog deletes the row and then each
\* blob; only when it has answered are the point and the node deleted, in
\* parallel and best-effort.

DeleteRow ==
    /\ del = Idling
    /\ row # "absent"
    /\ Spend("deletes")
    /\ row' = "absent"
    /\ del' = [at |-> "catalog", todo |-> BlobKinds]
    /\ UNCHANGED <<pending, dead, slot, llm, blob, point, node, damage>>

Left(d, x) == CASE d.todo # {x} -> [d EXCEPT !.todo = @ \ {x}]
                [] d.at = "catalog" -> [at |-> "projections", todo |-> {"point", "node"}]
                [] OTHER -> Idling

\* A delete that reaches an image ingested again in the meantime.
Late(gone) == IF row # "absent" /\ gone THEN damage \cup {"late_delete"} ELSE damage

DeleteBlob(k) ==
    /\ del.at = "catalog"
    /\ k \in del.todo
    /\ blob' = [blob EXCEPT ![k] = "none"]
    /\ damage' = Late(blob[k] # "none")
    /\ del' = Left(del, k)
    /\ UNCHANGED <<pending, dead, slot, llm, row, point, node, budget>>

DeletePoint ==
    /\ del.at = "projections"
    /\ "point" \in del.todo
    /\ point' = NoPoint
    /\ damage' = Late(point # NoPoint)
    /\ del' = Left(del, "point")
    /\ UNCHANGED <<pending, dead, slot, llm, row, blob, node, budget>>

DeleteNode ==
    /\ del.at = "projections"
    /\ "node" \in del.todo
    /\ node' = {}
    /\ damage' = Late(node # {})
    /\ del' = Left(del, "node")
    /\ UNCHANGED <<pending, dead, slot, llm, row, blob, point, budget>>

\* One blob, point or node is not deleted; the call goes on.
CleanupFails ==
    /\ Spend("failures")
    /\ \E x \in del.todo : del' = Left(del, x)
    /\ UNCHANGED <<pending, dead, slot, llm, store, damage>>

\* The catalog's answer is lost, or the object store is out of reach: the call
\* raises with the row already gone.
DeleteAborted ==
    /\ del.at = "catalog"
    /\ Spend("failures")
    /\ del' = Idling
    /\ UNCHANGED <<pending, dead, slot, llm, store, damage>>

-----------------------------------------------------------------------------
StageStep(w) ==
    \/ Fanout(w) \/ Ack(w)
    \/ IngestCatalog(w) \/ IngestThumbnail(w)
    \/ DenseStore(w)
    \/ SparseRead(w) \/ SparseStore(w) \/ DescriptionRefused(w)
    \/ \E kind \in {"embedding", "sparse"} : SearchLoad(w, kind)
    \/ SearchRecord(w) \/ SearchUpsert(w)
    \/ GraphRead(w) \/ GraphMerge(w)
    \/ LabelSkipped(w) \/ LabelRead(w) \/ LabelOrphan(w) \/ LabelPatch(w)

Next ==
    \/ Scan
    \/ Toggle
    \/ \E w \in Workers : \E m \in Message : Take(w, m)
    \/ \E w \in Workers : StageStep(w)
    \/ \E w \in Workers : StageFails(w)
    \/ \E w \in Workers : FanoutFails(w)
    \/ \E w \in Workers : Crash(w)
    \/ DeleteRow
    \/ \E k \in BlobKinds : DeleteBlob(k)
    \/ DeletePoint
    \/ DeleteNode
    \/ CleanupFails
    \/ DeleteAborted

Spec == Init /\ [][Next]_vars

\* A stage ends (its calls have timeouts), and no queued message is starved
\* while workers keep becoming free.
Fairness ==
    /\ \A w \in Workers : WF_vars(StageStep(w))
    /\ \A s \in Stage : SF_vars(\E w \in Workers, m \in Message : m.stage = s /\ Take(w, m))

FairSpec == Spec /\ Fairness

-----------------------------------------------------------------------------
\* Every variable has its type.
TypeOK ==
    /\ pending \in [Message -> Nat]
    /\ dead \in SUBSET Stage
    /\ slot \in [Workers -> Job \cup {Idle}]
    /\ llm \in BOOLEAN
    /\ row \in Text \cup {"absent"}
    /\ blob \in [BlobKinds -> Content \cup {"none"}]
    /\ point \in Point \cup {NoPoint}
    /\ node \in SUBSET ({"node"} \cup Text)
    /\ del \in [at : {"idle", "catalog", "projections"},
                todo : SUBSET (BlobKinds \cup {"point", "node"})]
    /\ damage \in SUBSET Damage
    /\ budget \in [{"scans", "toggles", "crashes", "failures", "degraded", "deletes"} -> Nat]

\* A message of one of the stages S waits in a queue.
Waiting(S) == \E m \in Message : m.stage \in S /\ pending[m] > 0

\* The ingest job j will publish stage s, unless it fails and is retried.
WillPublish(j, s) ==
    /\ j.msg.stage = "ingest"
    /\ j.at \in {"start", "thumbnail"} \/ (j.at = "fanout" /\ s \in j.todo)

\* Jobs that will store the dense vector, the sparse vector, write the search
\* point and write the node, or publish a stage that does.
DenseCarrier(j) ==
    \/ WillPublish(j, "embed.dense")
    \/ j.msg.stage = "embed.dense" /\ j.at = "start"

SparseCarrier(j) ==
    \/ WillPublish(j, "embed.sparse")
    \/ j.msg.stage = "embed.sparse" /\ j.at \in {"start", "store"}

\* An index.search counts as long as it has not missed a vector.
PointCarrier(j) ==
    \/ WillPublish(j, "embed.dense")
    \/ j.msg.stage \in {"embed.dense", "embed.sparse"} /\ j.at # "done"
    \/ /\ j.msg.stage = "index.search"
       /\ j.at # "done"
       /\ "none" \notin {j.dense, j.sparse}

NodeCarrier(j) ==
    \/ WillPublish(j, "index.graph")
    \/ j.msg.stage = "index.graph" /\ j.at # "done"

\* Stages S lead to a product: one of them is queued or was dead-lettered, or
\* the image is damaged.
Underway(S) == Waiting(S) \/ dead \cap S # {} \/ damage # {}

DenseDue == \/ Underway({"ingest", "embed.dense"})
            \/ \E w \in Workers : slot[w] # Idle /\ DenseCarrier(slot[w])
SparseDue == \/ Underway({"ingest", "embed.sparse"})
             \/ \E w \in Workers : slot[w] # Idle /\ SparseCarrier(slot[w])
PointDue == \/ Underway({"ingest", "embed.dense", "embed.sparse", "index.search"})
            \/ \E w \in Workers : slot[w] # Idle /\ PointCarrier(slot[w])
NodeDue == \/ Underway({"ingest", "index.graph"})
           \/ \E w \in Workers : slot[w] # Idle /\ NodeCarrier(slot[w])

\* The dense vector of a cataloged image is stored or on its way; so is the
\* sparse one; and an image with both is in the search index or on its way.
DenseOwed == row # "absent" /\ blob["embedding"] = "none" => DenseDue
SparseOwed == row # "absent" /\ blob["sparse"] = "none" => SparseDue
PointOwed ==
    row # "absent" /\ blob["embedding"] # "none" /\ blob["sparse"] # "none" /\ point = NoPoint
        => PointDue

\* The fan-in loses no image: no interleaving of the two embeds, their
\* index.search tasks, crashes, redeliveries, re-ingests and deletes leaves a
\* cataloged image out of the search index with nothing left to put it there.
FanInHolds == DenseOwed /\ SparseOwed /\ PointOwed

\* A cataloged image has a graph node, or index.graph is still to come, was
\* dead-lettered, or the image damaged.
NodeOwed == row # "absent" /\ node = {} => NodeDue

\* What the stage of a job says of its other fields (with TypeOK, and for the
\* induction only).
JobShape(j) ==
    /\ j.msg.stage \in {"embed.dense", "embed.sparse"} => j.todo \subseteq {"index.search"}
    /\ j.msg.stage \in {"index.search", "index.graph"} => j.at \in {"start", "record", "write", "done"}
    /\ j.msg.stage = "index.search" /\ j.at \in {"record", "write"} =>
          j.dense \in Content /\ j.sparse \in Content

ShapeOK == \A w \in Workers : slot[w] # Idle => JobShape(slot[w])

\* Every cataloged image gets its search point and its graph node, or a stage
\* is dead-lettered, the image is deleted, or damaged.
EventuallyIndexed ==
    row # "absent" ~> \/ point # NoPoint /\ node # {}
                      \/ row = "absent"
                      \/ dead # {}
                      \/ damage # {}

=============================================================================
