--------------------------- MODULE IngestService ---------------------------
(***************************************************************************)
(* The ingestion layer of the client's own server (comfyhelper,            *)
(* lib/library/services): jobs that walk a folder and store its images,    *)
(* the re-index of one image, and the rebuilds of the graph and of the     *)
(* vectors.  The pages of this commit go through the gateway instead; the  *)
(* layer is whole and exported.                                            *)
(*                                                                         *)
(* A job runs on after its request was answered, any number of them beside *)
(* each other, one awaited call after the other: each is a step.  An image *)
(* is named by what its file held: the hash is the key of the row.  Every  *)
(* awaited call may fail, and a write may fail after it was done.          *)
(***************************************************************************)
EXTENDS Integers, FiniteSets

CONSTANTS
    FolderFiles,      \* the files the folder may hold
    Contents,         \* what a file may hold
    NoContent,           \* what a file that is not there holds
    IngestJobs,       \* the jobs that may be started
    Keepers,          \* requests that re-index or rebuild
    IngestRequests,   \* the options a request may choose
    ProgressEvery,    \* files between two writes of the counters (20)
    MaxKept,          \* bound: re-indexes and rebuilds
    MaxMischief       \* bound: files changed, calls failed, crashes, cancels

IngestOptions == {"thumbnails", "qdrant", "graph", "enrich", "metadata"}

ASSUME IngestAssumption ==
    /\ NoContent \notin Contents \cup FolderFiles /\ IsFiniteSet(FolderFiles)
    /\ IngestJobs \cap Keepers = {}
    /\ IngestRequests \subseteq SUBSET IngestOptions
    /\ ProgressEvery \in Nat \ {0}

VARIABLES
    disk,         \* what each file holds
    images,       \* the rows: NoImageRow, or the file and whether it has a thumbnail
    described,    \* the images with a description
    nodes,        \* the images in Neo4j
    points,       \* the vector of each image in Qdrant: what it was computed from
    embeddings,   \* the cached vectors, under the hash of the row
    collection, qdrantReady,
    jobRows,      \* ingestion_jobs
    jobFiles,     \* ingestion_job_files: per job a set of file, status, image
    doing,        \* what each job and each request does
    edits, keeps, ingestFaults  \* counted against the bounds

storeVars == <<images, described, nodes>>
vectorVars == <<points, embeddings, collection, qdrantReady>>
bookVars == <<jobRows, jobFiles>>
ingestBounds == <<edits, keeps, ingestFaults>>
serviceVars == <<disk, storeVars, vectorVars, bookVars, doing, ingestBounds>>

-----------------------------------------------------------------------------

NoImage == NoContent
NoImageRow == [path |-> NoContent, thumb |-> FALSE]
Stored == {c \in Contents : images[c] # NoImageRow}
Actors == IngestJobs \cup Keepers

\* kind: what it does; todo: files or images left; image: the one projected.
NoWork == [at |-> "none", kind |-> "none", req |-> {}, listed |-> {}, todo |-> {},
           file |-> NoContent, sha |-> NoImage, image |-> NoImage, thumb |-> FALSE,
           path |-> NoContent, vector |-> NoContent,
           total |-> 0, processed |-> 0, failed |-> 0]

NoJobRow == [status |-> "none", total |-> 0, processed |-> 0, failed |-> 0]

Going(a) == doing[a].at \notin {"none", "done", "dead"}
Becomes(a, w) == doing' = [doing EXCEPT ![a] = w]
To(a, at) == Becomes(a, [doing[a] EXCEPT !.at = at])
Failing == edits + ingestFaults < MaxMischief /\ ingestFaults' = ingestFaults + 1
Fine == UNCHANGED ingestFaults

\* Where an actor goes on when the projections of its image are done.
AfterEnrich(w) == CASE w.kind = "ingest" -> "record"
                    [] w.kind = "reindex" -> "done"
                    [] OTHER -> "each"
AfterGraph(w) == IF "enrich" \in w.req THEN "enrich" ELSE AfterEnrich(w)
AfterVector(w) == IF "graph" \in w.req THEN "graph" ELSE AfterGraph(w)

\* The catch of upsertImageVector.  Mutant: its error ends the image.
UnindexedThrows(w) == AfterEnrich(w)
Unindexed(w) == AfterVector(w)

AfterPersist(w) == IF "qdrant" \in w.req THEN "ensure" ELSE AfterVector(w)

-----------------------------------------------------------------------------
(* A job.                                                                  *)

\* startIngestion: the row, then a run that nobody awaits.  When the answer
\* to the insert is lost there is a row and no run.
StartIngestion(j) ==
    /\ doing[j].at = "none"
    /\ \/ /\ \E req \in IngestRequests :
               Becomes(j, [NoWork EXCEPT !.at = "stat", !.kind = "ingest", !.req = req])
          /\ Fine
       \/ To(j, "dead") /\ Failing
    /\ jobRows' = [jobRows EXCEPT ![j].status = "running"]
    /\ UNCHANGED <<disk, storeVars, vectorVars, jobFiles, edits, keeps>>

StatFolder(j) ==
    /\ doing[j].at = "stat"
    /\ \/ To(j, "open") /\ Fine
       \/ To(j, "fail") /\ Failing
    /\ UNCHANGED <<disk, storeVars, vectorVars, bookVars, edits, keeps>>

\* walk: a directory that cannot be read yields nothing and is no error.
OpenFolder(j) ==
    LET Listing(fs) ==
          Becomes(j, [doing[j] EXCEPT !.at = "next", !.listed = fs, !.todo = fs])
    IN  /\ doing[j].at = "open"
        /\ \/ Listing({f \in FolderFiles : disk[f] # NoContent}) /\ Fine
           \/ Listing({}) /\ Failing
        /\ UNCHANGED <<disk, storeVars, vectorVars, bookVars, edits, keeps>>

NextFile(j) ==
    /\ doing[j].at = "next"
    /\ \/ doing[j].todo = {} /\ To(j, "finish")
       \/ \E f \in doing[j].todo :
            Becomes(j, [doing[j] EXCEPT
                         !.at = "hash", !.file = f, !.todo = doing[j].todo \ {f},
                         !.total = doing[j].total + 1, !.thumb = FALSE, !.sha = NoImage,
                         !.image = NoImage, !.path = NoContent, !.vector = NoContent])
    /\ UNCHANGED <<disk, storeVars, vectorVars, bookVars, ingestBounds>>

\* The catch of one file.
FileFails(j) ==
    Becomes(j, [doing[j] EXCEPT !.at = "recordFailed", !.failed = doing[j].failed + 1])

HashFile(j) ==
    /\ doing[j].at = "hash"
    /\ LET content == disk[doing[j].file] IN
       \/ /\ content # NoContent
          /\ Becomes(j, [doing[j] EXCEPT !.at = "lookup", !.sha = content])
          /\ Fine
       \/ content = NoContent /\ FileFails(j) /\ Fine
       \/ FileFails(j) /\ Failing
    /\ UNCHANGED <<disk, storeVars, vectorVars, bookVars, edits, keeps>>

\* findBySha256: what is stored already is skipped.
LookUp(j) ==
    /\ doing[j].at = "lookup"
    /\ \/ doing[j].sha \in Stored /\ To(j, "record") /\ Fine
       \/ doing[j].sha \notin Stored /\ To(j, "extract") /\ Fine
       \/ FileFails(j) /\ Failing
    /\ UNCHANGED <<disk, storeVars, vectorVars, bookVars, edits, keeps>>

\* recordFile after ingestSingleFile: its failure is the failure of a file
\* that was counted as processed.  An image the job stored itself is
\* "indexed", one it found "skipped".
Outcome(w) == IF w.image = NoImage THEN [status |-> "skipped", image |-> w.sha]
              ELSE [status |-> "indexed", image |-> w.image]

FileRow(f, o) == [file |-> f, status |-> o.status, image |-> o.image]
NoOutcome == [status |-> "failed", image |-> NoImage]

AfterRecord(w) == IF w.total % ProgressEvery = 0 THEN "progress" ELSE "next"

AddRow(j, o) == jobFiles' = [jobFiles EXCEPT ![j] = @ \cup {FileRow(doing[j].file, o)}]

\* Mutant: a row that was refused is passed over.
RecordRefusedPassed(j) ==
    Becomes(j, [doing[j] EXCEPT !.at = AfterRecord(doing[j]),
                                !.processed = doing[j].processed + 1])
RecordRefused(j) ==
    Becomes(j, [doing[j] EXCEPT !.at = "recordFailed",
                                !.processed = doing[j].processed + 1,
                                !.failed = doing[j].failed + 1])

RecordFile(j) ==
    /\ doing[j].at = "record"
    /\ \/ /\ AddRow(j, Outcome(doing[j]))
          /\ Becomes(j, [doing[j] EXCEPT !.at = AfterRecord(doing[j]),
                                         !.processed = doing[j].processed + 1])
          /\ Fine
       \/ /\ AddRow(j, Outcome(doing[j])) \/ UNCHANGED jobFiles
          /\ RecordRefused(j)
          /\ Failing
    /\ UNCHANGED <<disk, storeVars, vectorVars, jobRows, edits, keeps>>

\* recordFile in the catch: its failure is the failure of the job.
RecordFailedFile(j) ==
    /\ doing[j].at = "recordFailed"
    /\ \/ AddRow(j, NoOutcome) /\ To(j, AfterRecord(doing[j])) /\ Fine
       \/ (AddRow(j, NoOutcome) \/ UNCHANGED jobFiles) /\ To(j, "fail") /\ Failing
    /\ UNCHANGED <<disk, storeVars, vectorVars, jobRows, edits, keeps>>

CountersWritten(j, status) ==
    jobRows' = [jobRows EXCEPT ![j] =
                  [status |-> status, total |-> doing[j].total,
                   processed |-> doing[j].processed, failed |-> doing[j].failed]]

Progress(j) ==
    /\ doing[j].at = "progress"
    /\ \/ CountersWritten(j, jobRows[j].status) /\ To(j, "next") /\ Fine
       \/ (CountersWritten(j, jobRows[j].status) \/ UNCHANGED jobRows) /\ To(j, "fail") /\ Failing
    /\ UNCHANGED <<disk, storeVars, vectorVars, jobFiles, edits, keeps>>

\* Neither end looks at a cancel that came in between.
Finish(j) ==
    /\ doing[j].at = "finish"
    /\ \/ CountersWritten(j, "completed") /\ To(j, "done") /\ Fine
       \/ (CountersWritten(j, "completed") \/ UNCHANGED jobRows) /\ To(j, "fail") /\ Failing
    /\ UNCHANGED <<disk, storeVars, vectorVars, jobFiles, edits, keeps>>

\* When this update fails too nobody catches it: the job shows as it was.
FailJob(j) ==
    /\ doing[j].at = "fail"
    /\ LET Failed == jobRows' = [jobRows EXCEPT ![j].status = "failed"]
       IN  \/ Failed /\ To(j, "done") /\ Fine
           \/ (Failed \/ UNCHANGED jobRows) /\ To(j, "dead") /\ Failing
    /\ UNCHANGED <<disk, storeVars, vectorVars, jobFiles, edits, keeps>>

CancelIngestion(j) ==
    /\ jobRows[j].status = "running"
    /\ jobRows' = [jobRows EXCEPT ![j].status = "cancelled"]
    /\ Failing
    /\ UNCHANGED <<disk, storeVars, vectorVars, jobFiles, doing, edits, keeps>>

-----------------------------------------------------------------------------
(* What a job does with a new file, and a re-index with an old one.        *)

\* An error of a file fails the file of a job, and a re-index altogether.
Refused(a) == IF doing[a].kind = "ingest" THEN FileFails(a) ELSE To(a, "done")

\* extractImageMetadata reads the file again, with a hash of its own.
Extract(a) ==
    /\ doing[a].at = "extract"
    /\ LET content == disk[doing[a].file]
           thumbs == doing[a].kind = "reindex" \/ "thumbnails" \in doing[a].req
       IN
       \/ /\ content # NoContent
          /\ Becomes(a, [doing[a] EXCEPT !.sha = content,
                                         !.at = IF thumbs THEN "thumbnail" ELSE "persist"])
          /\ Fine
       \/ content = NoContent /\ Refused(a) /\ Fine
       \/ Refused(a) /\ Failing
    /\ UNCHANGED <<disk, storeVars, vectorVars, bookVars, edits, keeps>>

\* A thumbnail that fails is logged and left out; a re-index then passes on the
\* one of its image, even to the row of another hash.
Thumbnail(a) ==
    /\ doing[a].at = "thumbnail"
    /\ \/ /\ disk[doing[a].file] # NoContent
          /\ Becomes(a, [doing[a] EXCEPT !.at = "persist", !.thumb = TRUE])
          /\ Fine
       \/ disk[doing[a].file] = NoContent /\ To(a, "persist") /\ Fine
       \/ To(a, "persist") /\ Failing
    /\ UNCHANGED <<disk, storeVars, vectorVars, bookVars, edits, keeps>>

\* persistImage: one transaction, on conflict of the hash an update.
StoreRow(w) ==
    images' = [images EXCEPT ![w.sha] = [path |-> w.file, thumb |-> @.thumb \/ w.thumb]]

\* A job goes on with the row it wrote, a re-index with the one it was
\* asked for, whatever the file holds by now.
PersistImage(a) ==
    LET w == doing[a]
        image == IF w.kind = "ingest" THEN w.sha ELSE w.image
    IN  /\ w.at = "persist"
        /\ \/ /\ StoreRow(w)
              /\ Becomes(a, [w EXCEPT !.image = image, !.at = AfterPersist(w)])
              /\ Fine
           \/ (StoreRow(w) \/ UNCHANGED images) /\ Refused(a) /\ Failing
        /\ UNCHANGED <<disk, described, nodes, vectorVars, bookVars, edits, keeps>>

-----------------------------------------------------------------------------
(* The projections of one image.  What fails here is logged.               *)

\* The row of the image is read, then ensureCollection: the flag, or a look
\* at the collections.  A rebuild calls it first without an image.
AfterEnsure(w) == IF w.image = NoImage THEN "each" ELSE "embed"
NotEnsured(w) == IF w.image = NoImage THEN "done" ELSE Unindexed(w)

EnsureCollection(a) ==
    LET w == doing[a]
        Goes(at) == Becomes(a, [w EXCEPT !.at = at,
                      !.path = IF w.image = NoImage THEN NoContent
                               ELSE images[w.image].path])
    IN  /\ w.at = "ensure"
        /\ \/ qdrantReady /\ Goes(AfterEnsure(w)) /\ Fine
           \/ ~qdrantReady /\ Goes(IF collection THEN "mark" ELSE "create") /\ Fine
           \/ To(a, NotEnsured(w)) /\ Failing
        /\ UNCHANGED <<disk, storeVars, vectorVars, bookVars, edits, keeps>>

\* The collection is there by now when another actor looked at the same time.
CreateCollection(a) ==
    /\ doing[a].at = "create"
    /\ \/ ~collection /\ collection' = TRUE /\ To(a, "mark") /\ Fine
       \/ collection /\ To(a, NotEnsured(doing[a])) /\ Fine /\ UNCHANGED collection
       \/ collection' \in {collection, TRUE} /\ To(a, NotEnsured(doing[a])) /\ Failing
    /\ UNCHANGED <<disk, storeVars, points, embeddings, qdrantReady, bookVars, edits,
                   keeps>>

MarkReady(a) ==
    /\ doing[a].at = "mark"
    /\ qdrantReady' = TRUE
    /\ To(a, AfterEnsure(doing[a]))
    /\ UNCHANGED <<disk, storeVars, points, embeddings, collection, bookVars,
                   ingestBounds>>

\* getOrComputeImageEmbedding: the vector cached under the hash of the row,
\* or one of what the file holds by now, which is cached under that hash.
Embed(a) ==
    LET w == doing[a]
        now == disk[w.path]
        With(v) == Becomes(a, [w EXCEPT !.at = "point", !.vector = v])
    IN  /\ w.at = "embed"
        /\ \/ /\ embeddings[w.image] # NoContent
              /\ With(embeddings[w.image]) /\ Fine /\ UNCHANGED embeddings
           \/ /\ embeddings[w.image] = NoContent /\ now # NoContent /\ With(now)
              /\ \/ embeddings' = [embeddings EXCEPT ![w.image] = now] /\ Fine
                 \/ UNCHANGED embeddings /\ Failing
           \/ /\ embeddings[w.image] = NoContent /\ UNCHANGED embeddings
              /\ To(a, Unindexed(w))
              /\ IF now = NoContent THEN Fine ELSE Failing
        /\ UNCHANGED <<disk, storeVars, points, collection, qdrantReady, bookVars,
                       edits, keeps>>

\* upsertPoint, refused when a rebuild has dropped the collection.
UpsertPoint(a) ==
    LET w == doing[a]
        Stores == collection /\ points' = [points EXCEPT ![w.image] = w.vector]
    IN  /\ w.at = "point"
        /\ \/ Stores /\ To(a, AfterVector(w)) /\ Fine
           \/ ~collection /\ UNCHANGED points /\ To(a, Unindexed(w)) /\ Fine
           \/ (Stores \/ UNCHANGED points) /\ To(a, Unindexed(w)) /\ Failing
        /\ UNCHANGED <<disk, storeVars, embeddings, collection, qdrantReady, bookVars,
                       edits, keeps>>

\* syncImageToGraph: one statement.  Only a rebuild of the graph does not
\* catch its failure.
SyncGraph(a) ==
    LET w == doing[a]
    IN  /\ w.at = "graph"
        /\ \/ nodes' = nodes \cup {w.image} /\ To(a, AfterGraph(w)) /\ Fine
           \/ /\ nodes' \in {nodes, nodes \cup {w.image}}
              /\ To(a, IF w.kind = "graph" THEN "done" ELSE AfterGraph(w))
              /\ Failing
        /\ UNCHANGED <<disk, images, described, vectorVars, bookVars, edits, keeps>>

\* enrichImageMetadata: a vision provider that fails describes nothing.
Enrich(a) ==
    LET w == doing[a]
    IN  /\ w.at = "enrich"
        /\ To(a, AfterEnrich(w))
        /\ \/ described' = described \cup {w.image} /\ Fine
           \/ described' \in {described, described \cup {w.image}} /\ Failing
        /\ UNCHANGED <<disk, images, nodes, vectorVars, bookVars, edits, keeps>>

-----------------------------------------------------------------------------
(* Re-index and rebuilds.                                                  *)

Keep(k, w) ==
    /\ ~Going(k)
    /\ keeps < MaxKept /\ keeps' = keeps + 1
    /\ Becomes(k, w)
    /\ UNCHANGED <<disk, storeVars, vectorVars, bookVars, edits, ingestFaults>>

\* reindexImage
Reindex(k) ==
    \E c \in Stored, req \in IngestRequests :
        LET w == [NoWork EXCEPT !.kind = "reindex", !.req = req, !.image = c,
                                !.file = images[c].path, !.thumb = images[c].thumb]
        IN  Keep(k, [w EXCEPT !.at = IF "metadata" \in req THEN "extract"
                                     ELSE AfterPersist(w)])

RebuildGraph(k) ==
    Keep(k, [NoWork EXCEPT !.at = "clear", !.kind = "graph", !.req = {"graph"}])

\* rebuildQdrant, with the list its caller has read.
RebuildQdrant(k) ==
    Keep(k, [NoWork EXCEPT !.at = "drop", !.kind = "qdrant", !.req = {"qdrant"},
                           !.todo = Stored])

ClearGraph(k) ==
    /\ doing[k].at = "clear"
    /\ \/ /\ nodes' = {}
          /\ Becomes(k, [doing[k] EXCEPT !.at = "list", !.todo = {}])
          /\ Fine
       \/ nodes' \in {nodes, {}} /\ To(k, "done") /\ Failing
    /\ UNCHANGED <<disk, images, described, vectorVars, bookVars, edits, keeps>>

ListImages(k) ==
    /\ doing[k].at = "list"
    /\ \/ Becomes(k, [doing[k] EXCEPT !.at = "each", !.todo = Stored]) /\ Fine
       \/ To(k, "done") /\ Failing
    /\ UNCHANGED <<disk, storeVars, vectorVars, bookVars, edits, keeps>>

\* recreateCollection: a drop that fails is swallowed, and the flag says
\* ready until the drop is done.
DropCollection(k) ==
    /\ doing[k].at = "drop"
    /\ To(k, "reset")
    /\ LET Dropped == collection' = FALSE /\ points' = [c \in Contents |-> NoContent]
       IN  \/ Dropped /\ Fine
           \/ (Dropped \/ UNCHANGED <<collection, points>>) /\ Failing
    /\ UNCHANGED <<disk, storeVars, embeddings, qdrantReady, bookVars, edits, keeps>>

ResetReady(k) ==
    /\ doing[k].at = "reset"
    /\ qdrantReady' = FALSE
    /\ Becomes(k, [doing[k] EXCEPT !.at = "ensure", !.image = NoImage])
    /\ UNCHANGED <<disk, storeVars, points, embeddings, collection, bookVars,
                   ingestBounds>>

EachImage(k) ==
    /\ doing[k].at = "each"
    /\ \/ doing[k].todo = {} /\ To(k, "done")
       \/ \E c \in doing[k].todo :
            Becomes(k, [doing[k] EXCEPT !.image = c, !.todo = doing[k].todo \ {c},
                                        !.at = AfterPersist(doing[k])])
    /\ UNCHANGED <<disk, storeVars, vectorVars, bookVars, ingestBounds>>

-----------------------------------------------------------------------------
(* The files, the process.                                                 *)

EditFile ==
    /\ edits + ingestFaults < MaxMischief /\ edits' = edits + 1
    /\ \E f \in FolderFiles, c \in Contents \cup {NoContent} :
         c # disk[f] /\ disk' = [disk EXCEPT ![f] = c]
    /\ UNCHANGED <<storeVars, vectorVars, bookVars, doing, keeps, ingestFaults>>

\* The server goes down: nothing takes the jobs up again.
ServerDies ==
    /\ \E a \in Actors : Going(a)
    /\ Failing
    /\ doing' = [a \in Actors |-> IF Going(a) THEN [doing[a] EXCEPT !.at = "dead"]
                                 ELSE doing[a]]
    /\ qdrantReady' = FALSE
    /\ UNCHANGED <<disk, storeVars, points, embeddings, collection, bookVars, edits, keeps>>

ServiceInit ==
    /\ disk \in [FolderFiles -> Contents \cup {NoContent}]
    /\ images = [c \in Contents |-> NoImageRow]
    /\ described = {} /\ nodes = {}
    /\ points = [c \in Contents |-> NoContent]
    /\ embeddings = [c \in Contents |-> NoContent]
    /\ collection = FALSE /\ qdrantReady = FALSE
    /\ jobRows = [j \in IngestJobs |-> NoJobRow]
    /\ jobFiles = [j \in IngestJobs |-> {}]
    /\ doing = [a \in Actors |-> NoWork]
    /\ edits = 0 /\ keeps = 0 /\ ingestFaults = 0

JobNext(j) ==
    \/ StartIngestion(j) \/ StatFolder(j) \/ OpenFolder(j) \/ NextFile(j)
    \/ HashFile(j) \/ LookUp(j) \/ RecordFile(j) \/ RecordFailedFile(j)
    \/ Progress(j) \/ Finish(j) \/ FailJob(j) \/ CancelIngestion(j)

ImageNext(a) ==
    \/ Extract(a) \/ Thumbnail(a) \/ PersistImage(a)
    \/ EnsureCollection(a) \/ CreateCollection(a) \/ MarkReady(a) \/ Embed(a) \/ UpsertPoint(a)
    \/ SyncGraph(a) \/ Enrich(a)

KeeperNext(k) ==
    \/ Reindex(k) \/ RebuildGraph(k) \/ RebuildQdrant(k) \/ ClearGraph(k)
    \/ ListImages(k) \/ DropCollection(k) \/ ResetReady(k) \/ EachImage(k)

ServiceNext ==
    \/ \E j \in IngestJobs : JobNext(j)
    \/ \E a \in Actors : ImageNext(a)
    \/ \E k \in Keepers : KeeperNext(k)
    \/ EditFile \/ ServerDies

ServiceSpec == ServiceInit /\ [][ServiceNext]_serviceVars

-----------------------------------------------------------------------------

\* A job that says it completed has a row for every file it found, and each
\* row that names an image names one that is stored, whatever failed on the
\* way and whoever else stores, cancels or rebuilds.
FilesAreAccounted ==
    \A j \in IngestJobs :
        /\ jobRows[j].status = "completed" =>
             \A f \in doing[j].listed : \E r \in jobFiles[j] : r.file = f
        /\ \A r \in jobFiles[j] : r.status # "failed" => r.image \in Stored

\* The counters of a completed job are those of its rows.  A file whose row
\* was refused counts as processed and as failed.
CountsAreOfRows ==
    \A j \in IngestJobs :
        LET failed == {r \in jobFiles[j] : r.status = "failed"}
        IN  jobRows[j].status = "completed" =>
              /\ jobRows[j].total = Cardinality(doing[j].listed)
              /\ jobRows[j].failed = Cardinality(failed)
              /\ jobRows[j].processed + jobRows[j].failed >= jobRows[j].total

\* At rest, and with nothing failed, every image a job indexed with the
\* graph on has its node, however rebuilds ran beside the jobs.
NodesFollowRows ==
    (ingestFaults = 0 /\ \A a \in Actors : ~Going(a)) =>
        \A j \in IngestJobs : "graph" \in doing[j].req =>
            \A r \in jobFiles[j] : r.status = "indexed" => r.image \in nodes

=============================================================================
