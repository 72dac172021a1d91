# A verification development for deedlit.dev

This directory holds TLA+ models of deedlit.dev (the ComfyHelper image library),
the TLC configurations that check them on small instances, and TLAPS proofs of
the theorems that hold for every instance. Paths below are relative to the
repository root.

## 1. The system

deedlit.dev keeps a library of generated images, behind two web clients. Image files live on disk; a set
of FastAPI services scans folders, extracts metadata, embeds and labels the
images, and projects the result into a vector index and a property graph. Two
stores hold what cannot be recomputed cheaply (catalog Postgres and its object
store); two are projections of them (Qdrant, Neo4j).

| part | code | state | operations |
|---|---|---|---|
| broker and worker core | `deedlit.ingest/broker.py`, `worker.py` | per task type a durable queue, `.retry` (TTL, dead-letters to the main queue) and `.dlq`; consumers and their unacked windows | publish, consume, run a handler, republish to retry or dlq, ack |
| stage pipeline | `deedlit.ingest/pipeline.py`, `worker.py` | none of its own | ingest, embed dense, embed sparse, label, index search, index graph: each reads and writes other services and publishes the next stages |
| catalog | `deedlit.catalog/catalog/*` | images, tags, descriptions, curation, collections, jobs, tasks, source folders (Postgres); thumbnails and embedding blobs (object store) | upsert, patch, delete, list, blob put/get, job and task rows |
| search | `deedlit.search/` | one Qdrant collection | upsert of points through a micro-batcher, delete, rebuild |
| graph | `deedlit.graph/` | Neo4j nodes and relations | merge of edges through a micro-batcher, delete, prune of orphans, rebuild |
| ingest jobs | `deedlit.ingest/jobs.py`, `app.py` | an in-memory job store with a queue and one worker task; job rows in the catalog | create, cancel, run, persist, interrupt and hydrate at start-up; schedulers for folder scans, labels, orphans, reconciliation |
| ledgers | `deedlit.ingest/ledger.py`, `job_ledger.py` | none of their own | best-effort writes of task and job rows to the catalog |
| settings | `settings_client.py`, `config.py`, `worker.py` | a config per process, a copy in the gateway's settings table | put, load at start, 30 s refresh in workers |
| gateway | `deedlit.api/` | settings and feedback tables | fan-out reads, delete (catalog, then search and graph), queue administration (purge, requeue) |
| labelagent | `deedlit.labelagent/` | none | describes an image through a vision LLM server |
| vision, metadata | `deedlit.vision/`, `deedlit.metadata/` | loaded models | pure inference and extraction |
| ComfyHelper client | `deedlit.dev.comfyhelper/` (Next.js: pages, and route handlers that proxy the gateway) | React state of each page; local and session storage; a Redis cache of image bytes; an ingestion layer with its own Postgres, Qdrant and Neo4j, which no route of this commit starts | search and browse with paging, view, edit, export, administer queues, jobs and records |
| site | `deedlit.dev/` (Next.js) | a snapshot of an image directory; page state; a generated list of books | gallery, service hub, book shelf and the script that fills it |
| interface kit | `deedlit.dev.ui/` | component state | tag box, windowed gallery, presentational parts |

How they interact. A folder scan (a job) publishes one `ingest` task per new
file. The ingest stage writes the catalog row and the thumbnail, then publishes
`embed.dense`, `embed.sparse`, `index.graph` and, when the LLM switch is on,
`label`. Each embed stores its vector as a catalog blob and publishes
`index.search`, which reads both vectors back and upserts the search point only
when both are there. `label` adds a description and tags to the row and publishes
`embed.sparse` and `index.graph` again. A stage that raises is republished to
`<queue>.retry` and, after `MAX_RETRIES` runs, to `<queue>.dlq`. The gateway's
delete removes the catalog row and blobs first, then the point and the node.

A page of a client holds a copy of what the services said when it asked. It asks
again on a timer, on a click, on a key, when the tab comes back, and applies each
answer when it arrives, in whatever order, onto whatever the user has done since:
aborts, generation counters, `alive` flags and refs are the code's means of telling
an answer that still counts from one that does not. The route handlers hold no state
but the image cache and the site's directory snapshot. Clients meet each other in the
catalog only, and each other's edits on the next poll.

What is hard, and what makes each part correct:

| part | hard | correct when |
|---|---|---|
| task delivery | a worker dies between any two of: handler, republish, ack; a refused republish; the operator's purge and requeue beside live consumers | no task vanishes without a named cause; the attempt header is honest; a dead letter has had all its runs; no message circulates for ever |
| stage pipeline | fan-in of two stages through a third service; crash between a store and its fan-out; reads that fail and are taken for absent; deletes and re-ingests during stages; a switch that workers see late | a cataloged image is never left out of an index with nothing left to put it there; the text of a label reaches the index |
| jobs | endpoint threads, schedulers and the worker task share unlocked state; a queue woken from a thread; snapshots in flight; restarts | no job shows as live without somebody working on it; every job ends; scans do not stack; the history agrees with what happened |
| search writes | a batch shares one answer; a cached flag read and set by unlocked threads; rebuild and delete beside flushes | an acknowledged point is stored; every request is answered; the flag does not lie for good |
| catalog rows | READ COMMITTED transactions with row locks taken in different orders; curation, re-ingest and labels writing one row | nothing a user wrote is lost; references and tags are those of one request; no request fails for a deadlock |
| graph | merges only add; batches; prune of nodes that are being linked | a node of a cataloged image exists; prune removes no node in use |
| image list | fresh searches, appends, warmed pages, restores and the freshness poll share one list and one offset | no image twice; a list that says it is complete is; scrolling ends; warmed pages are of the search in force |
| viewer, bulk edits, export, detail | positions in a list that moves; one of several requests failing; a delete primed for another image; an answer to the image before | what is shown, edited, exported and deleted is the image that was meant, once |
| boxes and panels that look things up | answers of older texts and scopes arrive last | what is offered belongs to the text in the box |
| pages that poll | polls overlap, fail and outlive their question; a job that was restarted or forgotten | they come to show what is so, once it stops changing |
| settings, tray | effects that read and write one storage key in the same commit; two tabs | a stored choice is not overwritten by a default |
| image cache | two keys per image that expire and fail apart | bytes are served as what they are |
| ingestion layer | jobs nobody awaits beside re-indexes and rebuilds; calls that fail after they were done | a completed job has a row for every file, and a row names a stored image |
| label agent, settings of the services | client time-outs shorter than the model; copies refreshed by polling | not modelled, see 7 |

## 2. The modules

| module | models | extends / used by |
|---|---|---|
| `TaskDelivery` | one task queue with its retry and dead-letter queues and its consumers (`broker.py`, gateway queue administration) | `MCTaskDelivery`, `TaskDelivery_proofs` |
| `TaskPromise` | what a queue promises a task, without queues, messages or workers; `TaskDelivery` implements it | `MCTaskDelivery`, `TaskDelivery_proofs` |
| `IngestDag` | the stages of one image over catalog, search and graph (`pipeline.py`, `worker.py`), and the gateway's delete | `MCIngestDag`, `IngestDag_proofs` |
| `JobStore` | the registry, queue, worker task and history of the coarse jobs (`jobs.py`, `job_ledger.py`, start-up in `app.py`) | `MCJobStore`, `JobStore_proofs` |
| `SearchIndex` | the upsert micro-batcher and the life of the collection (`search/app.py`, `store.py`, `rebuild.py`) | `MCSearchIndex`, `SearchIndex_proofs` |
| `CatalogTx` | the catalog's transactions of more than one row, statement by statement over row locks (`catalog/repository.py`, the schema in `alembic/`) | `MCCatalogTx`, `CatalogTx_proofs` |
| `LibraryBrowse` | the list of the library page: searches, paging, warmed pages, restore, freshness poll, and the four routes behind it (`app/library/page.tsx`) | `MCLibraryBrowse`, `LibraryBrowse_proofs` |
| `Lightbox`, `BulkEdit`, `BulkExport`, `TagSelect`, `FolderGroups`, `ImageDetail` | the viewer, the bulk edits and deletes, the export, the tag box, the grouped grid, the page of one image | `MCLibraryPages`, `LibraryPages_proofs` |
| `Activity`, `ActivityPromise` | the activity dock with its job poller (`lib/store/activity.tsx`), and what it promises | `MCToolPages`, `MCLivePages`, `ToolPages_proofs` |
| `AdminPage`, `DbPage`, `QueuesPage` | clean-up, ingest and jobs; records and their editor; queues and tasks (`app/admin/`) | `MCToolPages`, `MCLivePages`; the first two `ToolPages_proofs` |
| `SettingsSync`, `CompareTray`, `FoldersPanel`, `GraphExplorer`, `ImageCache` | stored settings in two tabs; the tray; the folder registry and its path preview; the entity picker and clusters; the Redis cache of image bytes | `MCToolPages`, `ToolPages_proofs` |
| `GalleryWindow` | the windowed gallery of the interface kit (`deedlit.dev.ui/src/Gallery.tsx`) | `MCToolPages`, `ToolPages_proofs` |
| `SiteGallery`, `ServiceBoard`, `LocalServices` | the site's gallery from directory to modal; the health board; the hub's accessibility checks | `MCLivePages` |
| `BookShelf` | the Goodreads scraper and the shelf that shows what it wrote | `MCToolPages`, `ToolPages_proofs` |
| `IngestService` | the ingestion layer of the client's own server (`lib/library/services`) | `MCToolPages`, `ToolPages_proofs` |

The modules are parameterised by sets (tasks, workers, jobs, images, threads, files)
and by the code's settings (retries, prefetch, concurrency, batch and page size); the
remaining constants (`Max...`) bound what the environment may do and stand in the
guards of the actions their comments name. `PROJECT.json` maps every definition
that models code to its lines.

**TaskDelivery.** A queue is a bag of messages, a message its task, its
`x-attempt` header and whether it is persistent. A lane is one unacked delivery
of a consumer's prefetch window; `process_delivery` is the three steps handler
(`HandlerOk`, `HandlerFails`), `Republish` and `Ack`, and between any two of them
`Disconnect` gives every unacked delivery back to the queue. `RepublishRefused` is
the exception that leaves `process_delivery`: `message.process(requeue=False)`
rejects the delivery and the queue has no dead-letter exchange. `RequeueTake`,
`RequeuePublish` and `RequeueRefused` are the calls of `requeue_dlq`, whose
messages carry no delivery mode: `BrokerRestart` drops them. `lost` records the
cause whenever a copy is destroyed.

**TaskPromise.** Delivery at least once with bounded retries, per task: how often it
was published, whether a copy is there or among the dead letters, whether some run
finished it, how many runs failed, and whether a cause on record took a copy. A run
needs a copy; a dead letter needs all its failed runs; and only a finished run or a
recorded cause makes the last copy go. `DeliversAsPromised` instantiates it with what
can be read off the queues, lanes and requeue of `TaskDelivery`. A disconnect, a
restart, a purge or a requeue is one step of the detailed module and may be a different
step of the promise for each task.

**IngestDag.** One image file stands for all, since images share no state in
these stages. A slot is a delivery in flight with the step its stage is at and
what it has read so far; every call to another service is one action, so crashes,
failures, deletes and other stages fall between any two calls. Vectors and texts
are abstracted to the version of the row they were computed from ("extracted",
"labelled", "empty"). `damage` records the three things the code accepts and has
no repair for within the pipeline: a read that failed and was taken for absent, a
delete that hit an image ingested again, a row created again by a label.

**JobStore.** The event loop's worker task is a program counter (`look`, `empty`,
`asleep`, ...); endpoint threads are the program counters `maker` and `canceller`
of their job, so that `_enqueue` and `request_cancel` interleave statement by
statement with the loop. `writes` holds the snapshots in flight; `Arrive` takes
them in any order, and one that is never taken is one that failed. `Crash` keeps
`writes` and `row`: requests already sent may still reach the catalog.

**SearchIndex.** Requests are numbered in arrival order; the queue and the batch
are the intervals after `settled` and `taken`. Each thread (the flusher, rebuilds,
deletes) goes through `drop_collection` and `ensure_collection` probe by probe,
around the flag `ensured` that none of them locks.

**CatalogTx.** Two layers. `UpsertImage`, `PatchImage`, `DeleteImages`,
`UpdateNote`, `SetCollectionImages` and `DeleteCollection` translate a function of
`repository.py` into its program, the SQL statements it issues in order, calling
the same helpers (`SetTags`, `SetReferences`, ...); a call of the instance is a record of
`Request` with its arguments. The actions run the programs the
way Postgres does at READ COMMITTED: a statement takes its snapshot when it starts
(`Scan`), handles its rows one at a time (`PutRow`, `EnsureRow`, `DeleteRow`, ...),
waits while `Blockers` is not empty, and keeps what it locked until `Commit` or
`RollBack`. A row is a key and the transaction that inserted it; a child row names
the very row it belongs to, so a row that was deleted and inserted again is another
parent. A transaction keeps four sets of rows: inserted, deleted, updated, and
locked by a foreign key. `Deadlocked` is a circle of waiting transactions; `RollBack`
picks any one of them, and `Again` says which calls `_run_in_tx` repeats. `ReadBack` is
what `upsert_image` does after its transaction: it reads the image again, outside of any
attempt, and asserts that it is there; `found` keeps what it saw.

**The client modules** share one form. A request under way is a record in a set or a
slot: what it asks, what was true when it was sent, and, once the server has looked,
what it will answer. Sending, serving and landing are three actions, so that anything
may happen between them; a landing applies the handler's code after its `await` to
the state of that moment, behind the test the code makes (`StillWanted`, `Heeded`,
`Counts`, `MayLoad`, `Fresh`, ...). React batches the state updates of one handler and
renders before the next event: an action is a handler with the effects it triggers,
except where two effects of one commit matter, as in `SettingsSync` and `CompareTray`,
which take them apart. Closures keep the values of their render where the code reads
them from one (`BulkEdit`'s rows and selection), and refs are read at the landing.

**LibraryBrowse.** The catalog is a set of images, each the number of its arrival; a
search puts those it matches in order, and a page is a slice of that order by offset,
computed when the route serves the request. `warm` is the prefetch buffer with its signature; `gen` counts searches.
A search by text or likeness ranks the images of the catalog, and `Near` are those
above the cut-off of a search by likeness. A filter has two parts: what a link fixes
(`LinkFilters`) and what it leaves to the form (`PanelFilters`), since each page of the
restore merges the link over what the form says by then (`Merged`). Appended pages are
compared with `resultsRef`, the mirror of the rows, which `Mirror` brings up to date at
any time after they have changed; `misread` collects the images that mirror had wrong
whenever a page was appended, and the properties except them.

**Activity and ActivityPromise.** The promise has two variables per row: how its work
ended, and what the row says. A row appears once, says an outcome only when the work
has ended, and that one, never goes back to running, and stays away when it is gone.
`KeepsItsPromise` is the refinement: a row says what the dock's row of that number
says, and the end of its work is read off the job the backend holds or off the
request the row was opened for. The rows are a set: their order is that of their
numbers, newest first, and no handler looks at it but `push`, which keeps the 40
newest. Polls that overtake each other, dismissals and the cap
of 40 rows are steps of the promise or stutters.

**IngestService.** An actor is a job or a request; `doing` is its program counter with
its local variables. Every awaited call is a step, and a failing write may have been
done. An image is named by the content of its file, since the hash is the key of its
row. A file may change or go between the hash, the extraction and the embedding. A
re-index whose thumbnail fails passes on the one of its image, even to the row of
another hash.

**DbPage.** `listedFor` is a history: the filters under which the rows on screen were
listed. The code may append to the rows of another filter (section 6), and
`EveryPageOnce` speaks of rows of one.

**LocalServices, FoldersPanel.** A check of the hub is of a round, and rounds overlap
(`AppsRenewed`): the page of a navigation brings another array of apps. Additions of
folders are a set, since Enter starts a second one beside the first; `adding` is the flag
that keeps the buttons off, and falls with the first that ends.

**SiteGallery.** `built` is the list the page was rendered with. `/` is prerendered (its
page has no dynamic part), so that a navigation brings the list of the build again, and
the polls are what catches up.

## 3. The runs

| run | instance | states | shows |
|---|---|---|---|
| `delivery` | one task, two consumers, 2 retries, two refusals; one each of disconnect, restart, requeue, purge; fair | 48k | no task vanishes without a cause, dead letters are exhausted, every task is settled; `TaskDelivery` implements `TaskPromise` |
| `dag_delete` | one worker, labels; any two of a delete, a failed call, a degraded read, the LLM switch turned off | 1.5M | fan-in and node are never forgotten |
| `dag_live` | one worker, crash and failure, fair | 34k | every image reaches both projections or leaves a trace |
| `jobs` | two jobs of any kind, concurrency 2, two items each, one cancel or crash, fair | 595k | jobs that show as live are held, scans do not stack, jobs end |
| `search_batches` | two images, three requests, batches of two, a rebuilder, a deleter, two of their calls, one failing call, fair | 249k | acknowledged points are stored, every request is answered |
| `search_flag` | one image, one rebuild, one delete, nothing fails | 1k | violation, see 6 |
| `catalog_writes` | any three of thirteen calls over an empty library or one that holds the image; two images, two tags, two references, a note, a collection; two attempts | 779k | rows are of whole calls, upserts go through, linked tags exist; no transaction is ever stuck |
| `library_browsing` | two images and an arrival, pages of two, filters of two values for each part, one delete or failure, one search in any of the modes after that of the link, and the step back from one by likeness; fair | 655k | no duplicates but those `misread` explains, an honest list, current warmed pages, scrolling ends |
| `library_pages` | two or three images per page, 2-6 clicks, one failure each | 650k | the eight properties of the parts of the library page |
| `tool_pages` | two tabs, two folders, three records, two jobs, two books, two files: the smallest lists that have a first, a next and a last; a gallery window of five pages of four over lists just within it, just past it and twice as long | 874k | the eight properties of the other pages, among them the refinement of `ActivityPromise` |
| `live_pages` | one job, one queue, one service, two apps, two files and one change of each, overlapping polls, up to two rounds of checks beside the first; fair | 100k | the four pages that refresh themselves catch up |
| `db_editor` | three records, three clicks | 17k | violation, see 6 |

`MCLibraryPages`, `MCToolPages` and `MCLivePages` put pages side by side that share no
state: a behaviour opens one of them (`page`) and stays on it, the others rest in an
initial state, so that the states are the sum and not the product, and each page is
explored as if it were alone. Where two pages read one module, as the dock is on every
page, the module is there once. A property of such a run is the conjunction of the
named parts its comment lists, each defined in its own module.

Why the bounds are enough: every property speaks of one task, one image, one job
or one request, or of two that collide, and every hazard of section 1 needs one
crash, failure or delete between two steps and at most two actors beside it. Two
runs of a task and two retries distinguish "first", "again" and "exhausted"; two
items with two in flight distinguish "none", "some" and "all" published; batches
of two over three requests give a batch with both requests on one image, a full
one and one left over. In `dag_delete` the constraint `TwoTroubles` cuts behaviours at
the third of its four kinds of trouble; two are what it takes for one to hit the
repair of another. The client runs bound clicks: the stale answers the modules are
about need one request, one action that makes it stale, and one more request; the
bounds leave room for one action beside these. Pages of two
over three images give a full page, a last one and a boundary that an arrival or a
delete moves. The proofs of section 5 remove the
bounds for the safety properties they state. `catalog_writes` runs three transactions
at once, the number at which one waits for two others; its two attempts (five in the
code) are a first, a repeated and a last one. CHECK_DEADLOCK is off for the
systems that rightly rest once the environment's bounds are used up and all work is
done. It is on for `CatalogTx`, where it says something: a transaction that is not
answered can always go on, or is in a circle that Postgres breaks.

Every property of a passing run is shown to bite by one or more mutants: a definition
with a plausible bug (`CrashForgets`: deliveries acked on receipt; `TickQueued`: the
tick skips a folder only while its scan runs; `HoldsFirst`: a batch keeps the first of
two requests; `IndexByPosition`: the viewer keeps a position; `NovelUnchecked`: an
append trusts its offset; ...). The mutants stand beside the definition they alter.

## 4. Fairness

`TaskDelivery`: a handler ends because every call it makes has a time-out; a
stopped worker is restarted by compose (`restart: unless-stopped`); the retry
queue's TTLs expire; strong fairness of deliveries stands for RabbitMQ's FIFO
queues, which starve no message while consumers keep becoming free. Producers,
crashes, purges and requeues are not fair.

`IngestDag`: weak fairness of each worker's steps and strong fairness of taking a
message of each stage, for the same reasons.

`JobStore`: the worker task is scheduled by the event loop and its awaits end;
endpoint threads finish. Nothing is assumed of schedulers, clients, the catalog or
a restart. `JobsEnd` therefore excepts the one behaviour in which the worker
sleeps for ever over a filled queue (section 6).

`SearchIndex`: the batch loop and the flush thread run; rebuilds, deletes and
clients owe nothing.

`CatalogTx`: no fairness and no liveness property.

`LibraryBrowse`: requests that were sent are served and delivered, the page's own
reactions happen, and the sentinel stays in view (`LoadMore`); searches, arrivals and
deletes owe nothing.

The live pages: an interval fires, and a request that was sent is answered or fails,
since the browser gives up in the end. `OpenGalleryCatchesUp` and `OpenBoardsSettle`
speak of a tab that is looked at: the pages do not poll while they are hidden, so
the return of the user (`ShowTab`, `ShowBoard`) is fair. They promise what is shown
once the backend has stopped changing, never while it moves. `StuckLettersAreShown`
speaks of a queue that can be reached.

## 5. What is proved

The proofs hold for every value of the constants that satisfies the named
assumptions (positive retries, prefetch, concurrency, batch and page sizes; finite sets
of consumers, records and files; sets of threads, jobs and requests disjoint; requests
of the shapes the schemas admit; images ranked by their likeness, and links that carry
no file; rows of the viewer's lists not repeated, cards of pictures that the catalog
has; a gallery window that holds its pages behind, the viewport and three rows). Each follows one pattern: an inductive
invariant, a lemma per action that preserves it, and `Spec => []IInv`. The
invariants also hold under TLC on the instances of the runs, with numbers that are
quantified bounded, and but for the type of an export's lanes, which TLC cannot enumerate.

| module | theorem | property | strengthened by |
|---|---|---|---|
| `TaskDelivery_proofs` | `DeliveryTypes` | `TypeOK` | |
| | `NoLostTask` | `NoTaskVanishes` | counts of unacked copies are natural numbers (finite lanes), so that giving back adds at least one |
| | `HeadersAreHonest` | `HonestAttempts` | `FailureCounted`: a lane about to republish has counted its failure |
| | `OnlyExhaustedDead` | `DeadLettersAreExhausted` | `AttemptsPlaced`: where a message may be, given its header |
| | `DeliveryAsPromised` | `DeliversAsPromised` | `OnlyPublished`: whatever is in a queue, held or lost was published |
| `IngestDag_proofs` | `DagTypes` | `TypeOK` | |
| | `FanInLosesNothing` | `FanInHolds` | `ShapeOK`: what the step of a stage says of what it has read and has still to publish |
| | `NoNodeForgotten` | `NodeOwed` | the same |
| `JobStore_proofs` | `JobTypes` | `TypeOK` | |
| | `NoZombieJob` | `LiveJobsAreHeld` | `QueuedOnce`, `InStep`: a job is in the queue at most once, never while the worker holds it, and its status fits the worker's step |
| | `NoStackedScans` | `ScansDoNotStack` | `OneScan`: at most one scan may still run |
| `SearchIndex_proofs` | `SearchTypes` | `TypeOK` | |
| | `ReadAfterWrite` | `AckedIsStored` | `InOrder`: what is past `settled` waits, and no point holds a request past it |
| `CatalogTx_proofs` | `TypesAreKept` | `TypeOK` | |
| | `IInvHolds` | | the invariant described below |
| | `UpsertsAlwaysGoThrough` | `UpsertsGoThrough` | `Upserts`; `StoredInv`: nothing but a committed delete of the image takes away the image a committed upsert stored |
| | `RowsStayWhole` | `RowsAreOfWholeCalls` | `Wholes` |
| | `TagsStayLinked` | `TagsLinked` | `TagsInv` |
| `LibraryBrowse_proofs` | `InvariantHolds` | | the invariant described below |
| | `NothingIsListedTwice` | `NoDuplicateRows` | `Typed`: a warmed page, an answer and a poll have no image twice, and the rows on screen none that the mirror had right |
| | `WarmPagesStayCurrent` | `WarmPagesAreCurrent` | `InForce`, `Warm`, `Asked` |
| | `ListIsWhatItSays` | `ListIsAsItSays` | `Listed`, `Resumed`, `NothingAsked` |
| `ToolPages_proofs` | `SumKeepsThePromise` | `KeepsItsPromise` | `ActivityInv`: a row is of a piece of work and, once ended, says how that ended; a poll under way says of a job that it runs, or how it ended |
| | `SumKeepsChoices` | `StoredChoicesSurvive` | `TabsInv`: each setting a tab has in use is one it read or its user chose |
| | `SumServesAsAsked` | `ServedAsAsked` | `CacheInv`: entries, reads and fills under way hold what is of their key |
| | `SumAnswersFit` | `AnswersFitTheirQuestion` | `ProbesInv`, `LookupsInv`, `DrawingsInv`: of the requests under way, those not cancelled are of the question now asked, and one is under way while the answer shown is not of it |
| | `SumPicksAreListed` | `PicksComeFromTheList` | `AdminInv`, `TrayInv` (no image twice in the tray), `ShelfInv` |
| | `SumSkipsNothing` | `NothingIsSkipped` | `AdminInv`, `ShelfInv`, `DbInv` (rows of one filter are its first pages in order, and the request under way asks for the next or starts again, while no record was deleted), `LayerInv`, `NodesInv` |
| | `SumAccountsForFiles` | `FilesAreAccounted` | `LayerInv` |
| | `SumFillsTheView` | `OnlyTheEndIsBlank` | `WindowInv`: the slice starts with a row of the columns measured, the spacers stand for whole rows, and the observer owes a frame to a list that a pending one is not of |
| `LibraryPages_proofs` | `PagesAreKept` | | the invariants described below, one per page |
| | `DetailsFitTheImage` | `DetailIsOfShown` | `ViewerInv`: the viewer shows the row its index finds, and a primed delete and the details are of that row |
| | `ImageStays`, `PrimedIsDeleted` | `ViewerKeepsImage`, `DeleteIsOfPrimedImage` | the same, step by step (`ViewerGood`) |
| | `ShownIsStored` | `WhatIsShownIsStored` | `BulkInv` (`Clear`), `NotesInv` |
| | `OutcomesAreOne` | `OneOutcomePerImage` | `Parted` for an edit, `Shared` for an export |
| | `CardsStay` | `CardsLeaveWhenGone` | `OpFits`: what a delete reports as gone is not stored |
| | `ClickedIsOpened` | `CardsOpenThemselves` | `GroupsInv`: the rows are a list |
| | `LatestIsShown` | `LatestTextWins` | `TagsInv`: the timer and the requests not dropped are for the text in the box |

Why the strengthenings are needed: `FanInHolds`, for instance, is not inductive,
because an embed stage that is about to fan out might, as far as that formula
knows, publish anything but `index.search`; `ShapeOK` ties a stage to what it may
publish and to what it has read.
`LiveJobsAreHeld` alone lets a queued job be claimed twice.

**The catalog's transactions.** The invariant of `CatalogTx_proofs` has four layers.
`Engine` is about Postgres and knows nothing of the calls: what is still to be done is
well formed (`TodoOK`), a row is seen by its writer alone until the commit
(`WritersOK`), two transactions never hold one row or one key in modes that conflict
(`LocksExclude`), and keys are unique (`KeysUnique`). `DeletesGroups` is the step from
rows to groups: of the rows one call wrote for one owner, a delete takes all, now or
before it is done, or none. `Upserts`
says what an upsert has done and holds at each statement of its program, and `Wholes`,
for each of the four kinds of rows that belong together, that the rows stored are the
list of the call that wrote them, and that a call in the middle of replacing them has
its own rows and a lock that keeps others out.

That upserts never wait in a circle follows from `UpsertTags`: each inserts its tags
in the order of their names, so that whoever holds a tag another one waits for is past
it and waits, if at all, for a later one: round a circle the tags would have to rise
for ever; and an upsert that waits for the row of its image, its first, holds nothing
that anyone waits for. That its transaction fails only in its last attempt is
`UpsertsFail`; that it finds its image when it reads it back, unless a delete of that
image has committed, follows from who may take a row away. `TagsInv` is a second invariant on top: as
long as no patch and no delete of images runs, no transaction takes a tag or a link
away, and an open upsert has linked, or has still to link, each of its tags.

**The tool pages.** `ToolPages_proofs` proves an invariant for each page alone and
carries it over to the sum of `MCToolPages`: a step of the sum is one of the page or
leaves its variables as they are (`DockInSum`, `AdminInSum`, ...). The largest is that
of the ingestion layer. `LayerInv` says of each job, at each of its steps, that the
files it listed are those it still has to take, the one it is at and those it has a row
for (`WalkOK`), that its counts are of these (`SettledAs` after it completed), and that
an image it speaks of is stored (`ImageOK`). `NodesInv` adds, while nothing failed, that
each image a job has indexed with the graph on has its node or is owed one: a graph
rebuild that cleared the nodes is under way and has the image still to do
(`Restoring`). `NodesFollowRows` is what is left of it when nothing runs.

**The list of the library page.** `EndOfListIsComplete` speaks of a list that has come
to its end; `IInv` of `LibraryBrowse_proofs` speaks of every list on the way there. As
long as nothing shifted the offsets, the rows on screen are the first `pageRef` pages of
the search, unless a page was appended under a mirror that was behind (`Listed`), and the answer that is on its way to the grid is that of the same
search, at the offset of the next page or of the first (`Asked`). That needs to know
where pages come from: the warm buffer in force is the one of the search on screen
(`InForce`) and holds what the server answers now (`Warm`); the loop that restores a
link still has the search it started with, so that what it merges over the form is what
the form says, unless another one is under way, whose request it will abort, which is
where `still` ends (`Resumed`); and in image mode
without an image nothing is asked at all (`NothingAsked`). The step is the lemma
`PageFills`: a page adds to the pages before it the slice that follows them, no more,
and a page that says there is nothing more leaves nothing. It rests on lemmas about
numbering a finite set in order (`InOrder`), cutting it (`Slice`) and filtering it
(`Only`). A search by likeness needs that images are ranked by their likeness, so that
those above the cut-off come first: `BrowseAssumption` says it of `Near`.

**The parts of the library page.** `LibraryPages_proofs` does the same for the pages of
`MCLibraryPages`. The hard one is `BulkInv`. `CardsShowWhatIsStored` speaks of a field
of a card for which nothing is under way; while something is, who is right depends on
how far it came. `Clear` says it for each image and each field that is not in `blurred`:
one edit or one rating of the viewer is under way for it at most; as long as the catalog has not
taken it, the card shows what is stored (`Settled`), and afterwards the catalog holds
what the request writes (`Holds`), so that the mirror of the answer puts it right; and an
answer of a search that was read but has not landed holds what is stored now. `blurred` is the history
of the fields for which this fails, two requests that raced, an answer that was lost, or
a write between the read and the landing of a search, and it is what the property
excepts. `Parted` puts each image of an edit at one place (queue, sent, taken, updated,
failed), which gives the count of `OneRequestPerImage` with the sets finite; `Shared`
does it for the lanes of an export route that share one queue, where besides no two
lanes are at the same place and a lane is idle only when the queue is empty.
`ViewerInv` needs that the index is found again by the image after every change of the
list (`Placed`), which rests on lemmas about the first place of a row in a list.

`CardsOpenThemselves` needs no history: what a click opens is a matter of one state. The
grid counts the cards of the sections before the one clicked, the viewer steps through
the sections laid end to end, and the theorem is that the two agree. Both are
recursions over a sequence, which the provers cannot do by induction; `StepByStep`
replaces it by the least number for which a set of numbers fails. `SumIsBefore` says
that the count is the length of what lies before a section, `FlatHolds` where the items
of the sections end up in the flat list.

**The windowed gallery.** The invariant, `WindowInv`, is small; the work is in the last
frame, which has measured the page as it is drawn. If it leaves the slice where it was,
the page is aligned with what it measured, and `StaysFilled` finds the viewport in it. If
it moves the slice, the spacers above were drawn for columns that may no longer be
those; but no further frame was asked for, so the height of the page did not change, and
from that `HeightTells` concludes that the rows above are wrong by less than one, or
two, which the slack of the window makes good (`MovesFilled`). Divisions by the number
of columns are replaced by the products they bound (`Divided`, `RowsHold`), and products
are compared through their factors (`Ordered`, `NotBehind`). `RowMounted` is a hypothesis
of the property, and needed: section 6 says what happens without it.

Only model-checked:

- the liveness properties (`EventuallySettled`, `EventuallyIndexed`, `JobsEnd`,
  `AllAnswered`, those of the list and of the live pages), which need fairness and are
  out of the prover's reach, and the violations.

## 6. Where code and documentation disagree

Each of these is a run that TLC ends with a violation; `PROJECT.json` quotes the
line.

- `search_flag`: a thread may set the cached flag between a rebuild's reset and
  its look, after which the collection is missing and nothing creates it again.
- `db_editor`: the answer to a save selects the saved record without looking at the
  ref that says the user has moved on; the other record's full answer then fills the
  editor, and the next save writes one record's fields to another.

Found while reading and modelling, and not stated as runs. In the services:

- A refused republish discards the task (`broker.py:400`), although
  `process_delivery` says redelivery happens through the republish (380-382).
  `NoTaskVanishes` names it as a cause.
- The description vector's blob kind (`pipeline.py:838`) is refused by the catalog
  (`object_store.py:33-42`), so `embed.sparse` of every labelled image ends in its
  dead-letter queue before it publishes `index.search`; the labelled text never reaches
  the index.
- The snapshots of one job are unordered requests (`jobs.py:376`), and the create
  snapshot may overwrite the terminal one (`repository.py:1785`).
- References that an upsert commits between the two statements of `delete_image`
  (`repository.py:728-739`) outlive the image.
- Two concurrent `set_collection_images` without an image in common are both stored,
  although the gateway's tool promises "set/replace semantics"
  (`deedlit.api/mcp.py:609`); `CollectionOfWholeLists` states what does hold. Two
  patches that replace the tags of an image are united in the same way.
- An upsert whose image a batch delete removes between its commit and its read-back
  (`repository.py:193-194`) fails on the assert, though it was stored, and `_run_in_tx`
  does not repeat it. `UpsertsGoThrough` names this as the one cause beside deadlocks.
- Two concurrent calls with an image in common end one of them with an
  IntegrityError, as does a `set_collection_images` beside the collection's delete.
- The wake-up of the job worker can be lost (`jobs.py:423` from a thread, against
  `asyncio.Queue.get`); without the exception in `JobsEnd`, TLC finds it.
- `request_cancel` says a cancelled queued job "never enters _run_job"
  (`jobs.py:473-474`); the model shows the worker starting it between the look and
  the stamp. `LiveJobsAreHeld` holds all the same.
- `unindex_image` says a failed catalog delete strands nothing (`clients.py:472-473`);
  the row may be gone and the blobs, point and node left.
- `_request_with_retry` says a 4xx fails fast (`pipeline.py:1235`); the
  `except` clause catches it and tries again.
- `graph_has` takes any 200 for a node that exists (`pipeline.py:631-644`), and the
  graph answers 200 for a node it does not have, so a reconcile never repairs it.
- The catalog's task types are `index` and `label`; the workers report the stage
  names, so most rows of the task ledger are refused.
- `POST /rebuild` of search reads a catalog list that carries no vectors: it leaves
  an empty collection.

In the clients:

- The list: a fresh search that fails leaves the old rows and `hasMore`, so that the
  next page of the new search is appended to the old one (`page.tsx:536`); the loop
  that restores `?page=N` goes on after a new search and aborts it (990), and merges what
  the link fixed over a form that may have changed since (449), so that its pages mix
  with those of the other filter; its next turn runs in a microtask and may take a
  warmed page before the effect that mirrors the rows has run (175), which lists rows
  twice although the comment at 509-512 says that "a repeated id would collide as a
  React key" and is dropped: `NoDuplicateRows` excepts it by `misread`; a search by
  image drops the offset, and its routes read `hasMore` from a full page; deletes shift
  the offset of the next page by the rows removed; more than twelve arrivals between
  two polls leave a gap (1044); `exitSelectMode` after a delete clears what was picked
  meanwhile (624).
- Two bulk tag edits, or one beside an edit of the detail page, send whole lists and
  the later one wins (729).
- The detail page stores the answer of a PATCH as the record it shows
  (`[imageId]/page.tsx:131-134`); the route answers with another shape
  (`images/[imageId]/route.ts:40-53`). A first list of notes overtakes an added note
  (263). A look-up of similar images that failed reads "No similar images found".
- Settings: two tabs put back each other's older keys, since each writes the whole
  object and none listens for storage events.
- Admin: Enter in the path box starts a second ingest beside the first
  (`admin/page.tsx:559`); error answers of requeue and purge are read as success
  (`queues/page.tsx:330-354`); a save before the full record arrived blanks the
  negative prompt (`db/page.tsx:213`). A scan of missing files that was asked before a
  clean-up and ends after it lists the removed entries again (`admin/page.tsx:351`). The record list
  appends a page of the new filter to rows of the old one when a path was typed and not
  entered before the list is scrolled, or when the first page of a new filter failed
  (`db/page.tsx:139-165`).
- The count of matches and the clusters of the graph explorer are not guarded: those of
  an older scope may arrive last and stand beside the new one
  (`GraphFilterPanel.tsx:161`, `clusters/page.tsx:76`). The properties say nothing of
  them.
- Enter in the path box starts a second `addFolder` beside the first
  (`SourceFoldersPanel.tsx:338`); only the button looks at the flag (368). The end of
  the first clears a box that may hold another path by then.
- The hub checks again whenever a navigation brings another array of apps
  (`useServiceAccessibility.ts:92-94`). The older round ends the newer one's spinner
  (88), and its late verdicts overwrite the newer ones.
- The windowed gallery measures the cards that are mounted (`Gallery.tsx:188`). A list
  that gets shorter than the start of the slice, as a bulk delete at the end of it makes
  it (`page.tsx:611`), has none, so that nothing moves the slice back: the grid stays
  blank until the list grows or another takes its place, although the comment at 266
  says that the observer prevents "mounting a slice that no longer overlaps the
  viewport". With fewer cards mounted than a row has, the columns are read wrong and the
  last frame may leave the viewport beside the slice. `OnlyTheEndIsBlank` excepts both
  (`RowMounted`).
- The image cache serves an original without its type key as JPEG, and a deleted image
  for up to seven days. A flush may be outrun by a fill.
- An export of more than 500 selected images is refused by the route's schema although
  the page offers "Select all" (`schemas.ts:208-210`).
- The site answers an error of the listing with an empty gallery
  (`gallery-data.ts:41-52`). A scraper whose page cannot be closed after an error loses
  the run (`scrape-goodreads.ts:450-452`), and a shorter run overwrites a longer file.
- The ingestion layer: the end of a job overwrites a cancel (`ingest-service.ts:132`
  against `jobs-service.ts:65`); a file whose row is refused counts as processed and as
  failed (116-120); a folder that cannot be read completes with no files (26); a row
  stays "running" when the last write fails or the server goes down; a re-index of an
  edited file stores a new row under the new hash and refreshes the projections of the
  old image, although its comment says that "edits to the file are picked up" (151);
  the vector of a changed file is cached under the old hash; a rebuild drops the
  collection before it resets the flag (`vector-repository.ts:225-226`).

## 7. What is not modelled

Vision, metadata, the label agent's prompt and ranking are pure. Queries and listings
of the services are read only. Activity trackers and logs are display. The curation
migration is a script. The task ledger, the services' settings and their refresh, the
folder registry's due times, and the choice a reconcile makes per image are left out
as `PROJECT.json` says for each; so are layouts, navigation, dialogs and other
presentational parts of the clients. `PROJECT.json` lists every component with its
status.

Of the catalog's transactions: the creation of notes and collections (rows nobody
else knows yet), renames, ratings and source folders, and the values of the
columns. `get_image` reads its parts in several statements: `ReadBack` models its first,
which says whether the image is there; the same read at the end of `patch_image` (724),
which answers 404 when a delete came between, is left out.

Abstractions worth knowing: one image stands for the library in `IngestDag`; the
HTTP retry inside a call is part of the call; a requeue takes the whole dead-letter
queue (its limit is far above the bounds); Qdrant, RabbitMQ, Postgres and asyncio queues
are modelled from how the code uses them. The client modules stand on a catalog that
answers each request from one state; that it does not change between the reads of
one answer is part of that. Two pages open in two tabs meet only in `SettingsSync`.

The hazard list of `PROJECT.json` holds first of all those a property covers. Where the
code does lose something (a task whose republish is refused, the letters of a requeue, a
vector whose read failed, the wake-up of the job worker), the hazard is listed without a
property and its note says which one excepts it. The others that no property can hold
for, because the code accepts them, are in section 6.

## 8. What could follow

The edges batcher and prune of the graph service; the choice of stages by reconcile over
pages read by offset.
