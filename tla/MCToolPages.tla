----------------------------- MODULE MCToolPages ----------------------------
(***************************************************************************)
(* The other pages and parts of the web clients side by side: the activity *)
(* dock, the admin page, the settings, the record list, the image cache of *)
(* the server, the graph, the compare tray, the folder registry, the       *)
(* windowed gallery, the book shelf of the site with the script that fills *)
(* it, and the ingestion layer of the server. A behaviour stays on one of  *)
(* them, which shares no state with the others in these models, so that    *)
(* the states are the sum of theirs; the others stay in one of their       *)
(* initial states.                                                         *)
(***************************************************************************)
EXTENDS Activity, AdminPage, SettingsSync, DbPage, ImageCache, GraphExplorer, CompareTray, FoldersPanel,
        GalleryWindow, BookShelf, IngestService, TLC

VARIABLE page     \* the page that is open

sumVars == <<page, activityVars, adminVars, settingsVars, dbVars, cacheVars,
        graphVars, trayVars, folderVars, windowVars, shelfVars, serviceVars>>

OnDock == page = "dock"
OnlyDock == UNCHANGED <<page, adminVars, settingsVars, dbVars, cacheVars, graphVars,
        trayVars, folderVars, windowVars, shelfVars, serviceVars>>
OnAdmin == page = "admin"
OnlyAdmin == UNCHANGED <<page, activityVars, settingsVars, dbVars, cacheVars,
        graphVars, trayVars, folderVars, windowVars, shelfVars, serviceVars>>
OnSettings == page = "settings"
OnlySettings == UNCHANGED <<page, activityVars, adminVars, dbVars, cacheVars,
        graphVars, trayVars, folderVars, windowVars, shelfVars, serviceVars>>
OnDb == page = "db"
OnlyDb == UNCHANGED <<page, activityVars, adminVars, settingsVars, cacheVars,
        graphVars, trayVars, folderVars, windowVars, shelfVars, serviceVars>>
OnCache == page = "cache"
OnlyCache == UNCHANGED <<page, activityVars, adminVars, settingsVars, dbVars,
        graphVars, trayVars, folderVars, windowVars, shelfVars, serviceVars>>
OnGraph == page = "graph"
OnlyGraph == UNCHANGED <<page, activityVars, adminVars, settingsVars, dbVars,
        cacheVars, trayVars, folderVars, windowVars, shelfVars, serviceVars>>
OnTray == page = "tray"
OnlyTray == UNCHANGED <<page, activityVars, adminVars, settingsVars, dbVars,
        cacheVars, graphVars, folderVars, windowVars, shelfVars, serviceVars>>
OnFolders == page = "folders"
OnlyFolders == UNCHANGED <<page, activityVars, adminVars, settingsVars, dbVars,
        cacheVars, graphVars, trayVars, windowVars, shelfVars, serviceVars>>
OnWindow == page = "window"
OnlyWindow == UNCHANGED <<page, activityVars, adminVars, settingsVars, dbVars,
        cacheVars, graphVars, trayVars, folderVars, shelfVars, serviceVars>>
OnShelf == page = "shelf"
OnlyShelf == UNCHANGED <<page, activityVars, adminVars, settingsVars, dbVars,
        cacheVars, graphVars, trayVars, folderVars, windowVars, serviceVars>>
OnIngest == page = "ingest"
OnlyIngest == UNCHANGED <<page, activityVars, adminVars, settingsVars, dbVars,
        cacheVars, graphVars, trayVars, folderVars, windowVars, shelfVars>>

MCFolders == {<<>>, <<1>>, <<1, 2>>}
MCDefaultSettings == [pageSize |-> 1, viewMode |-> "grid", safety |-> {"sfw"}]
MCOldPayloads == {Absent, [pageSize |-> 3, viewMode |-> "list", safety |-> {"old"}],
                  [pageSize |-> NotANumber, viewMode |-> "x", safety |-> {"sfw"}]}
MCDbFilters == {{1, 2, 3}, {1, 3}}
Unlooked == [type |-> "tag", text |-> "", open |-> FALSE]
MCTypedUrls == {<<1, 2, 3>>}
MCPathKey == [p \in {"a", "A"} |-> "a"]
MCOverrideTags == <<{"t"}, {}>>
MCIngestRequests == {{"qdrant", "graph", "metadata"}, {"enrich"}}

SumInit ==
    /\ page \in {"dock", "admin", "settings", "db", "cache", "graph", "tray", "folders", "window", "shelf", "ingest"}
    /\ AdminInit
    /\ page # "admin" => lost = {}
    /\ SettingsInit
    /\ page # "settings" => payload = Absent /\ serverConfig /\ configState = "closed"
    /\ GraphInit
    /\ page # "graph" => box = Unlooked
    /\ WindowInit
    /\ page # "window" => length = 4 /\ columns = 2
    /\ ServiceInit
    /\ page # "ingest" => disk = [f \in FolderFiles |-> NoContent]
    /\ ActivityInit /\ DbInit /\ CacheInit /\ TrayInit /\ FoldersInit /\ ShelfInit

DockSteps ==
    \/ (OnDock /\ Track /\ OnlyDock) \/ (OnDock /\ WorkEnds /\ OnlyDock)
    \/ (OnDock /\ TrackJob /\ OnlyDock) \/ (OnDock /\ JobMoves /\ OnlyDock)
    \/ (OnDock /\ JobForgotten /\ OnlyDock) \/ (OnDock /\ PollTick /\ OnlyDock)
    \/ (OnDock /\ PollServed /\ OnlyDock) \/ (OnDock /\ PollArrives /\ OnlyDock)
    \/ (OnDock /\ PollFails /\ OnlyDock) \/ (OnDock /\ PruneFires /\ OnlyDock)
    \/ (OnDock /\ Dismiss /\ OnlyDock) \/ (OnDock /\ ClearFinished /\ OnlyDock)

AdminSteps ==
    \/ (OnAdmin /\ FileChanges /\ OnlyAdmin)
    \/ (OnAdmin /\ ScanMissingFiles /\ OnlyAdmin)
    \/ (OnAdmin /\ ScanServed /\ OnlyAdmin) \/ (OnAdmin /\ ScanLands /\ OnlyAdmin)
    \/ (OnAdmin /\ ScanFails /\ OnlyAdmin) \/ (OnAdmin /\ ToggleMissing /\ OnlyAdmin)
    \/ (OnAdmin /\ ToggleAllMissing /\ OnlyAdmin)
    \/ (OnAdmin /\ DeleteSelectedMissing /\ OnlyAdmin)
    \/ (OnAdmin /\ CleanupTaken /\ OnlyAdmin) \/ (OnAdmin /\ CleanupEnds /\ OnlyAdmin)
    \/ (OnAdmin /\ CleanupFails /\ OnlyAdmin) \/ (OnAdmin /\ IngestPress /\ OnlyAdmin)
    \/ (OnAdmin /\ IngestDispatched /\ OnlyAdmin)
    \/ (OnAdmin /\ IngestEnds /\ OnlyAdmin) \/ (OnAdmin /\ RunMaintenance /\ OnlyAdmin)
    \/ (OnAdmin /\ MaintenanceAnswered /\ OnlyAdmin)
    \/ (OnAdmin /\ PollJobs /\ OnlyAdmin) \/ (OnAdmin /\ JobsArrive /\ OnlyAdmin)
    \/ (OnAdmin /\ ExpandJob /\ OnlyAdmin) \/ (OnAdmin /\ JobDetailArrives /\ OnlyAdmin)
    \/ (OnAdmin /\ CancelJob /\ OnlyAdmin)

SettingsSteps ==
    \/ (OnSettings /\ TabNext /\ OnlySettings)
    \/ (OnSettings /\ LoadConfig /\ OnlySettings)
    \/ (OnSettings /\ SaveConfig /\ OnlySettings)
    \/ (OnSettings /\ ConfigStored /\ OnlySettings)
    \/ (OnSettings /\ ConfigAnswered /\ OnlySettings)
    \/ (OnSettings /\ RescanNow /\ OnlySettings)
    \/ (OnSettings /\ RescanAnswered /\ OnlySettings)

DbSteps ==
    \/ (\E f \in DbFilters : OnDb /\ SetFilter(f) /\ OnlyDb)
    \/ (\E f \in DbFilters : OnDb /\ TypeDbPath(f) /\ OnlyDb)
    \/ (OnDb /\ Apply /\ OnlyDb) \/ (OnDb /\ ScrollDb /\ OnlyDb)
    \/ (OnDb /\ ListServed /\ OnlyDb) \/ (OnDb /\ ListRefused /\ OnlyDb)
    \/ (OnDb /\ ListLands /\ OnlyDb) \/ (OnDb /\ ListFails /\ OnlyDb)
    \/ (\E i \in Records : OnDb /\ OpenRow(i) /\ OnlyDb)
    \/ (\E i \in Records : OnDb /\ TogglePick(i) /\ OnlyDb)
    \/ (\E r \in recordReqs : OnDb /\ RecordServed(r) /\ OnlyDb)
    \/ (\E r \in recordReqs : OnDb /\ RecordArrives(r) /\ OnlyDb)
    \/ (OnDb /\ EditField /\ OnlyDb) \/ (OnDb /\ Save /\ OnlyDb)
    \/ (OnDb /\ SaveTaken /\ OnlyDb) \/ (OnDb /\ SaveAnswered /\ OnlyDb)
    \/ (OnDb /\ DeleteEverywhere /\ OnlyDb) \/ (OnDb /\ DropTaken /\ OnlyDb)
    \/ (OnDb /\ DropAnswered /\ OnlyDb) \/ (OnDb /\ PickAllLoaded /\ OnlyDb)
    \/ (OnDb /\ ExcludeSelected /\ OnlyDb) \/ (OnDb /\ ExclusionTaken /\ OnlyDb)
    \/ (OnDb /\ ExclusionAnswered /\ OnlyDb)

CacheSteps ==
    \/ (\E i \in Shas, kind \in ImageKind : OnCache /\ GetImage(i,kind) /\ OnlyCache)
    \/ (\E i \in Shas, kind \in ImageKind : OnCache /\ NotModified(i,kind) /\ OnlyCache)
    \/ (\E g \in gets : OnCache /\ ReadData(g) /\ OnlyCache)
    \/ (\E g \in gets : OnCache /\ ServeCached(g) /\ OnlyCache)
    \/ (\E g \in gets : OnCache /\ Fetched(g) /\ OnlyCache)
    \/ (\E g \in gets : OnCache /\ FetchFails(g) /\ OnlyCache)
    \/ (\E f \in fills : OnCache /\ FillData(f) /\ OnlyCache)
    \/ (\E f \in fills : OnCache /\ FillType(f) /\ OnlyCache)
    \/ (\E k \in DOMAIN redis : OnCache /\ Evicted(k) /\ OnlyCache)
    \/ (OnCache /\ RedisDown /\ OnlyCache) \/ (OnCache /\ RedisBack /\ OnlyCache)
    \/ (OnCache /\ RefreshCache /\ OnlyCache) \/ (OnCache /\ StatsArrive /\ OnlyCache)
    \/ (OnCache /\ Flush /\ OnlyCache) \/ (OnCache /\ DeleteBatch /\ OnlyCache)
    \/ (OnCache /\ Flushed /\ OnlyCache)

GraphSteps ==
    \/ (\E t \in TypedTexts : OnGraph /\ TypeEntity(t) /\ OnlyGraph)
    \/ (OnGraph /\ FocusPicker /\ OnlyGraph) \/ (OnGraph /\ ClosePicker /\ OnlyGraph)
    \/ (\E ty \in NodeTypes : OnGraph /\ ChooseNodeType(ty) /\ OnlyGraph)
    \/ (\E l \in entityLookups : OnGraph /\ DebounceFires(l) /\ OnlyGraph)
    \/ (\E l \in entityLookups : OnGraph /\ LookupServed(l) /\ OnlyGraph)
    \/ (\E l \in entityLookups : OnGraph /\ LookupFails(l) /\ OnlyGraph)
    \/ (\E l \in entityLookups : OnGraph /\ LookupLands(l) /\ OnlyGraph)
    \/ (OnGraph /\ ChooseOption /\ OnlyGraph) \/ (OnGraph /\ ApplyFilter /\ OnlyGraph)
    \/ (OnGraph /\ ClearFilter /\ OnlyGraph)
    \/ (\E c \in checks : OnGraph /\ CountLands(c) /\ OnlyGraph)
    \/ (OnGraph /\ Build /\ OnlyGraph) \/ (OnGraph /\ Built /\ OnlyGraph)
    \/ (OnGraph /\ BuildFails /\ OnlyGraph) \/ (OnGraph /\ OpenCluster /\ OnlyGraph)
    \/ (\E d \in drawings : OnGraph /\ ImportLands(d) /\ OnlyGraph)

TraySteps ==
    \/ (OnTray /\ MountEffects /\ OnlyTray) \/ (OnTray /\ TrayRendered /\ OnlyTray)
    \/ (OnTray /\ ReloadTab /\ OnlyTray)
    \/ (\E i \in Picks : OnTray /\ ToggleTray(i) /\ OnlyTray)
    \/ (\E i \in Picks : OnTray /\ RemoveFromTray(i) /\ OnlyTray)
    \/ (\E i \in Picks : OnTray /\ RemoveCompared(i) /\ OnlyTray)
    \/ (OnTray /\ ClearTray /\ OnlyTray) \/ (OnTray /\ CompareLink /\ OnlyTray)
    \/ (OnTray /\ LeaveCompare /\ OnlyTray)
    \/ (\E ids \in TypedUrls : OnTray /\ CompareByHand(ids) /\ OnlyTray)
    \/ (\E c \in comparisons : OnTray /\ ComparisonLands(c) /\ OnlyTray)
    \/ (\E c \in comparisons : OnTray /\ ComparisonRefused(c) /\ OnlyTray)

FoldersSteps ==
    \/ (OnFolders /\ PollFolders /\ OnlyFolders)
    \/ (OnFolders /\ FoldersArrive /\ OnlyFolders)
    \/ (\E p \in Dirs \union {NoPath} : OnFolders /\ TypePath(p) /\ OnlyFolders)
    \/ (\E p \in Dirs \union {NoPath} : OnFolders /\ ListingLands(p) /\ OnlyFolders)
    \/ (\E q \in probes : OnFolders /\ ProbeStarts(q) /\ OnlyFolders)
    \/ (\E q \in probes : OnFolders /\ ProbeLands(q) /\ OnlyFolders)
    \/ (OnFolders /\ OpenPicker /\ OnlyFolders)
    \/ (OnFolders /\ PickFolder /\ OnlyFolders)
    \/ (\E p \in Dirs : OnFolders /\ Browse(p) /\ OnlyFolders)
    \/ (\E p \in Dirs : OnFolders /\ Toggle(p) /\ OnlyFolders)
    \/ (\E p \in Dirs : OnFolders /\ RemoveFolder(p) /\ OnlyFolders)
    \/ (\E ps \in SUBSET Dirs : OnFolders /\ EnterLines(ps) /\ OnlyFolders)
    \/ (OnFolders /\ AddFolder /\ OnlyFolders)
    \/ (OnFolders /\ AddMultiple /\ OnlyFolders)
    \/ (\E a \in additions : OnFolders /\ PostFolder(a) /\ OnlyFolders)
    \/ (\E a \in additions : OnFolders /\ AddingEnds(a) /\ OnlyFolders)
    \/ (\E c \in patches : OnFolders /\ PatchDone(c) /\ OnlyFolders)

WindowSteps ==
    \/ (\E row \in 0..Height : OnWindow /\ ScrollTo(row) /\ OnlyWindow)
    \/ (\E c \in ColumnCounts : OnWindow /\ Resize(c) /\ OnlyWindow)
    \/ (OnWindow /\ FrameRuns /\ OnlyWindow) \/ (OnWindow /\ Rerendered /\ OnlyWindow)
    \/ (\E n \in ListLengths : OnWindow /\ ListGrows(n) /\ OnlyWindow)
    \/ (\E n \in ListLengths : OnWindow /\ ListReplaced(n) /\ OnlyWindow)

ShelfSteps ==
    \/ (OnShelf /\ Launched /\ OnlyShelf) \/ (OnShelf /\ Opened /\ OnlyShelf)
    \/ (OnShelf /\ Tallied /\ OnlyShelf) \/ (OnShelf /\ Closed /\ OnlyShelf)
    \/ (OnShelf /\ ScrapeThrows /\ OnlyShelf) \/ (OnShelf /\ CloseThrows /\ OnlyShelf)
    \/ (OnShelf /\ Saved /\ OnlyShelf) \/ (OnShelf /\ SaveFails /\ OnlyShelf)
    \/ (\E t, a, r \in BOOLEAN : OnShelf /\ Extracted([title |-> t, author |-> a, rated |-> r, genres |-> {}]) /\ OnlyShelf)
    \/ (\E gs \in SUBSET Shelves : OnShelf /\ GenresFetched(gs) /\ OnlyShelf)
    \/ (\E q \in SUBSET (1..Books) : OnShelf /\ SetQuery(q) /\ OnlyShelf)
    \/ (\E s \in {"rating-desc", "rating-asc"} : OnShelf /\ SetSort(s) /\ OnlyShelf)
    \/ (\E g \in Shelves : OnShelf /\ ToggleGenre(g) /\ OnlyShelf)
    \/ (\E t \in UNION {OverrideTags[b] : b \in 1..Books} : OnShelf /\ ToggleTag(t) /\ OnlyShelf)
    \/ (\E r \in {0, 3} : OnShelf /\ SetMinRating(r) /\ OnlyShelf)
    \/ (OnShelf /\ ResetFilters /\ OnlyShelf)

IngestSteps ==
    \/ (\E j \in IngestJobs : OnIngest /\ StartIngestion(j) /\ OnlyIngest)
    \/ (\E j \in IngestJobs : OnIngest /\ StatFolder(j) /\ OnlyIngest)
    \/ (\E j \in IngestJobs : OnIngest /\ OpenFolder(j) /\ OnlyIngest)
    \/ (\E j \in IngestJobs : OnIngest /\ NextFile(j) /\ OnlyIngest)
    \/ (\E j \in IngestJobs : OnIngest /\ HashFile(j) /\ OnlyIngest)
    \/ (\E j \in IngestJobs : OnIngest /\ LookUp(j) /\ OnlyIngest)
    \/ (\E j \in IngestJobs : OnIngest /\ RecordFile(j) /\ OnlyIngest)
    \/ (\E j \in IngestJobs : OnIngest /\ RecordFailedFile(j) /\ OnlyIngest)
    \/ (\E j \in IngestJobs : OnIngest /\ Progress(j) /\ OnlyIngest)
    \/ (\E j \in IngestJobs : OnIngest /\ Finish(j) /\ OnlyIngest)
    \/ (\E j \in IngestJobs : OnIngest /\ FailJob(j) /\ OnlyIngest)
    \/ (\E j \in IngestJobs : OnIngest /\ CancelIngestion(j) /\ OnlyIngest)
    \/ (\E a \in Actors : OnIngest /\ Extract(a) /\ OnlyIngest)
    \/ (\E a \in Actors : OnIngest /\ Thumbnail(a) /\ OnlyIngest)
    \/ (\E a \in Actors : OnIngest /\ PersistImage(a) /\ OnlyIngest)
    \/ (\E a \in Actors : OnIngest /\ EnsureCollection(a) /\ OnlyIngest)
    \/ (\E a \in Actors : OnIngest /\ CreateCollection(a) /\ OnlyIngest)
    \/ (\E a \in Actors : OnIngest /\ MarkReady(a) /\ OnlyIngest)
    \/ (\E a \in Actors : OnIngest /\ Embed(a) /\ OnlyIngest)
    \/ (\E a \in Actors : OnIngest /\ UpsertPoint(a) /\ OnlyIngest)
    \/ (\E a \in Actors : OnIngest /\ SyncGraph(a) /\ OnlyIngest)
    \/ (\E a \in Actors : OnIngest /\ Enrich(a) /\ OnlyIngest)
    \/ (\E k \in Keepers : OnIngest /\ Reindex(k) /\ OnlyIngest)
    \/ (\E k \in Keepers : OnIngest /\ RebuildGraph(k) /\ OnlyIngest)
    \/ (\E k \in Keepers : OnIngest /\ RebuildQdrant(k) /\ OnlyIngest)
    \/ (\E k \in Keepers : OnIngest /\ ClearGraph(k) /\ OnlyIngest)
    \/ (\E k \in Keepers : OnIngest /\ ListImages(k) /\ OnlyIngest)
    \/ (\E k \in Keepers : OnIngest /\ DropCollection(k) /\ OnlyIngest)
    \/ (\E k \in Keepers : OnIngest /\ ResetReady(k) /\ OnlyIngest)
    \/ (\E k \in Keepers : OnIngest /\ EachImage(k) /\ OnlyIngest)
    \/ (OnIngest /\ EditFile /\ OnlyIngest) \/ (OnIngest /\ ServerDies /\ OnlyIngest)

SumNext == DockSteps \/ AdminSteps \/ SettingsSteps \/ DbSteps \/ CacheSteps
           \/ GraphSteps \/ TraySteps \/ FoldersSteps \/ WindowSteps \/ ShelfSteps
           \/ IngestSteps

SumSpec == SumInit /\ [][SumNext]_sumVars

-----------------------------------------------------------------------------
\* An answer that was overtaken does not stand: the options of the graph's
\* picker and the preview of a folder are those of what is in their boxes, or
\* the request that will say so is under way and counts
\* (GraphFilterPanel.tsx:46-77, use-path-preview.ts:45-83); and the one drawing
\* on the page is that of the clusters listed (LibraryGraph.tsx:46-160).
AnswersFitTheirQuestion == NothingStaleIsShown /\ PreviewIsOfThePath

\* Nothing drops out on the way: the record list is the first pages of its filter
\* (admin/db/page.tsx), every folder of an ingest is tried (admin/page.tsx),
\* every book of a scrape is in the file or in the report, and of every image
\* that is indexed there is a node (ingest-service.ts).
NothingIsSkipped ==
    /\ EveryPageOnce /\ EveryFolderIsTried /\ ReportIsComplete
    /\ NodesFollowRows /\ CountsAreOfRows

\* What is picked comes from the list, and what the list hides can be brought
\* back: entries picked for the clean-up are listed (admin/page.tsx), and a
\* filter that hides books says so (BookFilters.tsx); and what the tray asks the
\* compare page for can be compared (compare-tray.tsx).
PicksComeFromTheList ==
    SelectedIsListed /\ HiddenBooksCanComeBack /\ TrayAsksForWhatCanBeCompared
=============================================================================
