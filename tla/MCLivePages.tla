----------------------------- MODULE MCLivePages ----------------------------
(***************************************************************************)
(* The parts of the web clients that keep asking: the activity dock, the   *)
(* queue page, the gallery of the site, the service board and the services *)
(* hub, side by side. A behaviour stays on one of them, which shares no    *)
(* state with the others in these models, so that the states are the sum   *)
(* of theirs; the fairness of each is that of its module, and holds on its *)
(* page.                                                                   *)
(***************************************************************************)
EXTENDS Activity, QueuesPage, SiteGallery, ServiceBoard, LocalServices

VARIABLE page     \* the page that is open

sumVars == <<page, activityVars, queueVars, siteVars, boardVars, hubVars>>

OnDock == page = "dock"
OnlyDock == UNCHANGED <<page, queueVars, siteVars, boardVars, hubVars>>
OnQueues == page = "queues"
OnlyQueues == UNCHANGED <<page, activityVars, siteVars, boardVars, hubVars>>
OnSite == page = "site"
OnlySite == UNCHANGED <<page, activityVars, queueVars, boardVars, hubVars>>
OnBoard == page = "board"
OnlyBoard == UNCHANGED <<page, activityVars, queueVars, siteVars, hubVars>>
OnHub == page = "hub"
OnlyHub == UNCHANGED <<page, activityVars, queueVars, siteVars, boardVars>>

MCQueries == {{1, 2}}

SumInit ==
    /\ page \in {"dock", "queues", "site", "board", "hub"}
    /\ SiteInit
    /\ page # "site" => built = {} /\ urlImage = NoImage
    /\ BoardInit
    /\ page # "board" => gatewayUp /\ \A s \in Services : serviceState[s] = "ok"
    /\ HubInit
    /\ page # "hub" => \A a \in Apps : appState[a] = "up"
    /\ ActivityInit /\ QueuesInit

DockSteps ==
    \/ (OnDock /\ Track /\ OnlyDock) \/ (OnDock /\ WorkEnds /\ OnlyDock)
    \/ (OnDock /\ TrackJob /\ OnlyDock) \/ (OnDock /\ JobMoves /\ OnlyDock)
    \/ (OnDock /\ JobForgotten /\ OnlyDock) \/ (OnDock /\ PollTick /\ OnlyDock)
    \/ (OnDock /\ PollServed /\ OnlyDock) \/ (OnDock /\ PollArrives /\ OnlyDock)
    \/ (OnDock /\ PollFails /\ OnlyDock) \/ (OnDock /\ PruneFires /\ OnlyDock)
    \/ (OnDock /\ Dismiss /\ OnlyDock) \/ (OnDock /\ ClearFinished /\ OnlyDock)

QueuesSteps ==
    \/ (\E l \in Letters : OnQueues /\ DeadLetter(l) /\ OnlyQueues)
    \/ (\E l \in Letters : OnQueues /\ Processed(l) /\ OnlyQueues)
    \/ (OnQueues /\ PollQueues /\ OnlyQueues)
    \/ (\E s \in Slots : OnQueues /\ DepthsServed(s) /\ OnlyQueues)
    \/ (\E s \in Slots : OnQueues /\ DepthsRefused(s) /\ OnlyQueues)
    \/ (\E s \in Slots : OnQueues /\ DepthsArrive(s) /\ OnlyQueues)
    \/ (\E q \in Queues : OnQueues /\ Peek(q) /\ OnlyQueues)
    \/ (\E q \in Queues : OnQueues /\ ToggleInspect(q) /\ OnlyQueues)
    \/ (\E b \in Bases : OnQueues /\ RequeueDlq(b) /\ OnlyQueues)
    \/ (\E b \in Bases : OnQueues /\ Purge(b) /\ OnlyQueues)
    \/ (OnQueues /\ LookupTasks /\ OnlyQueues)
    \/ (\E c \in queueCalls : OnQueues /\ CallServed(c) /\ OnlyQueues)
    \/ (\E c \in queueCalls : OnQueues /\ CallRefused(c) /\ OnlyQueues)
    \/ (\E c \in queueCalls : OnQueues /\ PeekArrives(c) /\ OnlyQueues)
    \/ (\E c \in queueCalls : OnQueues /\ Emptied(c) /\ OnlyQueues)
    \/ (\E c \in queueCalls : OnQueues /\ TasksArrive(c) /\ OnlyQueues)

SiteSteps ==
    \/ (OnSite /\ AddFile /\ OnlySite)
    \/ (\E f \in Files : OnSite /\ RemoveFile(f) /\ OnlySite)
    \/ (OnSite /\ WatcherFails /\ OnlySite) \/ (OnSite /\ TimerFires /\ OnlySite)
    \/ (OnSite /\ SnapshotAges /\ OnlySite) \/ (OnSite /\ ImageRequested /\ OnlySite)
    \/ (\E s \in ScanSlots : OnSite /\ ScanLists(s) /\ OnlySite)
    \/ (\E s \in ScanSlots : OnSite /\ ScanEnds(s) /\ OnlySite)
    \/ (\E s \in ScanSlots : OnSite /\ ScanFails(s) /\ OnlySite)
    \/ (\E p \in Polls : OnSite /\ SendPoll(p) /\ OnlySite)
    \/ (\E p \in Polls : OnSite /\ PollLands(p) /\ OnlySite)
    \/ (\E p \in Polls : OnSite /\ PollLost(p) /\ OnlySite)
    \/ (OnSite /\ HideTab /\ OnlySite) \/ (OnSite /\ ShowTab /\ OnlySite)
    \/ (\E q \in Queries, sort \in {"created-desc", "created-asc"} : OnSite /\ Refilter(q, sort) /\ OnlySite)
    \/ (\E i \in Files : OnSite /\ OpenModal(i) /\ OnlySite)
    \/ (OnSite /\ CloseModal /\ OnlySite)
    \/ (\E f \in Files : OnSite /\ FollowReference(f) /\ OnlySite)
    \/ (OnSite /\ NavLands /\ OnlySite)

BoardSteps ==

    \/ (\E s \in Services, st \in {"ok", "degraded", "down"} : OnBoard /\ ServiceTurns(s, st) /\ OnlyBoard)
    \/ (\E s \in Services : OnBoard /\ ServiceWorks(s) /\ OnlyBoard)
    \/ (OnBoard /\ GatewayTurns /\ OnlyBoard) \/ (OnBoard /\ TickHealth /\ OnlyBoard)
    \/ (OnBoard /\ TickActivity /\ OnlyBoard) \/ (OnBoard /\ RefreshBoard /\ OnlyBoard)
    \/ (OnBoard /\ HideBoard /\ OnlyBoard) \/ (OnBoard /\ ShowBoard /\ OnlyBoard)
    \/ (\E p \in BoardPolls : OnBoard /\ Served(p) /\ OnlyBoard)
    \/ (\E p \in BoardPolls : OnBoard /\ Lands(p) /\ OnlyBoard)
    \/ (\E p \in BoardPolls : OnBoard /\ BoardPollFails(p) /\ OnlyBoard)

HubSteps ==
    \/ (\E h \in Heads : OnHub /\ HeadAnswered(h) /\ OnlyHub)
    \/ (\E h \in Heads : OnHub /\ HeadRefused(h) /\ OnlyHub)
    \/ (\E h \in Heads : OnHub /\ HeadTimesOut(h) /\ OnlyHub)
    \/ (\E a \in Apps, st \in {"up", "refuses", "hangs"} : OnHub /\ AppTurns(a, st) /\ OnlyHub)
    \/ (\E a \in Apps, taken \in BOOLEAN : OnHub /\ CopyValue(a, taken) /\ OnlyHub)
    \/ (OnHub /\ RefreshChecks /\ OnlyHub) \/ (OnHub /\ AppsRenewed /\ OnlyHub)
    \/ (OnHub /\ ClearFires /\ OnlyHub)
    \/ (\E q \in AppQueries : OnHub /\ Search(q) /\ OnlyHub)

SumNext == DockSteps \/ QueuesSteps \/ SiteSteps \/ BoardSteps \/ HubSteps

SumSpec ==
    /\ SumInit /\ [][SumNext]_sumVars
    /\ WF_activityVars(OnDock /\ PollTick)
    /\ SF_activityVars(OnDock /\ PollServed)
    /\ SF_activityVars(OnDock /\ PollArrives)
    /\ WF_queueVars(OnQueues /\ PollQueues)
    /\ \A s \in Slots : WF_queueVars(OnQueues /\ (DepthsServed(s) \/ DepthsRefused(s)))
    /\ \A s \in Slots : WF_queueVars(OnQueues /\ DepthsArrive(s))
    /\ WF_siteVars(OnSite /\ TimerFires)
    /\ WF_siteVars(OnSite /\ SnapshotAges)
    /\ WF_siteVars(OnSite /\ NavLands)
    /\ WF_siteVars(OnSite /\ ShowTab)
    /\ \A s \in ScanSlots : WF_siteVars(OnSite /\ ScanLists(s))
    /\ \A s \in ScanSlots : WF_siteVars(OnSite /\ (ScanEnds(s) \/ ScanFails(s)))
    /\ \A p \in Polls : WF_siteVars(OnSite /\ SendPoll(p))
    /\ \A p \in Polls : WF_siteVars(OnSite /\ PollLands(p))
    /\ WF_boardVars(OnBoard /\ TickHealth)
    /\ WF_boardVars(OnBoard /\ TickActivity)
    /\ WF_boardVars(OnBoard /\ ShowBoard)
    /\ \A p \in BoardPolls : WF_boardVars(OnBoard /\ Served(p))
    /\ \A p \in BoardPolls : WF_boardVars(OnBoard /\ Lands(p))
    /\ \A h \in Heads : WF_hubVars(OnHub /\ HeadAnswered(h))
    /\ \A h \in Heads : WF_hubVars(OnHub /\ HeadRefused(h))
    /\ \A h \in Heads : WF_hubVars(OnHub /\ HeadTimesOut(h))
    /\ WF_hubVars(OnHub /\ ClearFires)

-----------------------------------------------------------------------------
\* The gallery of the site, when it is open, comes to show what is in its
\* directory (GallerySection.tsx).
OpenGalleryCatchesUp == page = "site" => GalleryCatchesUp

\* The two boards of services, when open, settle: the one of the console on
\* what the services report (ServiceStatusBoard.tsx), the one of the site on a
\* verdict for every app (LocalServicesSection.tsx).
OpenBoardsSettle ==
    /\ page = "board" => BoardSettles
    /\ page = "hub" => ChecksEnd
=============================================================================
