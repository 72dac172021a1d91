---------------------------- MODULE SiteGallery ----------------------------
(***************************************************************************)
(* The image archive of the site (deedlit.dev/src/features/gallery): the   *)
(* server's index of the image directory, rebuilt when it is ten seconds   *)
(* old or when the watcher saw a change, and the page, which polls the     *)
(* index, filters what it holds and keeps its viewer in step with the URL. *)
(* The page itself is rendered when the site is built (app/page.tsx has no *)
(* dynamic part): whoever loads it or navigates on it gets the list of the *)
(* build.                                                                  *)
(*                                                                         *)
(* A file is its number: a larger one was created later.  Promises of the  *)
(* index are scan slots, reused once a scan has ended.                     *)
(***************************************************************************)
EXTENDS Integers
LOCAL INSTANCE SequencesExt
LOCAL INSTANCE FiniteSetsExt

CONSTANTS FirstFiles,      \* files there at first
          ScanSlots,       \* scans that can be under way together
          Polls,           \* polls that can be under way together
          Queries,         \* texts of the search box: each the set of files it matches
          MaxDiskChanges, MaxSiteFaults, MaxSiteClicks   \* bounds of a run

VARIABLES disk, snapshot, scans, refreshing, refreshTimer, watching,
          requests,        \* of the polls
          built,           \* the list the page was rendered with
          nav,             \* what router.replace or a link asked for, or NoNav
          visible, liveAssets, siteQuery, siteSort, modalIndex, urlImage,
          diskChanges, siteFaults, siteClicks

indexVars == <<disk, snapshot, scans, refreshing, refreshTimer, watching>>
pageVars == <<nav, visible, liveAssets, siteQuery, siteSort, modalIndex, urlImage>>
siteBounds == <<diskChanges, siteFaults, siteClicks>>
siteVars == <<indexVars, requests, built, pageVars, siteBounds>>

NoScan == "no scan"
NoImage == 0
NoNav == [target |-> NoImage, full |-> FALSE, pending |-> FALSE]
NoSnapshot == [images |-> {}, fresh |-> FALSE]
Unasked == [waits |-> NoScan, list |-> {}, asked |-> FALSE]

SiteFault == siteFaults < MaxSiteFaults /\ siteFaults' = siteFaults + 1
SiteClick == siteClicks < MaxSiteClicks /\ siteClicks' = siteClicks + 1

----------------------------------------------------------------------------
(* The index of the server.                                                *)

Files == 1..(Max(FirstFiles) + MaxDiskChanges)

\* A change of the directory; the watcher arms the timer anew.
ChangeDisk(files) == /\ diskChanges < MaxDiskChanges
                     /\ diskChanges' = diskChanges + 1
                     /\ disk' = files
                     /\ refreshTimer' = (refreshTimer \/ watching)
                     /\ UNCHANGED <<snapshot, scans, refreshing, watching, requests, built, pageVars, siteFaults, siteClicks>>
AddFile == LET f == Max(FirstFiles) + diskChanges + 1 IN ChangeDisk(disk \cup {f})
RemoveFile(f) == f \in disk /\ ChangeDisk(disk \ {f})

WatcherFails == /\ watching /\ SiteFault
                /\ watching' = FALSE
                /\ UNCHANGED <<disk, snapshot, scans, refreshing, refreshTimer, requests, built, pageVars, diskChanges, siteClicks>>

FreeSlots == {s \in ScanSlots : scans[s] = <<>>}
StartScan(s) == /\ s \in FreeSlots
                /\ scans' = [scans EXCEPT ![s] = <<"starts">>]
                /\ refreshing' = s

\* scheduleRefresh: whatever scan is under way, another one starts.
TimerFires == /\ refreshTimer
              /\ refreshTimer' = FALSE
              /\ \E s \in FreeSlots : StartScan(s)
              /\ UNCHANGED <<disk, snapshot, watching, requests, built, pageVars, siteBounds>>

\* a snapshot that never gets old
FreshAlways == snapshot # NoSnapshot
Fresh == snapshot.fresh

SnapshotAges == /\ snapshot.fresh
                /\ snapshot' = [snapshot EXCEPT !.fresh = FALSE]
                /\ UNCHANGED <<disk, scans, refreshing, refreshTimer, watching, requests, built, pageVars, siteBounds>>

\* getSnapshot for a request: the promise of a scan, or the snapshot.
AskSite(ch) == /\ watching' = TRUE
               /\ IF refreshing # NoScan
                  THEN /\ requests' = [requests EXCEPT ![ch] = [waits |-> refreshing, list |-> {}, asked |-> TRUE]]
                       /\ UNCHANGED <<scans, refreshing>>
                  ELSE IF Fresh
                  THEN /\ requests' = [requests EXCEPT ![ch] = [waits |-> NoScan, list |-> snapshot.images, asked |-> TRUE]]
                       /\ UNCHANGED <<scans, refreshing>>
                  ELSE \E s \in FreeSlots :
                           /\ StartScan(s)
                           /\ requests' = [requests EXCEPT ![ch] = [waits |-> s, list |-> {}, asked |-> TRUE]]
               /\ UNCHANGED <<disk, snapshot, refreshTimer>>

\* GET /image of a listed image goes through the index as well.
ImageRequested == /\ liveAssets # {} /\ SiteClick
                  /\ watching' = TRUE
                  /\ IF refreshing # NoScan \/ Fresh THEN UNCHANGED <<scans, refreshing>>
                     ELSE \E s \in FreeSlots : StartScan(s)
                  /\ UNCHANGED <<disk, snapshot, refreshTimer, requests, built, pageVars, diskChanges, siteFaults>>

ScanLists(s) == /\ scans[s] = <<"starts">>
                /\ scans' = [scans EXCEPT ![s] = <<"listed", disk>>]
                /\ UNCHANGED <<disk, snapshot, refreshing, refreshTimer, watching, requests, built, pageVars, siteBounds>>

\* The promise settles: those who wait get the list, or after an error the
\* empty one; whichever scan it is, no scan counts as under way.
Settle(s, answer) == /\ scans' = [scans EXCEPT ![s] = <<>>]
                     /\ refreshing' = NoScan
                     /\ requests' = [p \in Polls |-> IF requests[p].waits = s
                                       THEN [waits |-> NoScan, list |-> answer, asked |-> TRUE] ELSE requests[p]]
                     /\ UNCHANGED <<disk, refreshTimer, watching, built, pageVars>>

ScanEnds(s) == /\ scans[s] # <<>> /\ scans[s][1] = "listed"
               /\ snapshot' = [images |-> scans[s][2], fresh |-> TRUE]
               /\ Settle(s, scans[s][2])
               /\ UNCHANGED siteBounds

\* A listed file is gone when it is looked at, or the directory is not read.
ScanFails(s) == /\ scans[s] # <<>>
                /\ \/ scans[s][1] = "listed" /\ scans[s][2] \ disk # {} /\ UNCHANGED siteFaults
                   \/ scans[s][1] = "starts" /\ SiteFault
                /\ UNCHANGED snapshot
                /\ Settle(s, {})
                /\ UNCHANGED <<diskChanges, siteClicks>>

----------------------------------------------------------------------------
(* The page.                                                               *)

\* applyGalleryFilters: by creation, newest or oldest first.
FilteredOf(assets, q, sort) ==
    SetToSortSeq(assets \cap q, LAMBDA a, b : IF sort = "created-desc" THEN a > b ELSE a < b)
filteredAssets == FilteredOf(liveAssets, siteQuery, siteSort)
IndexIn(f, list) == IF f \in ToSet(list) THEN CHOOSE i \in DOMAIN list : list[i] = f ELSE 0

\* The two effects of a new filtered list: the index of the URL's image, and
\* the clamp, which looks at the index of the render and has the last word.
Synced(list, modal, url) == IF url = NoImage THEN 0
                            ELSE IF IndexIn(url, list) # 0 THEN IndexIn(url, list) ELSE modal
Clamped(list, modal, synced) == IF modal = 0 THEN synced
                                ELSE IF list = <<>> THEN 0
                                ELSE IF modal > Len(list) THEN Len(list) ELSE synced
ModalFor(list, modal, url) == LET m == Clamped(list, modal, Synced(list, modal, url))
                              IN IF m > Len(list) THEN Len(list) ELSE m

\* The page takes a list of assets: the effects run when it is another one.
Take(assets, url) == /\ liveAssets' = assets
                     /\ modalIndex' = ModalFor(FilteredOf(assets, siteQuery, siteSort), modalIndex, url)

SendPoll(p) == /\ visible /\ ~requests[p].asked
               /\ AskSite(p)
               /\ UNCHANGED <<built, pageVars, siteBounds>>

PollAnswered(p) == requests[p].asked /\ requests[p].waits = NoScan
PollLands(p) == /\ PollAnswered(p)
                /\ requests' = [requests EXCEPT ![p] = Unasked]
                /\ IF requests[p].list = liveAssets THEN UNCHANGED <<liveAssets, modalIndex>>
                   ELSE Take(requests[p].list, urlImage)
                /\ UNCHANGED <<indexVars, built, nav, visible, siteQuery, siteSort, urlImage, siteBounds>>

PollLost(p) == /\ PollAnswered(p) /\ SiteFault
               /\ requests' = [requests EXCEPT ![p] = Unasked]
               /\ UNCHANGED <<indexVars, built, pageVars, diskChanges, siteClicks>>

HideTab == /\ visible /\ SiteClick
           /\ visible' = FALSE
           /\ UNCHANGED <<indexVars, requests, built, nav, liveAssets, siteQuery, siteSort, modalIndex, urlImage, diskChanges, siteFaults>>

\* The tab is shown again: one refresh.
ShowTab == /\ ~visible
           /\ visible' = TRUE
           /\ \/ \E p \in Polls : ~requests[p].asked /\ AskSite(p)
              \/ (\A p \in Polls : requests[p].asked) /\ UNCHANGED <<indexVars, requests>>
           /\ UNCHANGED <<built, nav, liveAssets, siteQuery, siteSort, modalIndex, urlImage, siteBounds>>

Refilter(q, sort) == /\ SiteClick
                     /\ <<q, sort>> # <<siteQuery, siteSort>>
                     /\ siteQuery' = q /\ siteSort' = sort
                     /\ modalIndex' = ModalFor(FilteredOf(liveAssets, q, sort), modalIndex, urlImage)
                     /\ UNCHANGED <<indexVars, requests, built, nav, visible, liveAssets, urlImage, diskChanges, siteFaults>>

\* router.replace takes the place of a navigation that is pending.
Navigate(target, full) == /\ nav' = [target |-> target, full |-> full, pending |-> TRUE]
                          /\ UNCHANGED <<indexVars, requests, built>>

OpenModal(i) == /\ SiteClick /\ modalIndex = 0 /\ i \in DOMAIN filteredAssets
                /\ modalIndex' = i
                /\ Navigate(filteredAssets[i], FALSE)
                /\ UNCHANGED <<visible, liveAssets, siteQuery, siteSort, urlImage, diskChanges, siteFaults>>

CloseModal == /\ SiteClick /\ modalIndex # 0
              /\ modalIndex' = 0
              /\ Navigate(NoImage, FALSE)
              /\ UNCHANGED <<visible, liveAssets, siteQuery, siteSort, urlImage, diskChanges, siteFaults>>

\* The title of a card is a plain link: the page is loaded again.
FollowReference(f) == /\ SiteClick /\ modalIndex = 0 /\ f \in ToSet(filteredAssets)
                      /\ Navigate(f, TRUE)
                      /\ UNCHANGED <<visible, liveAssets, siteQuery, siteSort, modalIndex, urlImage, diskChanges, siteFaults>>

\* The page of a navigation arrives with its URL and, as a new array of
\* assets, the list of the build.
NavLands == /\ nav.pending
            /\ nav' = NoNav
            /\ urlImage' = nav.target
            /\ IF nav.full
               THEN /\ siteQuery' = Files /\ siteSort' = "created-desc"
                    /\ liveAssets' = built
                    /\ modalIndex' = ModalFor(FilteredOf(built, Files, "created-desc"), 0, nav.target)
                    /\ requests' = [p \in Polls |-> Unasked]
               ELSE /\ Take(built, nav.target)
                    /\ UNCHANGED <<requests, siteQuery, siteSort>>
            /\ UNCHANGED <<indexVars, built, visible, siteBounds>>

----------------------------------------------------------------------------
SiteInit == /\ disk = FirstFiles /\ snapshot = NoSnapshot
            /\ scans = [s \in ScanSlots |-> <<>>]
            /\ refreshing = NoScan /\ refreshTimer = FALSE /\ watching = FALSE
            /\ requests = [p \in Polls |-> Unasked]
            /\ nav = NoNav /\ visible = TRUE
            /\ built \in {FirstFiles, {}} /\ liveAssets = built
            /\ siteQuery = Files /\ siteSort = "created-desc"
            /\ urlImage \in {NoImage, Max(FirstFiles)}
            /\ modalIndex = ModalFor(filteredAssets, 0, urlImage)
            /\ diskChanges = 0 /\ siteFaults = 0 /\ siteClicks = 0

SiteNext == \/ AddFile \/ \E f \in Files : RemoveFile(f)
            \/ WatcherFails \/ TimerFires \/ SnapshotAges \/ ImageRequested
            \/ \E s \in ScanSlots : ScanLists(s) \/ ScanEnds(s) \/ ScanFails(s)
            \/ \E p \in Polls : SendPoll(p) \/ PollLands(p) \/ PollLost(p)
            \/ HideTab \/ ShowTab
            \/ \E q \in Queries, sort \in {"created-desc", "created-asc"} : Refilter(q, sort)
            \/ \E i \in 1..Max(Files) : OpenModal(i)
            \/ CloseModal \/ \E f \in Files : FollowReference(f) \/ NavLands

SiteSpec == /\ SiteInit /\ [][SiteNext]_siteVars
            /\ WF_siteVars(TimerFires) /\ WF_siteVars(SnapshotAges) /\ WF_siteVars(NavLands)
            /\ \A s \in ScanSlots : WF_siteVars(ScanLists(s)) /\ WF_siteVars(ScanEnds(s) \/ ScanFails(s))
            /\ \A p \in Polls : WF_siteVars(SendPoll(p)) /\ WF_siteVars(PollLands(p))
            /\ WF_siteVars(ShowTab)

----------------------------------------------------------------------------
(* Once the directory is left alone the page comes to show what is in it,   *)
(* whatever scans overlapped, failed or settled out of order.               *)
GalleryCatchesUp == <>[](liveAssets = disk)

=============================================================================
