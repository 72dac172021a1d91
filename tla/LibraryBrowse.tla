--------------------------- MODULE LibraryBrowse ---------------------------
(***************************************************************************)
(* The grid of the library page (comfyhelper, app/library/page.tsx): what  *)
(* it searches for, the pages it stacks, the pages it warms in the         *)
(* background, the poll that splices new arrivals in at the head, and the  *)
(* restore of a deep link.                                                 *)
(*                                                                         *)
(* An image is the number of its arrival in the catalog.  A snapshot is    *)
(* what the page sends for: the mode, whether there is a text query, the   *)
(* filters, the sort.  Requests are answered at any time; an aborted one   *)
(* is never delivered.  Code that follows an await runs before the next    *)
(* event of the browser: an action that starts from an event requires that *)
(* nothing is left to run (Idle).                                          *)
(*                                                                         *)
(* A page is appended against resultsRef, a mirror of the rows that an     *)
(* effect fills after the browser has rendered them: it may be behind when *)
(* the next page lands.  filtersRef is filled the same way, but the forms  *)
(* change in clicks and keystrokes, whose effects run before the next      *)
(* event: it is what the form says (typed).                                *)
(***************************************************************************)
EXTENDS Integers, Sequences, FiniteSets

Seqs == INSTANCE SequencesExt
Sets == INSTANCE FiniteSetsExt

CONSTANTS
    LastImage,          \* images are 1..LastImage, in the order they arrive
    FirstImages,        \* the first ones are there from the start
    LinkFilters,        \* filters a link fixes: tags, favorites, rating, safety
    PanelFilters,       \* those it leaves to the form: path, model, graph scope...
    Match,              \* the images a pair of them keeps
    Near,               \* the images above the least similarity
    Links,              \* the snapshots the address may ask for
    PageSize,           \* `limit`
    PREFETCH_AHEAD,     \* 2 in the code
    MAX_RESTORE_PAGES,  \* 20 in the code
    PollWindow,         \* rows the freshness poll reads (12 in the code)
    MaxSearches,        \* bound: searches the user starts
    MaxMishaps          \* bound: requests that fail and images deleted elsewhere

Images == 1..LastImage
None == 0
Filters == [link : LinkFilters, panel : PanelFilters]

\* What a search is of.
Snapshot == [mode : {"browse", "similar", "image"}, text : BOOLEAN, filter : Filters,
             sort : {"newest", "oldest"}, ref : Images \cup {None}, file : BOOLEAN]

\* Images are ranked by their likeness; an address carries no file.
ASSUME BrowseAssumption ==
    /\ LastImage \in Nat /\ FirstImages \in 0..LastImage
    /\ Match \in [Filters -> SUBSET Images]
    /\ Near \subseteq Images /\ \A n \in Near : \A m \in 1..n : m \in Near
    /\ Links \subseteq {s \in Snapshot : ~s.file}
    /\ PageSize \in Nat \ {0} /\ PREFETCH_AHEAD \in Nat /\ MAX_RESTORE_PAGES \in Nat
    /\ PollWindow \in Nat

VARIABLES
    catalog,    \* the images there are
    typed,      \* the snapshot on the form (filtersRef)
    results, hasMore, pageRef, loading, error,
    resultsRef, \* the mirror of the rows that appended pages are compared with
    misread,    \* images that mirror had wrong when a page was appended
    grid,       \* the request of the current doFetch, if there is one
    buffers, cur, \* prefetchRef: the buffers loops still hold, and the live one
    loops,      \* running loops of schedulePrefetch
    hasNew, newest, polls,
    restore,    \* the re-paging of a ?page=N link, if it is not over
    mounted,
    searches, mishaps,  \* counted against the bounds
    still       \* nothing shifted the offsets since the grid was loaded

gridVars == <<results, hasMore, pageRef, loading, error, misread, grid>>
warmVars == <<buffers, cur, loops>>
freshVars == <<hasNew, newest, polls>>
boundVars == <<searches, mishaps>>
vars == <<catalog, typed, gridVars, resultsRef, warmVars, freshVars, restore,
          mounted, boundVars, still>>

-----------------------------------------------------------------------------
(* Snapshots and what the server answers.                                  *)

BrowsePath(s) == s.mode = "browse" /\ ~s.text
Paginates(s) == ~(s.mode = "image" /\ s.file)
NewestFirst(s) == s.sort = "newest"

\* A finite set of numbers, from the least one up.
InOrder(at) ==
    [k \in 1..Cardinality(at) |->
        CHOOSE n \in at : Cardinality({m \in at : m <= n}) = k]

\* Browse sorts on the server; the vector paths rank, in an order of their own.
Ranked(s) ==
    LET hits == InOrder(catalog \cap Match[s.filter])
    IN  IF BrowsePath(s) /\ NewestFirst(s) THEN Seqs!Reverse(hits) ELSE hits

\* The rows of a page, and those of them a filter keeps.
Slice(rows, from, n) ==
    SubSeq(rows, from + 1, IF from + n < Len(rows) THEN from + n ELSE Len(rows))
Only(rows, S) ==
    LET at == InOrder({k \in DOMAIN rows : rows[k] \in S})
    IN  [k \in DOMAIN at |-> rows[at[k]]]

\* Mutant: pages are counted from one.
OffsetFromOne(i) == (i + 1) * PageSize
Offset(i) == i * PageSize

\* POST /browse: the catalog sorts and pages; a full page may have more
\* behind it.
BrowseRoute(s, offset) ==
    LET rows == Slice(Ranked(s), offset, PageSize)
    IN  [rows |-> rows, more |-> Len(rows) = PageSize]

\* POST /search: one window of the hits.
SearchRoute(s, offset) == Slice(Ranked(s), offset, PageSize)

\* POST /search/similar: hits come best first, so a page that loses a row to
\* the least score is the last one; a full page is judged before the cut.
SimilarRoute(s, offset) ==
    LET raw == Slice(Ranked(s), offset, PageSize)
        kept == Only(raw, Near)
    IN  [rows |-> kept, more |-> Len(raw) >= PageSize /\ Len(kept) = Len(raw)]

\* POST /search/by-image: one window, whatever the offset.
ByImageRoute(s) == Only(Slice(Ranked(s), 0, PageSize), Near)

\* fetchPage: one page, and whether there is more behind it.
Page(s, offset) ==
    CASE s.mode = "similar" -> SimilarRoute(s, offset)
      [] s.mode = "image" /\ s.file -> [rows |-> ByImageRoute(s), more |-> FALSE]
      [] BrowsePath(s) -> BrowseRoute(s, offset)
      [] OTHER -> LET fresh == SearchRoute(s, offset)
                  IN  [rows |-> fresh, more |-> Len(fresh) = PageSize]

-----------------------------------------------------------------------------
(* The background prefetch.  A loop keeps the buffer it started with: a    *)
(* new filter set binds a new one.                                         *)

EmptyBuffer(s) == [sig |-> s, pages |-> <<>>, flight |-> {}, exhausted |-> FALSE]

\* Mutant: a new search keeps the pages warmed for the old filters.
ReboundKept(s) == [buffers[cur] EXCEPT !.sig = s]
Rebound(s) == EmptyBuffer(s)

WarmIndex(l) == l.start + l.i
Collected(bs, c, ls) == [b \in {c} \cup {l.buf : l \in ls} |-> bs[b]]

\* The controllers of the live buffer abort: their loops go on with the
\* next page.
Aborted(ls) == {IF l.buf = cur /\ ~l.ready
                THEN [l EXCEPT !.i = @ + 1, !.ready = TRUE] ELSE l : l \in ls}

ResetPrefetch(s) ==
    LET ls == Aborted(loops)
        new == CHOOSE b \in 1..(Cardinality(ls) + 2) :
                  b # cur /\ \A l \in ls : l.buf # b
        bs == [b \in DOMAIN buffers \cup {new} |->
                 IF b = new THEN Rebound(s)
                 ELSE IF b = cur THEN [buffers[b] EXCEPT !.flight = {}]
                 ELSE buffers[b]]
    IN  /\ cur' = new
        /\ loops' = ls
        /\ buffers' = Collected(bs, new, ls)

InvalidatePrefetchPages ==
    /\ loops' = Aborted(loops)
    /\ buffers' = [buffers EXCEPT ![cur] = EmptyBuffer(@.sig)]
    /\ UNCHANGED cur

TakePrefetched(s, i) ==
    IF buffers[cur].sig = s /\ i \in DOMAIN buffers[cur].pages
    THEN {buffers[cur].pages[i]} ELSE {}

Without(pages, i) == [j \in DOMAIN pages \ {i} |-> pages[j]]
Extended(pages, i, p) == [j \in DOMAIN pages \cup {i} |-> IF j = i THEN p ELSE pages[j]]

\* schedulePrefetch(s), the buffers being bs and the pages loaded n.
SchedulePrefetch(s, bs, n) ==
    /\ buffers' = bs
    /\ loops' = IF Paginates(s) /\ bs[cur].sig = s /\ ~bs[cur].exhausted
                THEN loops \cup {[buf |-> cur, start |-> n, i |-> 0, ready |-> TRUE]}
                ELSE loops
    /\ UNCHANGED cur

-----------------------------------------------------------------------------
(* doFetch.                                                                *)

Request(append, s, offset) ==
    [append |-> append, s |-> s, offset |-> offset, answer |-> {}]

\* The doFetch that a loop of restores awaits ends: the loop goes on.
Woken == restore' = {[r EXCEPT !.ready = TRUE] : r \in restore}

\* A page lands in the grid of a fresh search, under the given buffers.
LandFresh(s, page) ==
    /\ results' = page.rows
    /\ misread' = {}
    /\ newest' = IF page.rows = <<>> THEN None ELSE Head(page.rows)
    /\ hasMore' = page.more
    /\ pageRef' = 1
    /\ SchedulePrefetch(s, buffers, 1)

\* Mutant: the rows of the page as they come.
NovelUnchecked(rows) == rows
Novel(rows) == Only(rows, Images \ Seqs!ToSet(resultsRef))

\* The images that are in only one of the list and its mirror.
Unmirrored ==
    (Seqs!ToSet(results) \ Seqs!ToSet(resultsRef))
      \cup (Seqs!ToSet(resultsRef) \ Seqs!ToSet(results))

LandAppend(s, page, bs) ==
    LET novel == Novel(page.rows)
    IN  /\ results' = results \o novel
        /\ misread' = misread \cup Unmirrored
        /\ hasMore' = (novel # <<>> /\ page.more)
        /\ pageRef' = pageRef + 1
        /\ SchedulePrefetch(s, bs, pageRef + 1)
        /\ UNCHANGED newest

\* doFetch(false, s)
FetchFresh(s) ==
    /\ hasNew' = FALSE
    /\ newest' = None
    /\ ResetPrefetch(s)
    /\ still' = TRUE
    /\ IF s.mode = "image" /\ ~s.file
       THEN /\ results' = <<>>
            /\ misread' = {}
            /\ hasMore' = FALSE
            /\ loading' = FALSE
            /\ grid' = {}
            /\ UNCHANGED <<pageRef, error>>
       ELSE /\ loading' = TRUE
            /\ error' = FALSE
            /\ grid' = {Request(FALSE, s, 0)}
            /\ UNCHANGED <<results, misread, hasMore, pageRef>>

\* doFetch(true, s): a warmed page lands at once.
FetchAppend(s) ==
    LET i == pageRef
        warmed == TakePrefetched(s, i)
    IN  /\ error' = FALSE
        /\ UNCHANGED hasNew
        /\ IF warmed # {}
           THEN /\ \E page \in warmed : LandAppend(s, page,
                     [buffers EXCEPT ![cur].pages = Without(@, i)])
                /\ loading' = FALSE
                /\ grid' = {}
           ELSE /\ loading' = TRUE
                /\ grid' = {Request(TRUE, s, Offset(i))}
                /\ UNCHANGED <<results, misread, hasMore, pageRef, newest, warmVars>>

-----------------------------------------------------------------------------
(* Code that runs before the next event.                                   *)

Idle == \A t \in restore \cup loops : ~t.ready

\* The async body of schedulePrefetch up to its next await: the pages that
\* are buffered or on their way are skipped.
WarmNext(l) ==
    /\ l.ready
    /\ LET b == buffers[l.buf]
           wanted == {i \in l.i..(PREFETCH_AHEAD - 1) :
                        /\ ~b.exhausted
                        /\ l.start + i \notin DOMAIN b.pages \cup b.flight}
       IN  IF wanted = {}
           THEN /\ loops' = loops \ {l}
                /\ buffers' = Collected(buffers, cur, loops \ {l})
           ELSE LET i == Sets!Min(wanted) IN
                /\ loops' = (loops \ {l}) \cup {[l EXCEPT !.i = i, !.ready = FALSE]}
                /\ buffers' = [buffers EXCEPT ![l.buf].flight = @ \cup {l.start + i}]
    /\ UNCHANGED <<catalog, typed, gridVars, cur, freshVars, restore, mounted,
                   resultsRef, boundVars, still>>

\* What the link fixed, over what the form says of the rest by now.
Merged(s) == [s EXCEPT !.filter.panel = typed.filter.panel, !.sort = typed.sort]

\* The next turn of the loop that re-pages a ?page=N link.
RestoreNext ==
    /\ \A l \in loops : ~l.ready
    /\ \E r \in restore :
         /\ r.ready
         /\ IF r.left = 0
            THEN /\ restore' = {}
                 /\ UNCHANGED <<gridVars, warmVars, freshVars, still>>
            ELSE /\ FetchAppend(Merged(r.s))
                 /\ restore' = {[r EXCEPT !.left = @ - 1, !.ready = (grid' = {})]}
                 /\ still' = (still /\ grid = {})
                 /\ UNCHANGED polls
    /\ UNCHANGED <<catalog, typed, mounted, resultsRef, boundVars>>

\* The rows are rendered, and the effect that mirrors them has run.
Mirror ==
    /\ mounted /\ resultsRef # results
    /\ resultsRef' = results
    /\ UNCHANGED <<catalog, typed, gridVars, warmVars, freshVars, restore,
                   mounted, boundVars, still>>

-----------------------------------------------------------------------------
(* What the user does.                                                     *)

PollKey(s) == <<s.mode, s.text, s.filter, s.sort>>

\* The effect of the freshness poll restarts when what it is keyed on does.
Retyped(s) ==
    /\ typed' = s
    /\ polls' = IF PollKey(s) = PollKey(typed) THEN polls ELSE {}

\* The form changes to s and a fresh search of s starts.
SearchAnew(s) ==
    /\ Idle /\ mounted
    /\ Retyped(s)
    /\ FetchFresh(s)
    /\ Woken
    /\ UNCHANGED <<catalog, mounted, resultsRef, mishaps>>

Submit(s) ==
    /\ searches < MaxSearches
    /\ searches' = searches + 1
    /\ SearchAnew(s)

\* The form changes and nothing is fetched: the path, the text, the limits.
Type(s) ==
    /\ Idle /\ mounted /\ s # typed
    /\ searches < MaxSearches
    /\ searches' = searches + 1
    /\ Retyped(s)
    /\ hasNew' = (hasNew /\ BrowsePath(s))
    /\ still' = FALSE
    /\ UNCHANGED <<catalog, gridVars, warmVars, newest, restore, mounted,
                   resultsRef, mishaps>>

TypeText == \E b \in BOOLEAN : Type([typed EXCEPT !.text = b])
TypePath == \E p \in PanelFilters : Type([typed EXCEPT !.filter.panel = p])

\* search: the button is disabled while loading, the Enter key is not.
Search == Submit([typed EXCEPT !.mode = "browse", !.ref = None, !.file = FALSE])

\* Chips, favorites, rating, safety, graph scope, excluded tags.
ChangeFilter ==
    \E f \in Filters \ {typed.filter} :
        /\ f.link = typed.filter.link \/ f.panel = typed.filter.panel
        /\ Submit([typed EXCEPT !.filter = f])

\* changeSort: on the vector paths the loaded window is only reordered.
ChangeSort ==
    \E x \in {"newest", "oldest"} \ {typed.sort} :
        LET s == [typed EXCEPT !.sort = x]
        IN  IF BrowsePath(typed) THEN Submit(s) ELSE Type(s)

FindSimilar ==
    \E r \in Seqs!ToSet(results) : Submit([typed EXCEPT !.mode = "similar", !.ref = r])
\* One search by likeness is cleared once, and needs no bound of its own.
ClearSimilar ==
    /\ typed.ref # None
    /\ SearchAnew([typed EXCEPT !.mode = "browse", !.ref = None])
    /\ UNCHANGED searches
ApplyExternalImage ==
    Submit([typed EXCEPT !.mode = "image", !.file = TRUE, !.ref = None])
ClearImage ==
    typed.mode = "image" /\ Submit([typed EXCEPT !.mode = "browse", !.file = FALSE])

\* The banner, shown while hasNew.
Refresh == hasNew /\ Submit(typed)

\* The button under the grid, disabled while loading, and the observer of
\* the sentinel, which checks the same flag.
\* Mutant: the observer fires while a page is on its way.
MayLoadAnyTime == TRUE
MayLoad == ~loading

LoadMore ==
    /\ Idle /\ mounted /\ hasMore /\ MayLoad
    /\ FetchAppend(typed)
    /\ Woken
    /\ UNCHANGED <<catalog, typed, polls, mounted, resultsRef, boundVars, still>>

\* The effect that aborts everything in flight when the page goes away.
Unmount ==
    /\ Idle /\ mounted
    /\ mounted' = FALSE
    /\ grid' = {}
    /\ Woken
    /\ loops' = Aborted(loops)
    /\ buffers' = [buffers EXCEPT ![cur].flight = {}]
    /\ polls' = {}
    /\ UNCHANGED <<catalog, typed, results, resultsRef, misread, hasMore, pageRef,
                   loading, error, cur, hasNew, newest, boundVars, still>>

-----------------------------------------------------------------------------
(* Answers.                                                                *)

Serve ==
    /\ Idle
    /\ \E g \in grid :
         /\ g.answer = {}
         /\ grid' = {[g EXCEPT !.answer = {Page(g.s, g.offset)}]}
    /\ UNCHANGED <<catalog, typed, results, misread, hasMore, pageRef, loading,
                   error, warmVars, freshVars, restore, mounted, resultsRef,
                   boundVars, still>>

\* The finally of doFetch: the request is the current one.
\* Mutant: a page that was appended leaves the spinner on.
LandedSpinning ==
    loading' = (\A g \in grid : g.append) /\ grid' = {} /\ Woken
Landed == loading' = FALSE /\ grid' = {} /\ Woken

Deliver ==
    /\ Idle
    /\ \E g \in grid, page \in UNION {r.answer : r \in grid} :
          IF g.append THEN LandAppend(g.s, page, buffers) ELSE LandFresh(g.s, page)
    /\ Landed
    /\ UNCHANGED <<catalog, typed, error, hasNew, polls, mounted, resultsRef,
                   boundVars, still>>

GridFails ==
    /\ Idle /\ grid # {} /\ mishaps < MaxMishaps
    /\ mishaps' = mishaps + 1
    /\ error' = TRUE
    /\ still' = (still /\ \A g \in grid : g.append)
    /\ Landed
    /\ UNCHANGED <<catalog, typed, results, misread, hasMore, pageRef, warmVars,
                   freshVars, mounted, resultsRef, searches>>

\* A warmed page arrives.  The rows are read when it does: nothing else
\* looks at them before.
WarmArrives(l) ==
    LET i == WarmIndex(l)
        page == Page(buffers[l.buf].sig, Offset(i))
        done == [buffers EXCEPT ![l.buf].flight = @ \ {i}]
    IN  IF buffers[cur].sig # buffers[l.buf].sig
        THEN /\ loops' = loops \ {l}
             /\ buffers' = Collected(done, cur, loops \ {l})
        ELSE /\ loops' = (loops \ {l}) \cup {[l EXCEPT !.i = @ + 1, !.ready = TRUE]}
             /\ buffers' = [done EXCEPT ![l.buf].pages = Extended(@, i, page),
                                        ![l.buf].exhausted = @ \/ ~page.more]

\* The page failed: it will be fetched on demand.
WarmLost(l) ==
    /\ loops' = (loops \ {l}) \cup {[l EXCEPT !.i = @ + 1, !.ready = TRUE]}
    /\ buffers' = [buffers EXCEPT ![l.buf].flight = @ \ {WarmIndex(l)}]

WarmAnswer(l) ==
    /\ Idle
    /\ \/ WarmArrives(l) /\ UNCHANGED mishaps
       \/ mishaps < MaxMishaps /\ mishaps' = mishaps + 1 /\ WarmLost(l)
    /\ UNCHANGED <<catalog, typed, gridVars, cur, freshVars, restore, mounted,
                   resultsRef, searches, still>>

-----------------------------------------------------------------------------
(* The freshness poll.                                                     *)

\* One poll at a time; the tab is visible.
PollSend ==
    /\ Idle /\ mounted /\ BrowsePath(typed) /\ polls = {}
    /\ polls' = {[served |-> FALSE, rows |-> <<>>]}
    /\ UNCHANGED <<catalog, typed, gridVars, warmVars, hasNew, newest, restore,
                   mounted, resultsRef, boundVars, still>>

PollServe ==
    /\ Idle
    /\ \E p \in polls :
         /\ ~p.served
         /\ polls' = {[served |-> TRUE,
                       rows |-> Slice(Ranked([typed EXCEPT !.sort = "newest"]), 0,
                                      IF NewestFirst(typed) THEN PollWindow ELSE 1)]}
    /\ UNCHANGED <<catalog, typed, gridVars, warmVars, hasNew, newest, restore,
                   mounted, resultsRef, boundVars, still>>

\* New rows go in at the head, compared with the list itself, and shift the
\* offsets of every deeper page.
Unlisted(rows) == Only(rows, Images \ Seqs!ToSet(results))
Splice(rows) ==
    /\ results' = Unlisted(rows) \o results
    /\ newest' = Head(rows)
    /\ hasNew' = FALSE
    /\ InvalidatePrefetchPages

\* Under any other sort, scrolled down, or with the viewer open: the banner.
PollAnswer ==
    /\ Idle
    /\ \E p \in polls :
         /\ p.served
         /\ polls' = {}
         /\ IF p.rows = <<>> \/ newest \in {Head(p.rows), None}
            THEN /\ newest' = IF p.rows = <<>> THEN newest ELSE Head(p.rows)
                 /\ UNCHANGED <<results, hasNew, warmVars>>
            ELSE \/ NewestFirst(typed) /\ Splice(p.rows)
                 \/ hasNew' = TRUE /\ UNCHANGED <<results, newest, warmVars>>
    /\ still' = (still /\ results' = results)
    /\ UNCHANGED <<catalog, typed, misread, hasMore, pageRef, loading, error,
                   grid, restore, mounted, resultsRef, boundVars>>

-----------------------------------------------------------------------------
(* The catalog, and the start of the page.                                 *)

Arrive ==
    /\ Idle /\ mounted
    /\ \E n \in Images :
         /\ n \notin catalog /\ \A m \in Images : m > FirstImages /\ m < n => m \in catalog
         /\ n > FirstImages
         /\ catalog' = catalog \cup {n}
    /\ still' = FALSE
    /\ UNCHANGED <<typed, gridVars, warmVars, freshVars, restore, mounted,
                   resultsRef, boundVars>>

RemovedElsewhere ==
    /\ Idle /\ mounted /\ mishaps < MaxMishaps
    /\ \E n \in catalog : catalog' = catalog \ {n}
    /\ mishaps' = mishaps + 1
    /\ still' = FALSE
    /\ UNCHANGED <<typed, gridVars, warmVars, freshVars, restore, mounted,
                   resultsRef, searches>>

\* The init effect once the settings are there: the link may carry a query,
\* filters, the image mode and the pages to restore.
Link(s, pages) ==
    /\ typed = s
    /\ results = <<>> /\ resultsRef = <<>> /\ misread = {}
    /\ hasMore = FALSE /\ error = FALSE
    /\ buffers = [b \in {1} |-> EmptyBuffer(s)] /\ cur = 1 /\ loops = {}
    /\ IF s.mode = "image"
       THEN pageRef = 0 /\ loading = FALSE /\ grid = {} /\ restore = {}
       ELSE /\ pageRef = 0 /\ loading = TRUE
            /\ grid = {Request(FALSE, s, 0)}
            /\ restore = {[left |-> pages - 1, s |-> s, ready |-> FALSE]}

Init ==
    /\ catalog = 1..FirstImages
    /\ \E s \in Links, pages \in 1..MAX_RESTORE_PAGES : Link(s, pages)
    /\ hasNew = FALSE /\ newest = None /\ polls = {}
    /\ mounted = TRUE /\ still = TRUE
    /\ searches = 0 /\ mishaps = 0

User ==
    \/ Search \/ ChangeFilter \/ ChangeSort \/ FindSimilar \/ ClearSimilar
    \/ ApplyExternalImage \/ ClearImage \/ Refresh \/ LoadMore
    \/ TypeText \/ TypePath \/ Unmount

Network ==
    \/ Serve \/ Deliver \/ GridFails
    \/ \E l \in loops : ~l.ready /\ WarmAnswer(l)
    \/ PollSend \/ PollServe \/ PollAnswer
    \/ Arrive \/ RemovedElsewhere

Code == RestoreNext \/ \E l \in loops : WarmNext(l)

Next == User \/ Network \/ Code \/ Mirror

\* The scheduler of the browser, a server that answers, and a user who
\* keeps scrolling.
Fairness ==
    /\ WF_vars(Code) /\ WF_vars(Mirror)
    /\ WF_vars(Serve) /\ WF_vars(Deliver) /\ WF_vars(LoadMore)

Spec == Init /\ [][Next]_vars /\ Fairness

-----------------------------------------------------------------------------

\* An image is in the grid twice only if a page was appended while the mirror
\* of the list was wrong about that image, whatever arrives or goes between
\* the pages: an id is the key of its card (page.tsx:509-514).
NoDuplicateRows ==
    \A i, j \in DOMAIN results :
        results[i] = results[j] => i = j \/ results[i] \in misread

\* The spinner is on exactly while the request of the current search is in
\* flight, however searches overtake one another.
SpinnerIsHonest == mounted => (loading <=> grid # {})

\* When nothing has shifted the offsets since the search, and no page was
\* appended under a mirror that was behind, a grid that says there is no more
\* holds every image that matches, warmed pages included.
EndOfListIsComplete ==
    (still /\ misread = {} /\ mounted /\ ~loading /\ ~error /\ ~hasMore /\ pageRef > 0
           /\ Paginates(typed) /\ restore = {})
      => Seqs!ToSet(results) =
           {n \in catalog \cap Match[typed.filter] : typed.mode = "similar" => n \in Near}

\* A page in the warm buffer holds what the server would answer now, unless
\* the offsets have shifted.
WarmPagesAreCurrent ==
    still => \A i \in DOMAIN buffers[cur].pages :
                buffers[cur].pages[i] = Page(buffers[cur].sig, Offset(i))

\* What the page says of its list is so: it is loading, or it is complete.
ListIsAsItSays == SpinnerIsHonest /\ EndOfListIsComplete

\* A user who keeps scrolling gets to the end of the list.
ScrollingEnds == <>[](~hasMore \/ error \/ ~mounted)

=============================================================================
