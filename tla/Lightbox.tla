------------------------------ MODULE Lightbox ------------------------------
(***************************************************************************)
(* The fullscreen viewer of the library page (Lightbox.tsx) and the part   *)
(* of the page that feeds it: the list under it, which grows, shrinks and  *)
(* is replaced while the viewer is open, the page it asks for near the end *)
(* of the strip, and the delete it starts.                                 *)
(*                                                                         *)
(* The viewer is on screen while the page has an open slot and the list    *)
(* has a row in it; its state is a record that is gone when it is not.  A  *)
(* step ends with a render: the image on screen is derived from the list,  *)
(* and the effects that are keyed on it run when it is another one.  Rows  *)
(* are counted from one.                                                   *)
(***************************************************************************)
EXTENDS Integers, SequencesExt

CONSTANTS
    LastRow,        \* images are 1..LastRow, in the order of the search
    FirstRows,      \* rows on the page at the start
    Searches,       \* lists that a new search may put in their place
    NearEnd,        \* rows before the end at which more is asked for (3)
    STRIP_HALF,     \* rows of the film strip on either side (40)
    MaxMoves,       \* bound: keys and clicks of the user
    MaxTroubles     \* bound: failed calls, and rows that leave by a bulk delete

Rows == 1..LastRow
Nobody == 0

ASSUME ViewerAssumption ==
    /\ LastRow \in Nat /\ FirstRows \in 0..LastRow /\ STRIP_HALF \in Nat
    /\ \A items \in Searches : items \in Seq(Rows) /\ IsInjective(items)

Panels == {"notes", "details"}

VARIABLES
    gallery, galleryMore,   \* galleryItems, hasMore
    pageCall,               \* the page's fetch: none, the next page or a new list
    openAt, autoPlay,       \* lightboxIndex, lightboxAutoPlay
    pendingView,            \* the image of a ?view= link, until it is consumed
    viewer,                 \* the component's state
    fullscreen,             \* document.fullscreenElement
    removing,               \* deletes under way
    slideshow,              \* the settings: loop, shuffle
    moves, troubles

viewerVars == <<gallery, galleryMore, pageCall, openAt, autoPlay, pendingView,
                viewer, fullscreen, removing, slideshow, moves, troubles>>

\* A panel: is it open, whose data does it show, whose is on the way.  The
\* effect's alive flag drops an answer for another image or a closed panel.
Panel == [open |-> FALSE, of |-> Nobody, asked |-> {}]
Away == [shown |-> Nobody]

IsMounted(items, at) == at # Nobody /\ at <= Len(items)
Mounted == viewer.shown # Nobody

\* useState at the first render: the image of the open slot.
FreshViewer(items, at) ==
    [shown |-> items[at], id |-> items[at], playing |-> autoPlay,
     primed |-> FALSE, primedFor |-> Nobody, deleting |-> FALSE,
     panel |-> [p \in Panels |-> Panel],
     draft |-> FALSE, saving |-> Nobody, saveStep |-> "none"]

IndexOf(items, img) == Min({i \in DOMAIN items : items[i] = img})

\* Mutant: the open slot is tracked, not the image.
IndexByPosition(v, items, at) == Min({at, Len(items)})
\* The image is tracked by its id; if it left the list, the open slot.
Index(v, items, at) ==
    IF v.id \in ToSet(items) THEN IndexOf(items, v.id)
    ELSE Min({at, Len(items)})

Asked(p, img) == IF p.open THEN [p EXCEPT !.of = Nobody, !.asked = @ \cup {img}]
                 ELSE [p EXCEPT !.of = Nobody]

\* The effects keyed on the image: a primed delete, the notes and the draft
\* are dropped, and what the open panels show is fetched again.
\* Mutant: a primed delete stays primed.
TurnedPrimed(v, img) ==
    [v EXCEPT !.shown = img, !.draft = FALSE,
              !.panel = [p \in Panels |-> Asked(@[p], img)]]
Turned(v, img) ==
    [v EXCEPT !.shown = img, !.primed = FALSE, !.draft = FALSE,
              !.panel = [p \in Panels |-> Asked(@[p], img)]]

\* The deletes under way being rs.
RenderWith(v, items, at, rs) ==
    /\ gallery' = items
    /\ openAt' = at
    /\ viewer' = IF ~IsMounted(items, at) THEN Away
                 ELSE IF v = Away THEN FreshViewer(items, at)
                 ELSE LET img == items[Index(v, items, at)]
                      IN  IF img = v.shown THEN v ELSE Turned(v, img)
    /\ removing' = {[r EXCEPT !.live = @ /\ viewer' # Away] : r \in rs}
    /\ fullscreen' = (fullscreen /\ viewer' # Away)

Render(v, items, at) == RenderWith(v, items, at, removing)
RenderViewer(v) == Render(v, gallery, openAt)
Here == Index(viewer, gallery, openAt)

Move == moves < MaxMoves /\ moves' = moves + 1
Trouble == troubles < MaxTroubles /\ troubles' = troubles + 1
PageKeeps == UNCHANGED <<galleryMore, pageCall, autoPlay, pendingView, slideshow>>

-----------------------------------------------------------------------------
(* Opening and closing.                                                    *)

\* A card, or the slideshow button of the page.
OpenCard ==
    /\ Move /\ ~Mounted
    /\ \E at \in DOMAIN gallery, auto \in BOOLEAN :
         /\ autoPlay' = auto
         /\ gallery' = gallery /\ openAt' = at
         /\ viewer' = [FreshViewer(gallery, at) EXCEPT !.playing = auto]
    /\ UNCHANGED <<galleryMore, pageCall, pendingView, fullscreen, removing,
                   slideshow, troubles>>

\* The effect that consumes a ?view= link once there are rows.
ConsumeView ==
    /\ pendingView # Nobody /\ gallery # <<>>
    /\ \/ /\ pendingView \in ToSet(gallery)
          /\ autoPlay' = FALSE
          /\ Render(IF Mounted THEN viewer ELSE Away, gallery,
                    IndexOf(gallery, pendingView))
       \/ /\ pendingView \notin ToSet(gallery)
          /\ pageCall = "none" /\ ~galleryMore
          /\ UNCHANGED <<gallery, openAt, autoPlay, viewer, fullscreen, removing>>
    /\ pendingView' = Nobody
    /\ UNCHANGED <<galleryMore, pageCall, slideshow, moves, troubles>>

CloseViewer == Render(Away, gallery, Nobody)

\* The close button or the empty area; Esc, unless it only leaves fullscreen.
Close ==
    /\ Mounted /\ Move
    /\ \/ CloseViewer
       \/ fullscreen' = FALSE /\ fullscreen
          /\ UNCHANGED <<gallery, openAt, viewer, removing>>
    /\ PageKeeps /\ UNCHANGED troubles

\* "Similar": the viewer closes and the page searches.
FindSimilarHere ==
    /\ Mounted /\ Move
    /\ CloseViewer
    /\ pageCall' = "list"
    /\ UNCHANGED <<galleryMore, autoPlay, pendingView, slideshow, troubles>>

ToggleFullscreen ==
    /\ Mounted /\ Move
    /\ fullscreen' = ~fullscreen
    /\ PageKeeps /\ UNCHANGED <<gallery, openAt, viewer, removing, troubles>>

-----------------------------------------------------------------------------
(* Moving.                                                                 *)

Show(i) == RenderViewer([viewer EXCEPT !.id = gallery[i]])

\* go(1) and go(-1).  At the end of the strip the page is asked for more,
\* whether or not a request is on its way: doFetch aborts that one.
Forward ==
    \/ /\ slideshow.shuffle /\ viewer.playing
       /\ \E i \in DOMAIN gallery : Show(i)
       /\ UNCHANGED pageCall
    \/ /\ ~(slideshow.shuffle /\ viewer.playing)
       /\ IF Here < Len(gallery) THEN Show(Here + 1) /\ UNCHANGED pageCall
          ELSE IF galleryMore THEN RenderViewer(viewer) /\ pageCall' = "page"
          ELSE /\ IF slideshow.loop THEN Show(1)
                  ELSE RenderViewer([viewer EXCEPT !.playing = FALSE])
               /\ UNCHANGED pageCall

Back == Show(IF Here > 1 THEN Here - 1 ELSE IF slideshow.loop THEN Len(gallery) ELSE 1)

\* Arrow keys, buttons, a swipe.
GoForward ==
    /\ Mounted /\ Move /\ Forward
    /\ UNCHANGED <<galleryMore, autoPlay, pendingView, slideshow, troubles>>
GoBack == Mounted /\ Move /\ Back /\ PageKeeps /\ UNCHANGED troubles

\* The slideshow timer.
Tick ==
    /\ Mounted /\ viewer.playing /\ Move /\ Forward
    /\ UNCHANGED <<galleryMore, autoPlay, pendingView, slideshow, troubles>>

\* Home, End, and the thumbnails of the film strip that are mounted.
StripWindow == Max({1, Here - STRIP_HALF})..Min({Len(gallery), Here + STRIP_HALF - 1})
Jump ==
    /\ Mounted /\ Move
    /\ \E i \in StripWindow \cup {1, Len(gallery)} : Show(i)
    /\ PageKeeps /\ UNCHANGED troubles

PlayPause ==
    /\ Mounted /\ Move
    /\ RenderViewer([viewer EXCEPT !.playing = ~@])
    /\ PageKeeps /\ UNCHANGED troubles

-----------------------------------------------------------------------------
(* The page under the viewer.                                              *)

NearTheEnd(i, n) == i - 1 >= n - NearEnd

\* The effect that pulls the next page, and the button of the film strip.
Autoload ==
    /\ Mounted /\ galleryMore /\ pageCall = "none"
    /\ NearTheEnd(Here, Len(gallery))
    /\ pageCall' = "page"
    /\ UNCHANGED <<gallery, galleryMore, openAt, autoPlay, pendingView, viewer,
                   fullscreen, removing, slideshow, moves, troubles>>

AskMore ==
    /\ Mounted /\ Move /\ galleryMore /\ pageCall = "none"
    /\ pageCall' = "page"
    /\ UNCHANGED <<gallery, galleryMore, openAt, autoPlay, pendingView, viewer,
                   fullscreen, removing, slideshow, troubles>>

\* The next row in the order of the search that the page has not got yet.
Missing == {r \in Rows : \A s \in ToSet(gallery) : r > s}

PageArrives ==
    /\ pageCall = "page"
    /\ pageCall' = "none"
    /\ IF Missing = {} THEN galleryMore' = FALSE /\ RenderViewer(viewer)
       ELSE /\ Render(viewer, Append(gallery, Min(Missing)), openAt)
            /\ galleryMore' = (Cardinality(Missing) > 1)
    /\ UNCHANGED <<autoPlay, pendingView, slideshow, moves, troubles>>

\* The rows of a new search replace the list under a viewer that was opened
\* on the old rows meanwhile.
ListArrives ==
    /\ pageCall = "list"
    /\ pageCall' = "none"
    /\ \E items \in Searches : Render(viewer, items, openAt)
    /\ galleryMore' \in BOOLEAN
    /\ UNCHANGED <<autoPlay, pendingView, slideshow, moves, troubles>>

PageCallFails ==
    /\ pageCall # "none" /\ Trouble
    /\ pageCall' = "none"
    /\ UNCHANGED <<gallery, galleryMore, openAt, autoPlay, pendingView, viewer,
                   fullscreen, removing, slideshow, moves>>

\* A list has a row once (NoDuplicateRows in LibraryBrowse), so that the
\* filter of the code takes out one item at most.
LessOne(items, img) ==
    IF img \in ToSet(items) THEN RemoveAt(items, IndexOf(items, img)) ELSE items

\* A bulk delete that was under way when the viewer opened.
RowLeaves ==
    /\ Trouble
    /\ \E img \in ToSet(gallery) : Render(viewer, LessOne(gallery, img), openAt)
    /\ PageKeeps /\ UNCHANGED moves

-----------------------------------------------------------------------------
(* Deleting the image on screen.                                           *)

PrimeDelete ==
    /\ Mounted /\ Move /\ ~viewer.primed
    /\ RenderViewer([viewer EXCEPT !.primed = TRUE, !.primedFor = viewer.shown])
    /\ PageKeeps /\ UNCHANGED troubles

CancelDelete ==
    /\ Mounted /\ Move /\ viewer.primed /\ ~viewer.deleting
    /\ RenderViewer([viewer EXCEPT !.primed = FALSE])
    /\ PageKeeps /\ UNCHANGED troubles

\* The neighbour is captured before the delete: the next row, or the last
\* but one.
Neighbour ==
    IF Here < Len(gallery) THEN gallery[Here + 1]
    ELSE IF Here > 1 THEN gallery[Here - 1] ELSE Nobody

HandleDelete ==
    /\ Mounted /\ Move /\ viewer.primed /\ ~viewer.deleting
    /\ viewer' = [viewer EXCEPT !.deleting = TRUE]
    /\ removing' = removing \cup
         {[victim |-> gallery[Here], neighbour |-> Neighbour, live |-> TRUE]}
    /\ PageKeeps /\ UNCHANGED <<gallery, openAt, fullscreen, troubles>>

\* The row leaves the grid, and the viewer, if it is still the one that
\* asked, moves on to the neighbour; with no neighbour it closes.
DeleteDone ==
    /\ \E r \in removing :
         RenderWith(IF ~r.live THEN viewer
                    ELSE [viewer EXCEPT !.deleting = FALSE, !.primed = FALSE,
                            !.id = IF r.neighbour = Nobody THEN @ ELSE r.neighbour],
                    LessOne(gallery, r.victim),
                    IF r.neighbour = Nobody THEN Nobody ELSE openAt,
                    removing \ {r})
    /\ PageKeeps /\ UNCHANGED <<moves, troubles>>

\* deleteOne throws: the image stays, the delete stays primed.
DeleteFails ==
    /\ Trouble
    /\ \E r \in removing :
         /\ removing' = removing \ {r}
         /\ viewer' = IF r.live THEN [viewer EXCEPT !.deleting = FALSE] ELSE viewer
    /\ PageKeeps /\ UNCHANGED <<gallery, openAt, fullscreen, moves>>

-----------------------------------------------------------------------------
(* Notes and details.                                                      *)

TogglePanel ==
    /\ Mounted /\ Move
    /\ \E p \in Panels :
         LET q == [viewer.panel[p] EXCEPT !.open = ~@]
         IN  viewer' = [viewer EXCEPT !.panel[p] = IF q.open THEN Asked(q, viewer.shown) ELSE q]
    /\ PageKeeps /\ UNCHANGED <<gallery, openAt, fullscreen, removing, troubles>>

\* Mutant: an answer is shown whoever it is about.
StillWantedAlways(p, img) == p.open
StillWanted(p, img) == p.open /\ img = viewer.shown

PanelAnswers ==
    /\ Mounted
    /\ \E p \in Panels : \E img \in viewer.panel[p].asked :
         LET q == viewer.panel[p]
         IN  viewer' = [viewer EXCEPT !.panel[p] =
                          [q EXCEPT !.asked = @ \ {img},
                                    !.of = IF StillWanted(q, img) THEN img ELSE @]]
    /\ PageKeeps
    /\ UNCHANGED <<gallery, openAt, fullscreen, removing, moves, troubles>>

TypeNote ==
    /\ Mounted /\ Move /\ viewer.panel["notes"].open
    /\ viewer.saving = Nobody /\ ~viewer.draft
    /\ viewer' = [viewer EXCEPT !.draft = TRUE]
    /\ PageKeeps /\ UNCHANGED <<gallery, openAt, fullscreen, removing, troubles>>

AddNote ==
    /\ Mounted /\ Move /\ viewer.panel["notes"].open
    /\ viewer.draft /\ viewer.saving = Nobody
    /\ viewer' = [viewer EXCEPT !.saving = viewer.shown, !.saveStep = "create"]
    /\ PageKeeps /\ UNCHANGED <<gallery, openAt, fullscreen, removing, troubles>>

\* The note is stored, the draft cleared, and the notes of the same image
\* are read again and shown: no flag asks whether it is still on screen.
NoteStored ==
    /\ Mounted /\ viewer.saving # Nobody
    /\ viewer' = IF viewer.saveStep = "create"
                 THEN [viewer EXCEPT !.draft = FALSE, !.saveStep = "read"]
                 ELSE [viewer EXCEPT !.panel["notes"].of = viewer.saving,
                                     !.saving = Nobody, !.saveStep = "none"]
    /\ PageKeeps
    /\ UNCHANGED <<gallery, openAt, fullscreen, removing, moves, troubles>>

NoteFails ==
    /\ Mounted /\ viewer.saving # Nobody /\ viewer.saveStep = "create" /\ Trouble
    /\ viewer' = [viewer EXCEPT !.saving = Nobody, !.saveStep = "none"]
    /\ PageKeeps /\ UNCHANGED <<gallery, openAt, fullscreen, removing, moves>>

-----------------------------------------------------------------------------
ViewerInit ==
    /\ gallery = [i \in 1..FirstRows |-> i]
    /\ galleryMore = (LastRow > FirstRows)
    /\ pageCall \in {"none", "list"}
    /\ openAt = Nobody /\ autoPlay = FALSE
    /\ pendingView \in {Nobody, 1, LastRow}
    /\ viewer = Away /\ fullscreen = FALSE /\ removing = {}
    /\ slideshow \in [loop : BOOLEAN, shuffle : BOOLEAN]
    /\ moves = 0 /\ troubles = 0

ViewerNext ==
    \/ OpenCard \/ ConsumeView \/ Close \/ FindSimilarHere \/ ToggleFullscreen
    \/ GoForward \/ GoBack \/ Tick \/ Jump \/ PlayPause
    \/ Autoload \/ AskMore \/ PageArrives \/ ListArrives \/ PageCallFails \/ RowLeaves
    \/ PrimeDelete \/ CancelDelete \/ HandleDelete \/ DeleteDone \/ DeleteFails
    \/ TogglePanel \/ PanelAnswers \/ TypeNote \/ AddNote \/ NoteStored \/ NoteFails

\* Effects run, and the gateway answers.
ViewerFairness ==
    WF_viewerVars(Autoload) /\ WF_viewerVars(PageArrives) /\ WF_viewerVars(ListArrives)

ViewerSpec == ViewerInit /\ [][ViewerNext]_viewerVars /\ ViewerFairness

-----------------------------------------------------------------------------
\* The image on screen stays on screen while the list under it grows, loses
\* other rows or is replaced, for as long as it is in the list.  (An image
\* the viewer fell back on when its own left the list is not tracked.)
ViewerKeepsImage ==
    [][(Mounted /\ Mounted' /\ gallery' # gallery /\ removing' = removing
          /\ viewer.id = viewer.shown)
         => viewer.shown \in {viewer'.shown} \cup (Rows \ ToSet(gallery'))]_viewerVars

\* A delete is sent only for an image that was on screen when its delete
\* was primed.
DeleteIsOfPrimedImage ==
    [][\A r \in removing' \ removing :
         r.live => r.victim = viewer.primedFor]_viewerVars

\* An open details panel never shows another image's details.
DetailIsOfShown ==
    Mounted /\ viewer.panel["details"].open
      => viewer.panel["details"].of \in {Nobody, viewer.shown}

=============================================================================
