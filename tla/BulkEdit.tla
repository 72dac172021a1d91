------------------------------ MODULE BulkEdit ------------------------------
(***************************************************************************)
(* Select mode of the library page: the selection, the bulk action bar     *)
(* (BulkActionBar.tsx) and what its actions do to the catalog and to the   *)
(* cards on screen (bulk-patch.ts, bulk-delete.ts, and the handlers of     *)
(* page.tsx), while a search may replace the cards and the viewer may rate *)
(* one of them.                                                            *)
(*                                                                         *)
(* A card holds the part of the catalog's record that bulk edits change:   *)
(* rating (0 is none) and tags.  An edit sends one request per selected    *)
(* card, at most Lanes at a time; the catalog takes a request at some      *)
(* point and the answer comes later, or does not.                          *)
(***************************************************************************)
EXTENDS Integers, FiniteSets

CONSTANTS
    Pictures,       \* images in the catalog at the start
    FirstCards,     \* those on the page
    Ratings,        \* values of a rating, 0 among them
    TagNames,
    Lanes,          \* requests of one edit in flight at once (4 in the code)
    MaxClicks,      \* bound: what the user does
    MaxFaults       \* bound: requests that fail

ASSUME BulkAssumption == IsFiniteSet(Pictures) /\ FirstCards \subseteq Pictures /\ 0 \in Ratings

Menus == {"rating", "tags", "move"}
Blank == [rating |-> 0, tags |-> {}]

VARIABLES
    stored,     \* the catalog: its images and their records
    cards,      \* results: the cards on the page and what they show
    selectMode, selected, confirming,   \* confirming: a primed bulk delete
    busy, menu,
    ops,        \* bulk actions under way
    ratingCalls, \* ratings sent by the viewer
    refetch,    \* the fresh search in flight
    blurred,    \* fields of images that two requests raced for (a history)
    clicks, faults

bulkVars == <<stored, cards, selectMode, selected, confirming, busy, menu, ops,
              ratingCalls, refetch, blurred, clicks, faults>>

Click == clicks < MaxClicks /\ clicks' = clicks + 1
Fault == faults < MaxFaults /\ faults' = faults + 1
BarShown == selectMode /\ DOMAIN cards # {}
NoneSelected == selected = {}
BarRests == UNCHANGED <<selectMode, selected, confirming>>

Drop(f, s) == [x \in DOMAIN f \ s |-> f[x]]

-----------------------------------------------------------------------------
(* Selecting.                                                              *)

\* A click on a card in select mode; Ctrl+click on one turns it on.
ToggleSelect ==
    /\ Click
    /\ \E p \in DOMAIN cards :
         selected' = IF p \in selected THEN selected \ {p} ELSE selected \cup {p}
    /\ selectMode' = TRUE
    /\ UNCHANGED <<stored, cards, confirming, busy, menu, ops, ratingCalls, refetch,
                   blurred, faults>>

SelectAll ==
    /\ Click /\ BarShown /\ Cardinality(selected) # Cardinality(DOMAIN cards)
    /\ selected' = DOMAIN cards
    /\ UNCHANGED <<stored, cards, selectMode, confirming, busy, menu, ops, ratingCalls,
                   refetch, blurred, faults>>

\* Clear keeps select mode on; the Done button leaves it.
ClearSelection ==
    /\ Click /\ selectMode /\ DOMAIN cards # {}
    /\ \/ ~NoneSelected /\ UNCHANGED selectMode
       \/ selectMode' = FALSE
    /\ selected' = {} /\ confirming' = FALSE
    /\ UNCHANGED <<stored, cards, busy, menu, ops, ratingCalls, refetch, blurred, faults>>

-----------------------------------------------------------------------------
(* The bar.                                                                *)

\* A menu opens from its button, unless nothing is selected or an action
\* runs; a click outside the bar closes it, one on the bar does not.
ToggleMenu ==
    /\ Click /\ BarShown /\ ~NoneSelected /\ busy = "none"
    /\ \E m \in Menus : menu' = IF menu = m THEN "none" ELSE m
    /\ BarRests
    /\ UNCHANGED <<stored, cards, busy, ops, ratingCalls, refetch, blurred, faults>>

\* The items of an open menu can be used unless its own action runs.
MenuOpen(m) == BarShown /\ menu = m /\ busy # m

Op(kind, ids, write) ==
    [kind |-> kind, at |-> clicks, ids |-> ids, write |-> write,
     queue |-> ids, sent |-> {}, taken |-> {}, updated |-> {}, failed |-> {}]

\* Another edit of the same field of the image is under way.
Underway(p, field) ==
    \/ \E o \in ops : o.kind = field /\ p \in o.ids
    \/ field = "rating" /\ \E c \in ratingCalls : c.of = p
Raced(ids, field) == blurred \cup {<<p, field>> : p \in {q \in ids : Underway(q, field)}}

Start(kind, ids, write) ==
    /\ ids # {}
    /\ busy' = kind
    /\ ops' = ops \cup {Op(kind, ids, write)}
    /\ blurred' = Raced(ids, kind)
    /\ BarRests
    /\ UNCHANGED <<stored, cards, ratingCalls, refetch, faults>>

\* applyBulk: the rows of the selection that are on the page.  The favorite
\* flag is not shown on a card.
SelectedCards == selected \cap DOMAIN cards
BulkFavorite ==
    /\ Click /\ BarShown /\ ~NoneSelected /\ busy = "none"
    /\ Start("favorite", SelectedCards, [p \in SelectedCards |-> Blank])
    /\ UNCHANGED menu

BulkRating ==
    /\ Click /\ MenuOpen("rating")
    /\ \E n \in Ratings :
         Start("rating", SelectedCards, [p \in SelectedCards |-> [rating |-> n, tags |-> {}]])
    /\ menu' = "none"

\* Tags are added to, or removed from, what the card shows: the request
\* carries the whole list.
BulkTags ==
    /\ Click /\ MenuOpen("tags")
    /\ \E t \in TagNames, add \in BOOLEAN :
         Start("tags", SelectedCards,
               [p \in SelectedCards |-> [rating |-> 0,
                  tags |-> IF add THEN cards[p].tags \cup {t} ELSE cards[p].tags \ {t}]])
    /\ menu' = "none"

\* Export reads, and a move changes files; neither changes a card.
BulkMove ==
    /\ Click /\ MenuOpen("move")
    /\ Start("move", selected, [p \in selected |-> Blank])
    /\ menu' = "none"

RequestDelete ==
    /\ Click /\ BarShown /\ ~confirming /\ ~NoneSelected /\ busy = "none"
    /\ confirming' = TRUE
    /\ UNCHANGED <<stored, cards, selectMode, selected, busy, menu, ops, ratingCalls,
                   refetch, blurred, faults>>

CancelBulkDelete ==
    /\ Click /\ BarShown /\ confirming /\ busy # "delete"
    /\ confirming' = FALSE
    /\ UNCHANGED <<stored, cards, selectMode, selected, busy, menu, ops, ratingCalls,
                   refetch, blurred, faults>>

ConfirmDelete ==
    /\ Click /\ BarShown /\ confirming /\ busy # "delete"
    /\ Start("delete", selected, [p \in selected |-> Blank])
    /\ UNCHANGED menu

-----------------------------------------------------------------------------
(* patchImages: lanes that shift from one queue.                           *)

Patching(o) == o.kind \in {"favorite", "rating", "tags"}
InFlight(o) == o.sent \cup o.taken
Replace(o, n) == ops' = (ops \ {o}) \cup {n}

\* Mutant: a lane reads the head of the queue and removes it when the
\* request is answered.
ShiftedLate(o, p) == [o EXCEPT !.sent = @ \cup {p}]
Shifted(o, p) == [o EXCEPT !.queue = @ \ {p}, !.sent = @ \cup {p}]

LaneSends ==
    /\ \E o \in ops :
         /\ Patching(o) /\ Cardinality(InFlight(o)) < Lanes
         /\ \E p \in o.queue : Replace(o, Shifted(o, p))
    /\ BarRests
    /\ UNCHANGED <<stored, cards, busy, menu, ratingCalls, refetch, blurred, clicks, faults>>

Written(rec, kind, value) ==
    CASE kind = "rating" -> [rec EXCEPT !.rating = value.rating]
      [] kind = "tags" -> [rec EXCEPT !.tags = value.tags]
      [] OTHER -> rec

BlurAnswers(p, kind) ==
    IF \E f \in refetch : f.answer # {} THEN blurred \cup {<<p, kind>>} ELSE blurred

\* The catalog takes the request; a PATCH of an image that is gone is
\* answered 404.
CatalogTakes ==
    /\ \E o \in ops : Patching(o) /\ \E p \in o.sent :
         IF p \in DOMAIN stored
         THEN /\ stored' = [stored EXCEPT ![p] = Written(@, o.kind, o.write[p])]
              /\ Replace(o, [o EXCEPT !.sent = @ \ {p}, !.taken = @ \cup {p}])
              /\ blurred' = BlurAnswers(p, o.kind)
         ELSE /\ Replace(o, [o EXCEPT !.sent = @ \ {p}, !.failed = @ \cup {p}])
              /\ UNCHANGED <<stored, blurred>>
    /\ BarRests
    /\ UNCHANGED <<cards, busy, menu, ratingCalls, refetch, clicks, faults>>

LaneAnswered ==
    /\ \E o \in ops : Patching(o) /\ \E p \in o.taken :
         Replace(o, [o EXCEPT !.taken = @ \ {p}, !.queue = @ \ {p},
                              !.updated = @ \cup {p}])
    /\ BarRests
    /\ UNCHANGED <<stored, cards, busy, menu, ratingCalls, refetch, blurred, clicks, faults>>

\* A request fails before it is taken, or its answer is lost.
LaneFails ==
    /\ Fault
    /\ \E o \in ops : Patching(o) /\ \E p \in InFlight(o) :
         /\ Replace(o, [o EXCEPT !.sent = @ \ {p}, !.taken = @ \ {p}, !.queue = @ \ {p},
                                 !.failed = @ \cup {p}])
         /\ blurred' = IF p \in o.taken THEN blurred \cup {<<p, o.kind>>} ELSE blurred
    /\ BarRests
    /\ UNCHANGED <<stored, cards, busy, menu, ratingCalls, refetch, clicks>>

\* Promise.all over the lanes: the cards that were updated are patched.
\* Mutant: every card of the edit is patched.
MirroredAll(o) == o.ids
Mirrored(o) == o.updated

PatchEnds ==
    /\ \E o \in ops :
         /\ Patching(o) /\ o.queue = {} /\ InFlight(o) = {}
         /\ cards' = [p \in DOMAIN cards |->
                        IF p \in Mirrored(o) THEN Written(cards[p], o.kind, o.write[p])
                        ELSE cards[p]]
         /\ ops' = ops \ {o}
    /\ busy' = "none"
    /\ BarRests
    /\ UNCHANGED <<stored, menu, ratingCalls, refetch, blurred, clicks, faults>>

-----------------------------------------------------------------------------
(* Move and delete: one request for the whole selection.                   *)

MoveEnds ==
    /\ \E o \in ops : o.kind = "move" /\ ops' = ops \ {o}
    /\ busy' = "none"
    /\ BarRests
    /\ UNCHANGED <<stored, cards, menu, ratingCalls, refetch, blurred, clicks, faults>>

\* The gateway deletes what it can; an image that is not there counts.
CatalogDeletes ==
    /\ \E o \in ops : o.kind = "delete" /\ o.queue # {} /\
         \E kept \in SUBSET (o.queue \cap DOMAIN stored) :
           /\ kept # {} => Fault
           /\ kept = {} => UNCHANGED faults
           /\ stored' = Drop(stored, o.queue \ kept)
           /\ Replace(o, [o EXCEPT !.queue = {}, !.updated = o.queue \ kept,
                                   !.failed = kept])
    /\ BarRests
    /\ UNCHANGED <<cards, busy, menu, ratingCalls, refetch, blurred, clicks>>

\* Mutant: every image of the request leaves the grid.
PrunedAll(o) == o.ids
Pruned(o) == o.updated

\* What went leaves the grid and the selection; with no failure select mode
\* ends, and whatever was selected meanwhile with it.
DeleteEnds ==
    /\ \E o \in ops :
         /\ o.kind = "delete" /\ o.queue = {}
         /\ cards' = Drop(cards, Pruned(o))
         /\ confirming' = FALSE
         /\ IF o.failed = {} THEN selected' = {} /\ selectMode' = FALSE
            ELSE selected' = selected \ Pruned(o) /\ UNCHANGED selectMode
         /\ ops' = ops \ {o}
    /\ busy' = "none"
    /\ UNCHANGED <<stored, menu, ratingCalls, refetch, blurred, clicks, faults>>

\* The answer is lost: every image counts as failed and stays.
DeleteAnswerLost ==
    /\ Fault
    /\ \E o \in ops : o.kind = "delete" /\ ops' = ops \ {o}
    /\ busy' = "none" /\ confirming' = FALSE
    /\ UNCHANGED <<stored, cards, selectMode, selected, menu, ratingCalls, refetch,
                   blurred, clicks>>

-----------------------------------------------------------------------------
(* The viewer's stars, and a fresh search.                                 *)

RateImage ==
    /\ Click
    /\ \E p \in DOMAIN cards, n \in Ratings :
         /\ ratingCalls' = ratingCalls \cup
              {[of |-> p, at |-> clicks, value |-> n, taken |-> FALSE]}
         /\ blurred' = Raced({p}, "rating")
    /\ BarRests
    /\ UNCHANGED <<stored, cards, busy, menu, ops, refetch, faults>>

\* A refused rating is forgotten without a word.
RatingTaken ==
    /\ \E c \in ratingCalls :
         /\ ~c.taken
         /\ IF c.of \in DOMAIN stored
            THEN /\ stored' = [stored EXCEPT ![c.of].rating = c.value]
                 /\ ratingCalls' = (ratingCalls \ {c}) \cup {[c EXCEPT !.taken = TRUE]}
                 /\ blurred' = BlurAnswers(c.of, "rating")
            ELSE ratingCalls' = ratingCalls \ {c} /\ UNCHANGED <<stored, blurred>>
    /\ BarRests
    /\ UNCHANGED <<cards, busy, menu, ops, refetch, clicks, faults>>

RatingAnswered ==
    /\ \E c \in ratingCalls :
         /\ c.taken
         /\ ratingCalls' = ratingCalls \ {c}
         /\ cards' = [p \in DOMAIN cards |-> IF p = c.of
                        THEN [cards[p] EXCEPT !.rating = c.value] ELSE cards[p]]
    /\ BarRests
    /\ UNCHANGED <<stored, busy, menu, ops, refetch, blurred, clicks, faults>>

\* doFetch(false): the selection and a primed delete are dropped at once,
\* the cards when the answer comes.
FreshSearch ==
    /\ Click /\ refetch = {}
    /\ refetch' = {[answer |-> {}]}
    /\ selected' = {} /\ confirming' = FALSE
    /\ UNCHANGED <<stored, cards, selectMode, busy, menu, ops, ratingCalls, blurred, faults>>

SearchServed ==
    /\ \E f \in refetch :
         /\ f.answer = {}
         /\ \E shown \in SUBSET DOMAIN stored :
              refetch' = {[answer |-> {[p \in shown |-> stored[p]]}]}
    /\ BarRests
    /\ UNCHANGED <<stored, cards, busy, menu, ops, ratingCalls, blurred, clicks, faults>>

\* Edits that the catalog has taken but not answered will be mirrored.
SearchLands ==
    /\ \E f \in refetch : f.answer # {} /\ cards' \in f.answer
    /\ refetch' = {}
    /\ BarRests
    /\ UNCHANGED <<stored, busy, menu, ops, ratingCalls, blurred, clicks, faults>>

-----------------------------------------------------------------------------
BulkInit ==
    /\ stored = [p \in Pictures |-> Blank]
    /\ cards = [p \in FirstCards |-> Blank]
    /\ selectMode = FALSE /\ selected = {} /\ confirming = FALSE
    /\ busy = "none" /\ menu = "none"
    /\ ops = {} /\ ratingCalls = {} /\ refetch = {} /\ blurred = {}
    /\ clicks = 0 /\ faults = 0

BulkNext ==
    \/ ToggleSelect \/ SelectAll \/ ClearSelection \/ ToggleMenu
    \/ BulkFavorite \/ BulkRating \/ BulkTags \/ BulkMove
    \/ RequestDelete \/ CancelBulkDelete \/ ConfirmDelete
    \/ LaneSends \/ CatalogTakes \/ LaneAnswered \/ LaneFails \/ PatchEnds
    \/ MoveEnds \/ CatalogDeletes \/ DeleteEnds \/ DeleteAnswerLost
    \/ RateImage \/ RatingTaken \/ RatingAnswered
    \/ FreshSearch \/ SearchServed \/ SearchLands

BulkSpec == BulkInit /\ [][BulkNext]_bulkVars

-----------------------------------------------------------------------------
\* When nothing is under way for it, a card shows the rating and the tags
\* that the catalog holds, whatever part of a bulk edit failed, unless two
\* requests raced for the field or an answer was lost.
CardsShowWhatIsStored ==
    \A p \in DOMAIN cards \cap DOMAIN stored :
      /\ (<<p, "rating">> \in blurred \/ Underway(p, "rating")
            \/ cards[p].rating = stored[p].rating)
      /\ (<<p, "tags">> \in blurred \/ Underway(p, "tags") \/ cards[p].tags = stored[p].tags)

\* Every image of a bulk edit has one outcome, and is sent once
\* (bulk-patch.ts:52-53, 12-15).
OneRequestPerImage ==
    \A o \in ops :
      Patching(o) =>
        /\ o.queue \cup InFlight(o) \cup o.updated \cup o.failed = o.ids
        /\ Cardinality(o.queue) + Cardinality(InFlight(o))
             + Cardinality(o.updated \cup o.failed) = Cardinality(o.ids)

\* A card leaves the page only because a search replaced the cards or the
\* image is gone, however much of a bulk delete failed (page.tsx:598-600).
CardsLeaveWhenGone ==
    [][refetch' = refetch =>
         \A p \in DOMAIN cards \ DOMAIN cards' : p \notin DOMAIN stored]_bulkVars

=============================================================================
