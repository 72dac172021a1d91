---------------------------- MODULE FolderGroups ----------------------------
(***************************************************************************)
(* The result grid of the library page, flat or split by source directory  *)
(* (page.tsx): the order in which rows are drawn, the collapsible sections *)
(* with their totals, and the index a click on a card hands to the viewer. *)
(*                                                                         *)
(* The search itself is LibraryBrowse; here its answers are any rows in    *)
(* any order.                                                              *)
(***************************************************************************)
EXTENDS Integers, SequencesExt

CONSTANTS
    Pics,           \* images
    FolderOf,       \* image -> its directory
    StarsOf,        \* image -> its rating
    Sorts,          \* sort modes the settings may hold
    MaxGridClicks,  \* bound: what the user does
    MaxGridFaults   \* bound: requests that fail

FolderKeys == {FolderOf[p] : p \in Pics}
BrowseSorts == {"newest", "rating_desc", "rating_asc"}
SearchSorts == {"relevance", "rating_desc", "rating_asc"}
NoTotals == [f \in {} |-> 0]

VARIABLES
    rows,           \* results
    queryTyped,     \* the search box holds a text, searched for or not
    sortMode, groupBy,
    collapsedDirs,
    dirTotals, totalsCall,  \* per-folder totals and the request for them
    opened,         \* the card clicked last and the image the viewer got
    gridClicks, gridFaults

groupVars == <<rows, queryTyped, sortMode, groupBy, collapsedDirs, dirTotals, totalsCall,
              opened, gridClicks, gridFaults>>

GridClick == gridClicks < MaxGridClicks /\ gridClicks' = gridClicks + 1

-----------------------------------------------------------------------------
(* What is drawn.                                                          *)

\* The first option stands in for a sort the path does not offer.
SortValue(typed, sort) ==
    LET offered == IF typed THEN SearchSorts ELSE BrowseSorts
    IN  IF sort \in offered THEN sort ELSE IF typed THEN "relevance" ELSE "newest"

\* Places of the list, from the first in an order to the last.
Ranked(at, before(_, _)) ==
    [k \in 1..Cardinality(at) |->
        CHOOSE i \in at : Cardinality({j \in at : before(j, i)}) = k - 1]

\* Search results are re-ordered here by rating, and keep their order else.
DisplayResults ==
    LET by == SortValue(queryTyped, sortMode)
        less(i, j) ==
            LET a == StarsOf[rows[i]]  b == StarsOf[rows[j]]
            IN  IF a = b THEN i < j ELSE IF by = "rating_desc" THEN a > b ELSE a < b
        order == Ranked(DOMAIN rows, less)
    IN  IF ~queryTyped \/ by \notin {"rating_desc", "rating_asc"} THEN rows
        ELSE [k \in DOMAIN order |-> rows[order[k]]]

\* Only browse results know their directory.
GroupingOf(typed, by) == ~typed /\ by = "folder"
Grouping == GroupingOf(queryTyped, groupBy)

\* The folders in order of first appearance, and the rows of one.
SectionKeys ==
    LET firsts == {i \in DOMAIN DisplayResults : \A j \in 1..(i - 1) :
                      FolderOf[DisplayResults[j]] # FolderOf[DisplayResults[i]]}
        order == Ranked(firsts, <)
    IN  [k \in DOMAIN order |-> FolderOf[DisplayResults[order[k]]]]
ItemsOf(f) ==
    LET order == Ranked({i \in DOMAIN DisplayResults : FolderOf[DisplayResults[i]] = f}, <)
    IN  [k \in DOMAIN order |-> DisplayResults[order[k]]]
SectionItems(k) == ItemsOf(SectionKeys[k])

\* The items of the sections before the k-th.
\* A plausible bug: a collapsed section counts for nothing.
StartOffsetOfShown(k) ==
    LET offset[j \in 1..k] ==
          IF j = 1 THEN 0
          ELSE offset[j - 1] + IF SectionKeys[j - 1] \in collapsedDirs THEN 0
                               ELSE Len(SectionItems(j - 1))
    IN  offset[k]
StartOffset(k) ==
    LET offset[j \in 1..k] == IF j = 1 THEN 0 ELSE offset[j - 1] + Len(SectionItems(j - 1))
    IN  offset[k]

\* The list behind the viewer.
GalleryItems ==
    IF Grouping THEN FlattenSeq([k \in DOMAIN SectionKeys |-> SectionItems(k)])
    ELSE DisplayResults

-----------------------------------------------------------------------------
\* The sections whose grid is drawn.
SectionsShown == {k \in DOMAIN SectionKeys : SectionKeys[k] \notin collapsedDirs}

\* A click on a card: its place in the grid it is drawn in, plus the offset
\* of that grid, is the index the viewer opens.
OpenFromGrid ==
    /\ GridClick
    /\ IF Grouping
       THEN \E k \in SectionsShown :
              \E i \in DOMAIN SectionItems(k) :
                   opened' = [card |-> <<SectionItems(k)[i]>>,
                              image |-> <<GalleryItems[StartOffset(k) + i]>>]
       ELSE \E i \in DOMAIN DisplayResults :
              opened' = [card |-> <<DisplayResults[i]>>, image |-> <<GalleryItems[i]>>]
    /\ UNCHANGED <<rows, queryTyped, sortMode, groupBy, collapsedDirs, dirTotals,
                   totalsCall, gridFaults>>

\* The effect of `grouping`: a request for the totals when it turns on, none
\* outlives it.
Totals(typed, by) ==
    totalsCall' = IF GroupingOf(typed, by) = Grouping THEN totalsCall
                  ELSE IF Grouping THEN "none" ELSE "asked"

\* A search answered, a page was appended, or the poll changed the rows.
RowsChange ==
    /\ GridClick
    /\ \E n \in 0..1 :
         \/ \E p \in Pics \ ToSet(rows) :
              rows' = IF n = 0 THEN Append(rows, p) ELSE <<p>> \o rows
         \/ n = 0 /\ rows # <<>> /\ rows' = Reverse(rows)
         \/ n = 1 /\ \E i \in DOMAIN rows : rows' = RemoveAt(rows, i)
    /\ UNCHANGED <<queryTyped, sortMode, groupBy, collapsedDirs, dirTotals, totalsCall,
                   opened, gridFaults>>

\* The text decides at once between the paths, before it is searched for.
TypeQuery ==
    /\ GridClick /\ queryTyped' = ~queryTyped
    /\ Totals(~queryTyped, groupBy)
    /\ UNCHANGED <<rows, sortMode, groupBy, collapsedDirs, dirTotals, opened, gridFaults>>

\* Browsing searches again for a new order: that answer is a RowsChange.
PickSort ==
    /\ GridClick
    /\ sortMode' \in (Sorts \ {sortMode}) \cap (IF queryTyped THEN SearchSorts ELSE BrowseSorts)
    /\ UNCHANGED <<rows, queryTyped, groupBy, collapsedDirs, dirTotals, totalsCall,
                   opened, gridFaults>>

ToggleGroups ==
    /\ GridClick /\ ~queryTyped
    /\ groupBy' = IF groupBy = "folder" THEN "none" ELSE "folder"
    /\ Totals(queryTyped, groupBy')
    /\ UNCHANGED <<rows, queryTyped, sortMode, collapsedDirs, dirTotals, opened, gridFaults>>

\* A folder that is collapsed stays so when its rows go and come back.
ToggleDir ==
    /\ GridClick /\ Grouping
    /\ \E f \in ToSet(SectionKeys) :
         collapsedDirs' = IF f \in collapsedDirs THEN collapsedDirs \ {f}
                          ELSE collapsedDirs \cup {f}
    /\ UNCHANGED <<rows, queryTyped, sortMode, groupBy, dirTotals, totalsCall, opened,
                   gridFaults>>

\* An error answer reads as no totals; a request that fails changes nothing.
TotalsAnswered ==
    /\ totalsCall = "asked" /\ totalsCall' = "none"
    /\ \/ /\ dirTotals' = [f \in FolderKeys |-> Cardinality({p \in Pics : FolderOf[p] = f})]
          /\ UNCHANGED gridFaults
       \/ /\ gridFaults < MaxGridFaults /\ gridFaults' = gridFaults + 1
          /\ dirTotals' \in {NoTotals, dirTotals}
    /\ UNCHANGED <<rows, queryTyped, sortMode, groupBy, collapsedDirs, opened, gridClicks>>

-----------------------------------------------------------------------------
GridInit ==
    /\ rows = <<>> /\ queryTyped = FALSE /\ sortMode \in Sorts
    /\ groupBy \in {"none", "folder"}
    /\ collapsedDirs = {} /\ dirTotals = NoTotals
    /\ totalsCall = IF groupBy = "folder" THEN "asked" ELSE "none"
    /\ opened = [card |-> <<>>, image |-> <<>>]
    /\ gridClicks = 0 /\ gridFaults = 0

GridNext ==
    \/ OpenFromGrid \/ RowsChange \/ TypeQuery \/ PickSort \/ ToggleGroups \/ ToggleDir
    \/ TotalsAnswered

GridSpec == GridInit /\ [][GridNext]_groupVars

-----------------------------------------------------------------------------
\* The viewer opens on the card that was clicked, in every sort, split by
\* folder or not, with folders collapsed (page.tsx:1158-1204, 1262-1284):
\* the grid and the viewer index one list.
CardsOpenThemselves == opened.image = opened.card
=============================================================================
