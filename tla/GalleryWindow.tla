--------------------------- MODULE GalleryWindow ---------------------------
(***************************************************************************)
(* The sliding window of the media grid (deedlit.dev.ui/src/Gallery.tsx):  *)
(* of a long list only a slice around the viewport is mounted, the rest is *)
(* two spacers.  The slice is derived from what is measured in the page,   *)
(* at most once per frame, and redrawing moves what was measured.          *)
(*                                                                         *)
(* Lengths are in rows, all of one height, and a row is on screen or not.  *)
(* A frame that is pending keeps the number of items of the render that    *)
(* asked for it; the resize observer, attached anew by every render that   *)
(* changes the number, asks for one more after it.                         *)
(***************************************************************************)
EXTENDS Integers, FiniteSetsExt

CONSTANTS PageSize,        \* windowing.pageSize
          WindowPages,     \* windowing.pages
          ViewRows,        \* rows the viewport shows
          ListLengths,     \* lengths the list can have
          ColumnCounts,    \* columns the grid can have
          MaxWindowMoves   \* bound on scrolls, resizes and new lists

windowCount == WindowPages * PageSize
behindCount == ((WindowPages - 1) \div 2) * PageSize

\* A window holds what its pages behind and the viewport need, with rows to
\* spare for what a measure is off by.
ASSUME WindowAssumption ==
    /\ PageSize \in Nat /\ WindowPages \in Nat /\ ViewRows \in Nat
    /\ ListLengths \subseteq Nat /\ ColumnCounts \subseteq Nat \ {0}
    /\ \A c \in ColumnCounts :
         c =< behindCount /\ behindCount + (ViewRows + 3) * c =< windowCount

VARIABLES length,      \* items.length
          columns,     \* columns of the layout
          slice,       \* range: [start, end]
          geom,        \* geomRef.cols, or NotMeasured
          topSpacer, bottomSpacer,
          scroll,      \* the first row of the viewport
          frame,       \* the frame that is pending: items.length of its closure, or NoFrame
          observes,    \* the resize observer was attached anew: it reports once by itself
          windowMoves

windowVars == <<length, columns, slice, geom, topSpacer, bottomSpacer, scroll, frame, observes, windowMoves>>

NotMeasured == 0
NoFrame == -1
Enabled(n) == n > windowCount

Larger(a, b) == Max({a, b})
Smaller(a, b) == Min({a, b})
RowsOf(n, c) == (n + c - 1) \div c
WindowMove == windowMoves < MaxWindowMoves /\ windowMoves' = windowMoves + 1

----------------------------------------------------------------------------
(* What is drawn, and what is measured of it.                              *)

\* The slice that is mounted of n items: winStart and winEnd.
Shown(r, n) == IF ~Enabled(n) THEN [start |-> 0, end |-> n]
               ELSE IF r.end > r.start THEN [r EXCEPT !.end = Smaller(@, n)]
               ELSE [start |-> 0, end |-> Smaller(n, windowCount)]

MountedOf(r, n) == Larger(0, Shown(r, n).end - Shown(r, n).start)

Spacers(r, n, g) == IF g = NotMeasured \/ ~Enabled(n) THEN [top |-> 0, bottom |-> 0]
                    ELSE [top |-> Shown(r, n).start \div g, bottom |-> RowsOf(Larger(0, n - Shown(r, n).end), g)]

HeightOf(r, n, s, c) == s.top + RowsOf(MountedOf(r, n), c) + s.bottom

\* A render: the spacers follow the last measure, the browser keeps the
\* viewport inside the page.
Draw(r, n, g, c) == LET s == Spacers(r, n, g)
                        h == HeightOf(r, n, s, c)
                    IN [spacers |-> s, height |-> h, scroll |-> Smaller(scroll, Larger(0, h - ViewRows))]

Height == HeightOf(slice, length, [top |-> topSpacer, bottom |-> bottomSpacer], columns)

Drawn(r, n, g, c) == LET d == Draw(r, n, g, c)
                     IN /\ length' = n /\ slice' = r /\ geom' = g /\ columns' = c
                        /\ topSpacer' = d.spacers.top /\ bottomSpacer' = d.spacers.bottom
                        /\ scroll' = d.scroll

StartAt(vf, n, c) == LET s == Larger(0, Smaller(vf - behindCount, n - windowCount))
                     IN s - (s % c)

\* recompute() of a closure with n items, of the page with the slice r drawn
\* at the given top and scroll: columns and rows are read off the cards.
Measured(r, m) == Larger(1, Smaller(columns, m))
Recomputed(n, r, m, top, sc) ==
    IF ~Enabled(n) THEN [start |-> 0, end |-> n]
    ELSE LET c == Measured(r, m)
             start == StartAt(Larger(0, r.start + (sc - top) * c), n, c)
         IN [start |-> start, end |-> Smaller(n, start + windowCount)]

Scheduled(n) == IF frame = NoFrame THEN n ELSE frame

----------------------------------------------------------------------------
(* The events.                                                             *)

ScrollTo(row) == /\ WindowMove
                 /\ row # scroll /\ row + ViewRows <= Larger(Height, ViewRows)
                 /\ scroll' = row
                 /\ frame' = IF Enabled(length) THEN Scheduled(length) ELSE frame
                 /\ UNCHANGED <<length, columns, slice, geom, topSpacer, bottomSpacer, observes>>

\* The grid reflows; the spacers stay as they were drawn.
Resize(c) == /\ WindowMove
             /\ c # columns
             /\ columns' = c
             /\ LET h == HeightOf(slice, length, [top |-> topSpacer, bottom |-> bottomSpacer], c)
                IN scroll' = Smaller(scroll, Larger(0, h - ViewRows))
             /\ frame' = IF Enabled(length) THEN Scheduled(length) ELSE frame
             /\ UNCHANGED <<length, slice, geom, topSpacer, bottomSpacer, observes>>

\* The resize observer asks for another frame: it was attached anew, or the
\* grid's height changed.
AgainNever(taller) == FALSE
Again(taller) == Enabled(length) /\ (observes \/ taller)

\* The frame runs: a measure, and a render when the slice moves.
FrameRuns == /\ frame # NoFrame
             /\ LET m == MountedOf(slice, length)
                    r == Recomputed(frame, Shown(slice, length), m, topSpacer, scroll)
                    g == IF Enabled(frame) /\ m > 0 THEN Measured(slice, m) ELSE geom
                    moved == m > 0 /\ r # slice
                    taller == moved /\ Draw(r, length, g, columns).height # Height
                IN /\ IF moved THEN Drawn(r, length, g, columns)
                      ELSE geom' = g /\ UNCHANGED <<length, columns, slice, topSpacer, bottomSpacer, scroll>>
                   /\ frame' = IF Again(taller) THEN length ELSE NoFrame
             /\ observes' = FALSE
             /\ UNCHANGED windowMoves

\* The page renders the grid again for a reason of its own.
Rerendered == /\ Draw(slice, length, geom, columns).spacers # [top |-> topSpacer, bottom |-> bottomSpacer]
              /\ Drawn(slice, length, geom, columns)
              /\ frame' = Scheduled(length)
              /\ UNCHANGED <<observes, windowMoves>>

\* More of the same list, or less of it: the layout effect measures at once.
ListGrows(n) ==
    /\ WindowMove /\ n # length
    /\ observes' = Enabled(n)
    /\ LET d == Draw(slice, n, geom, columns)
           m == MountedOf(slice, n)
           r == IF ~Enabled(n) THEN [start |-> 0, end |-> n]
                ELSE IF m = 0 THEN slice
                ELSE Recomputed(n, Shown(slice, n), m, d.spacers.top, d.scroll)
           g == IF Enabled(n) /\ m > 0 THEN Measured(slice, m) ELSE geom
       IN Drawn(r, n, g, columns)
    /\ frame' = IF Enabled(n) THEN Scheduled(n) ELSE frame

\* Another list, or one with a new first item: back to the top.
ListReplaced(n) ==
    /\ WindowMove
    /\ observes' = ((observes \/ n # length) /\ Enabled(n))
    /\ Drawn([start |-> 0, end |-> Smaller(n, windowCount)], n, geom, columns)
    /\ frame' = IF Enabled(n) THEN Scheduled(n) ELSE frame

----------------------------------------------------------------------------
WindowInit == /\ length \in ListLengths /\ columns \in ColumnCounts
              /\ slice = [start |-> 0, end |-> Smaller(length, windowCount)]
              /\ geom = NotMeasured /\ topSpacer = 0 /\ bottomSpacer = 0
              /\ scroll = 0
              /\ frame = IF Enabled(length) THEN length ELSE NoFrame
              /\ observes = Enabled(length)
              /\ windowMoves = 0

WindowNext == \/ \E row \in 0..Height : ScrollTo(row)
              \/ \E c \in ColumnCounts : Resize(c)
              \/ FrameRuns \/ Rerendered
              \/ \E n \in ListLengths : ListGrows(n) \/ ListReplaced(n)

WindowSpec == WindowInit /\ [][WindowNext]_windowVars

----------------------------------------------------------------------------
(* The rows on screen that are spacer: no card is mounted there.           *)
BlankRows == {q \in scroll..Smaller(scroll + ViewRows, Height) - 1 :
                 q < topSpacer \/ q >= topSpacer + RowsOf(MountedOf(slice, length), columns)}

(* A frame reads the columns off the cards: off a row of them, at least.    *)
RowMounted == Enabled(length) => MountedOf(slice, length) >= columns

ViewIsFilled == BlankRows # {} =>
    /\ length - Shown(slice, length).end < columns
    /\ \A q \in BlankRows : q >= topSpacer + RowsOf(MountedOf(slice, length), columns)

(* When the last frame has run, the window overlaps the viewport: whatever  *)
(* scrolls, resizes and lists came together, the only thing blank on screen *)
(* is what is left of the last row of the list.  A list that got shorter    *)
(* than the start of the slice has no card to measure, and stays blank      *)
(* until it grows or another takes its place.                               *)
OnlyTheEndIsBlank == [][RowMounted /\ frame' = NoFrame => ViewIsFilled']_windowVars

=============================================================================
