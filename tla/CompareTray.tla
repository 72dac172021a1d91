----------------------------- MODULE CompareTray -----------------------------
(***************************************************************************)
(* Comparing images: the tray of picked images, kept in the tab's session  *)
(* storage (lib/store/compare-tray.tsx), the bar that shows it             *)
(* (CompareTrayBar.tsx) and the page that compares the images of its URL   *)
(* (app/library/compare/page.tsx).                                         *)
(*                                                                         *)
(* The tray is read and written by two effects of the first render: the    *)
(* write comes before what was read is rendered.  Comparisons are not      *)
(* aborted, and their answers land in any order.                           *)
(***************************************************************************)
EXTENDS Naturals, SequencesExt

CONSTANTS Picks,            \* images that can be picked
          TypedUrls,        \* the ids of URLs that are typed by hand
          MAX,              \* room in the tray
          MaxTrayClicks,    \* bound on clicks
          MaxTrayReloads    \* bound on reloads of the tab

ASSUME TrayAssumption == MAX \in Nat

VARIABLES tray,         \* the picked images, in order
          kept,         \* what session storage holds
          provider,     \* "mounting", "reading" (effects ran) or "mounted"
          compared,     \* the ids of the page's URL, or NoUrl when another page is open
          comparisons,  \* requests in flight: ids, came from the tray or by hand
          result,       \* the ids whose comparison is shown, or NoUrl
          trayClicks, reloads

trayVars == <<tray, kept, provider, compared, comparisons, result, trayClicks, reloads>>

NoUrl == <<0>>
TrayClick == provider = "mounted" /\ trayClicks < MaxTrayClicks /\ trayClicks' = trayClicks + 1

Has(i) == Contains(tray, i)
isFull == Len(tray) >= MAX

----------------------------------------------------------------------------
(* The provider.                                                           *)

\* The two mount effects: what is stored is read, and the still empty tray
\* is written.
MountEffects == /\ provider = "mounting"
                /\ tray' = SubSeq(kept, 1, IF Len(kept) > MAX THEN MAX ELSE Len(kept))
                /\ kept' = <<>>
                /\ provider' = "reading"
                /\ UNCHANGED <<compared, comparisons, result, trayClicks, reloads>>

\* The render with the tray that was read, and its write.
TrayRendered == /\ provider = "reading"
                /\ kept' = tray
                /\ provider' = "mounted"
                /\ UNCHANGED <<tray, compared, comparisons, result, trayClicks, reloads>>

ReloadTab == /\ reloads < MaxTrayReloads /\ reloads' = reloads + 1
             /\ provider' = "mounting"
             /\ tray' = <<>> /\ comparisons' = {} /\ result' = NoUrl /\ compared' = NoUrl
             /\ UNCHANGED <<kept, trayClicks>>

Put(ids) == tray' = ids /\ kept' = ids

\* add and toggle leave a full tray alone; an image is there once, so that
\* a filter takes out one at most.
ToggledUncapped(i) == IF Has(i) THEN RemoveFirst(tray, i) ELSE Append(tray, i)
Toggled(i) == IF Has(i) THEN RemoveFirst(tray, i)
              ELSE IF isFull THEN tray ELSE Append(tray, i)

ToggleTray(i) == /\ TrayClick
                 /\ Put(Toggled(i))
                 /\ UNCHANGED <<provider, compared, comparisons, result, reloads>>

RemoveFromTray(i) == /\ TrayClick /\ Has(i)
                     /\ Put(RemoveFirst(tray, i))
                     /\ UNCHANGED <<provider, compared, comparisons, result, reloads>>

ClearTray == /\ TrayClick /\ tray # <<>>
             /\ Put(<<>>)
             /\ UNCHANGED <<provider, compared, comparisons, result, reloads>>

----------------------------------------------------------------------------
(* The compare page.                                                       *)

\* The effect on the URL's ids: fewer than two are not compared, and empty
\* the page.
Compare(ids, own) ==
    /\ compared' = ids
    /\ comparisons' = IF ids = compared \/ Len(ids) < 2 THEN comparisons
                      ELSE comparisons \union {[id |-> trayClicks, ids |-> ids, ofTray |-> own]}
    /\ result' = IF Len(ids) < 2 \/ compared = NoUrl THEN NoUrl ELSE result

\* The link of the bar; it looks disabled under two images, but leads there.
CompareLink == /\ TrayClick /\ tray # <<>>
               /\ Compare(tray, TRUE)
               /\ UNCHANGED <<tray, kept, provider, reloads>>

\* A URL typed by hand may name any images.
CompareByHand(ids) == /\ TrayClick
                      /\ Compare(ids, FALSE)
                      /\ UNCHANGED <<tray, kept, provider, reloads>>

\* remove, on a compared image: out of the tray and out of the URL.
RemoveCompared(i) == /\ TrayClick
                     /\ result # NoUrl /\ Contains(result, i) /\ compared # NoUrl
                     /\ Put(RemoveFirst(tray, i))
                     /\ Compare(SelectSeq(compared, LAMBDA x : x # i), FALSE)
                     /\ UNCHANGED <<provider, reloads>>

LeaveCompare == /\ TrayClick /\ compared # NoUrl
                /\ compared' = NoUrl /\ result' = NoUrl
                /\ UNCHANGED <<tray, kept, provider, comparisons, reloads>>

\* The tool is a stub in the gateway, refused as not available; a service
\* behind it would answer a result.
ComparisonLands(c) == /\ comparisons' = comparisons \ {c}
                      /\ result' = IF compared = NoUrl THEN result ELSE c.ids
                      /\ UNCHANGED <<tray, kept, provider, compared, trayClicks, reloads>>

ComparisonRefused(c) == /\ comparisons' = comparisons \ {c}
                        /\ UNCHANGED <<tray, kept, provider, compared, result, trayClicks, reloads>>

----------------------------------------------------------------------------
TrayInit == /\ tray = <<>> /\ kept = <<>> /\ provider = "mounting"
            /\ compared = NoUrl /\ comparisons = {} /\ result = NoUrl
            /\ trayClicks = 0 /\ reloads = 0

TrayNext == \/ MountEffects \/ TrayRendered \/ ReloadTab
            \/ \E i \in Picks : ToggleTray(i) \/ RemoveFromTray(i) \/ RemoveCompared(i)
            \/ ClearTray \/ CompareLink \/ LeaveCompare
            \/ \E ids \in TypedUrls : CompareByHand(ids)
            \/ \E c \in comparisons : ComparisonLands(c) \/ ComparisonRefused(c)

TraySpec == TrayInit /\ [][TrayNext]_trayVars

----------------------------------------------------------------------------
(* Every comparison the tray asks for is one the server takes: at least two *)
(* images, each once, and no more than the schema allows (schemas.ts,       *)
(* CompareRequestSchema), whatever was toggled, removed, reloaded and read  *)
(* back from storage before.                                                *)
TrayAsksForWhatCanBeCompared ==
    \A c \in comparisons : c.ofTray => Len(c.ids) \in 2..MAX /\ IsInjective(c.ids)
=============================================================================
