------------------------------- MODULE DbPage -------------------------------
(***************************************************************************)
(* The database page of the library UI (app/admin/db/page.tsx): an         *)
(* infinite list of catalog records under a filter, an editor of the one   *)
(* that is open, and the exclusion of many at once.                        *)
(*                                                                         *)
(* The list sends one request at a time, a newer one aborting the older.   *)
(* The editor opens on the light row, without the fields the list leaves   *)
(* out, and fills in when the full record arrives; its requests are not    *)
(* aborted.  A text here stands for the fields only the full record has    *)
(* (the negative prompt).                                                  *)
(***************************************************************************)
EXTENDS Naturals, SequencesExt, FiniteSets

CONSTANTS Records,        \* images of the catalog, numbers: newest first
          DbFilters,      \* filters: the sets of images they match
          PAGE_SIZE,
          MaxDbClicks,    \* bound on the operator's clicks
          MaxDbFaults     \* bound on calls that fail

ASSUME DbAssumption ==
    /\ Records \subseteq Nat \ {0} /\ IsFiniteSet(Records)
    /\ DbFilters \subseteq SUBSET Records
    /\ PAGE_SIZE \in Nat \ {0}

VARIABLES dbStored,       \* image -> its text in the catalog, or Gone
          dbFilter,     \* the filter set in the controls
          dbRows, pages, more, loading,   \* images, pageRef, hasMore, loadingMore
          listedFor,      \* the filters the rows were listed under (a history)
          listReq,      \* the list request in flight, or NoList
          selectedRow, openedRow, editor,     \* selected, selectedShaRef, edit
          recordReqs,   \* full records asked for: [img, stage, text]
          saving, dropping,             \* a save and a delete in flight, or NoEdit
          pickedRows, excluding,            \* picked, and the ids of an exclusion in flight
          dbClicks, dbFaults

listVars == <<dbFilter, dbRows, listedFor, pages, more, loading, listReq>>
editorVars == <<selectedRow, openedRow, editor, recordReqs, saving, dropping>>
pickVars == <<pickedRows, excluding>>
dbVars == <<dbStored, listVars, editorVars, pickVars, dbClicks, dbFaults>>

None == 0
Gone == <<"gone", 0>>
BlankDb == <<"blank", 0>>
Typed == <<"typed", 0>>
Own(i) == <<"own", i>>          \* the text image i was ingested with
NoList == [stage |-> "none", reset |-> FALSE, offset |-> 0, filter |-> {}, batch |-> <<>>]
NoEdit == [img |-> None, text |-> BlankDb, stage |-> "none"]

Kept == {i \in Records : dbStored[i] # Gone}
DbClick == dbClicks < MaxDbClicks /\ dbClicks' = dbClicks + 1
DbFault == dbFaults < MaxDbFaults /\ dbFaults' = dbFaults + 1

----------------------------------------------------------------------------
(* The list.                                                               *)

\* fetchPage: the offset is taken when the request is sent, the page cursor
\* moves when it lands.
Fetch(reset, f) == /\ listReq' = [stage |-> "sent", reset |-> reset, filter |-> f, batch |-> <<>>,
                                  offset |-> IF reset THEN 0 ELSE pages * PAGE_SIZE]
                   /\ loading' = TRUE

SetFilter(f) == /\ DbClick /\ f # dbFilter
                /\ dbFilter' = f
                /\ Fetch(TRUE, f)
                /\ UNCHANGED <<dbStored, dbRows, listedFor, pages, more, editorVars, pickVars, dbFaults>>

\* The path box takes effect on Enter; until then the next page is already
\* asked for with what is typed.
TypeDbPath(f) == /\ DbClick /\ f # dbFilter
                 /\ dbFilter' = f
                 /\ UNCHANGED <<dbStored, dbRows, listedFor, pages, more, loading, listReq, editorVars, pickVars, dbFaults>>

Apply == /\ DbClick
         /\ Fetch(TRUE, dbFilter)
         /\ UNCHANGED <<dbStored, dbFilter, dbRows, listedFor, pages, more, editorVars, pickVars, dbFaults>>

ScrollDb == /\ more /\ ~loading
            /\ Fetch(FALSE, dbFilter)
            /\ UNCHANGED <<dbStored, dbFilter, dbRows, listedFor, pages, more, editorVars, pickVars, dbClicks, dbFaults>>

\* One page of what matches, in the order of the list.
Place(i, all) == Cardinality({j \in all : j <= i})
Nth(all, n) == CHOOSE i \in all : Place(i, all) = n
Batch(all, offset) ==
    LET onPage == {i \in all : Place(i, all) \in offset + 1..offset + PAGE_SIZE}
    IN [n \in 1..Cardinality(onPage) |-> Nth(all, offset + n)]

ListServed ==
    /\ listReq.stage = "sent"
    /\ listReq' = [listReq EXCEPT !.stage = "answered",
                                 !.batch = Batch(listReq.filter \intersect Kept, listReq.offset)]
    /\ UNCHANGED <<dbStored, dbFilter, dbRows, listedFor, pages, more, loading, editorVars, pickVars, dbClicks, dbFaults>>

\* A refusal is an answer without images.
ListRefused == /\ listReq.stage = "sent"
               /\ DbFault
               /\ listReq' = [listReq EXCEPT !.stage = "answered"]
               /\ UNCHANGED <<dbStored, dbFilter, dbRows, listedFor, pages, more, loading, editorVars, pickVars, dbClicks>>

PageAfterAny(req) == pages + 1
PageAfter(req) == IF req.reset THEN 1 ELSE pages + 1
ListLands == /\ listReq.stage = "answered"
             /\ more' = (Len(listReq.batch) = PAGE_SIZE)
             /\ pages' = PageAfter(listReq)
             /\ dbRows' = IF listReq.reset THEN listReq.batch ELSE dbRows \o listReq.batch
             /\ listedFor' = (IF listReq.reset THEN {} ELSE listedFor) \union {listReq.filter}
             /\ listReq' = NoList /\ loading' = FALSE
             /\ UNCHANGED <<dbStored, dbFilter, editorVars, pickVars, dbClicks, dbFaults>>

ListFails == /\ listReq.stage = "sent"
             /\ DbFault
             /\ listReq' = NoList /\ loading' = FALSE
             /\ UNCHANGED <<dbStored, dbFilter, dbRows, listedFor, pages, more, editorVars, pickVars, dbClicks>>

----------------------------------------------------------------------------
(* The editor.                                                             *)

InList(i) == \E k \in 1..Len(dbRows) : dbRows[k] = i

\* select(): the light row at once, the full record when it comes.
OpenRow(i) == /\ DbClick /\ InList(i)
              /\ selectedRow' = i /\ openedRow' = i
              /\ editor' = [img |-> i, text |-> BlankDb]
              /\ recordReqs' = recordReqs \union {[img |-> i, stage |-> "sent", text |-> BlankDb]}
              /\ UNCHANGED <<dbStored, listVars, saving, dropping, pickVars, dbFaults>>

RecordServed(r) == /\ r.stage = "sent"
                   /\ recordReqs' = (recordReqs \ {r}) \union {[r EXCEPT !.stage = "answered", !.text = dbStored[r.img]]}
                   /\ UNCHANGED <<dbStored, listVars, selectedRow, openedRow, editor, saving, dropping, pickVars, dbClicks, dbFaults>>

\* Dropped when another row was opened since, or when the record is gone.
RecordArrives(r) == /\ r.stage = "answered"
                    /\ recordReqs' = recordReqs \ {r}
                    /\ editor' = IF openedRow = r.img /\ r.text # Gone THEN [img |-> r.img, text |-> r.text] ELSE editor
                    /\ UNCHANGED <<dbStored, listVars, selectedRow, openedRow, saving, dropping, pickVars, dbClicks, dbFaults>>

EditField == /\ DbClick /\ selectedRow # None
             /\ editor' = [editor EXCEPT !.text = Typed]
             /\ UNCHANGED <<dbStored, listVars, selectedRow, openedRow, recordReqs, saving, dropping, pickVars, dbFaults>>

\* save(): every field of the editor, to the image that is selected.
Save == /\ DbClick /\ selectedRow # None /\ saving = NoEdit
        /\ saving' = [img |-> selectedRow, text |-> editor.text, stage |-> "sent"]
        /\ UNCHANGED <<dbStored, listVars, selectedRow, openedRow, editor, recordReqs, dropping, pickVars, dbFaults>>

SaveTaken == /\ saving.stage = "sent"
             /\ saving' = [saving EXCEPT !.stage = IF saving.img \in Kept THEN "done" ELSE "failed"]
             /\ dbStored' = IF saving.img \in Kept THEN [dbStored EXCEPT ![saving.img] = saving.text] ELSE dbStored
             /\ UNCHANGED <<listVars, selectedRow, openedRow, editor, recordReqs, dropping, pickVars, dbClicks, dbFaults>>

\* The answer opens the saved record again, whatever is open by now.
SaveAnswered == /\ saving.stage \in {"done", "failed"}
                /\ saving' = NoEdit
                /\ IF saving.stage = "failed" THEN UNCHANGED <<selectedRow, editor, listVars>>
                   ELSE /\ selectedRow' = saving.img
                        /\ editor' = [img |-> saving.img, text |-> saving.text]
                        /\ Fetch(TRUE, dbFilter)
                        /\ UNCHANGED <<dbFilter, dbRows, listedFor, pages, more>>
                /\ UNCHANGED <<dbStored, openedRow, recordReqs, dropping, pickVars, dbClicks, dbFaults>>

\* deleteEverywhere: the operator types the sha of the selected image.
DeleteEverywhere == /\ DbClick /\ selectedRow # None /\ dropping = NoEdit
                    /\ dropping' = [img |-> selectedRow, text |-> BlankDb, stage |-> "sent"]
                    /\ UNCHANGED <<dbStored, listVars, selectedRow, openedRow, editor, recordReqs, saving, pickVars, dbFaults>>

DropTaken == /\ dropping.stage = "sent"
             /\ dropping' = [dropping EXCEPT !.stage = IF dropping.img \in Kept THEN "done" ELSE "failed"]
             /\ dbStored' = [dbStored EXCEPT ![dropping.img] = Gone]
             /\ UNCHANGED <<listVars, selectedRow, openedRow, editor, recordReqs, saving, pickVars, dbClicks, dbFaults>>

DropAnswered == /\ dropping.stage \in {"done", "failed"}
                /\ dropping' = NoEdit
                /\ IF dropping.stage = "failed" THEN UNCHANGED <<selectedRow, editor, listVars>>
                   ELSE /\ selectedRow' = None
                        /\ editor' = [img |-> None, text |-> BlankDb]
                        /\ Fetch(TRUE, dbFilter)
                        /\ UNCHANGED <<dbFilter, dbRows, listedFor, pages, more>>
                /\ UNCHANGED <<dbStored, openedRow, recordReqs, saving, pickVars, dbClicks, dbFaults>>

----------------------------------------------------------------------------
(* The exclusion of many.                                                  *)

TogglePick(i) == /\ DbClick /\ InList(i)
                 /\ pickedRows' = IF i \in pickedRows THEN pickedRows \ {i} ELSE pickedRows \union {i}
                 /\ UNCHANGED <<dbStored, listVars, editorVars, excluding, dbFaults>>

PickAllLoaded == /\ DbClick
                 /\ pickedRows' = IF pickedRows # {} THEN {} ELSE {i \in Records : InList(i)}
                 /\ UNCHANGED <<dbStored, listVars, editorVars, excluding, dbFaults>>

NoExclusion == [ids |-> {}, gone |-> {}, open |-> None]

\* The handler keeps the row that was open when the button was pressed.
ExcludeSelected == /\ DbClick /\ pickedRows # {} /\ excluding = NoExclusion
                   /\ excluding' = [ids |-> pickedRows, gone |-> {}, open |-> selectedRow]
                   /\ UNCHANGED <<dbStored, listVars, editorVars, pickedRows, dbFaults>>

ExclusionTaken == /\ excluding.ids # {} /\ excluding.gone = {}
                  /\ \E some \in (SUBSET excluding.ids) \ {{}} :
                        /\ some = excluding.ids \/ DbFault
                        /\ some = excluding.ids => UNCHANGED dbFaults
                        /\ excluding' = [excluding EXCEPT !.gone = some]
                        /\ dbStored' = [i \in Records |-> IF i \in some THEN Gone ELSE dbStored[i]]
                  /\ UNCHANGED <<listVars, editorVars, pickedRows, dbClicks>>

\* What went away leaves the list and the picks; all of it, and the picks
\* are cleared.
ExclusionAnswered ==
    /\ excluding.gone # {}
    /\ dbRows' = SelectSeq(dbRows, LAMBDA i : i \notin excluding.gone)
    /\ pickedRows' = IF excluding.gone = excluding.ids THEN {} ELSE pickedRows \ excluding.gone
    /\ IF excluding.open \in excluding.gone
       THEN selectedRow' = None /\ editor' = [img |-> None, text |-> BlankDb]
       ELSE UNCHANGED <<selectedRow, editor>>
    /\ excluding' = NoExclusion
    /\ UNCHANGED <<dbStored, dbFilter, listedFor, pages, more, loading, listReq, openedRow, recordReqs, saving, dropping, dbClicks, dbFaults>>

----------------------------------------------------------------------------
DbInit == /\ dbStored = [i \in Records |-> Own(i)]
          /\ dbFilter = Records
          /\ dbRows = <<>> /\ listedFor = {} /\ pages = 0 /\ more = FALSE /\ loading = TRUE
          /\ listReq = [NoList EXCEPT !.stage = "sent", !.reset = TRUE, !.filter = Records]
          /\ selectedRow = None /\ openedRow = None /\ editor = [img |-> None, text |-> BlankDb]
          /\ recordReqs = {} /\ saving = NoEdit /\ dropping = NoEdit
          /\ pickedRows = {} /\ excluding = NoExclusion
          /\ dbClicks = 0 /\ dbFaults = 0

DbNext == \/ \E f \in DbFilters : SetFilter(f) \/ TypeDbPath(f)
          \/ Apply \/ ScrollDb \/ ListServed \/ ListRefused \/ ListLands \/ ListFails
          \/ \E i \in Records : OpenRow(i) \/ TogglePick(i)
          \/ \E r \in recordReqs : RecordServed(r) \/ RecordArrives(r)
          \/ EditField \/ Save \/ SaveTaken \/ SaveAnswered
          \/ DeleteEverywhere \/ DropTaken \/ DropAnswered
          \/ PickAllLoaded \/ ExcludeSelected \/ ExclusionTaken \/ ExclusionAnswered

DbSpec == DbInit /\ [][DbNext]_dbVars

----------------------------------------------------------------------------
(* While there is more to load, and nothing was excluded, the list is the   *)
(* first pages of what its filter matches, as many as its cursor counts:    *)
(* whatever requests are superseded, refused or fail, the next page asked   *)
(* for is the one that follows the rows shown, never one again and never    *)
(* one further on (page.tsx:129-165).  Rows of two filters are excepted:    *)
(* the code appends to the old rows when a path was typed and not entered,  *)
(* or when the first page of a new filter failed.                           *)
EveryPageOnce ==
    \A f \in SUBSET Records :
      more /\ Kept = Records /\ listedFor = {f} =>
        /\ Len(dbRows) = pages * PAGE_SIZE
        /\ \A n \in 1..Len(dbRows) : dbRows[n] = Nth(f, n)

(* What the editor shows is the record that Save will write to: the answer  *)
(* of another record never lands in it (page.tsx:99-101 says so of the full  *)
(* record).                                                                 *)
EditorIsOfSelected == selectedRow # None => editor.img = selectedRow
=============================================================================
