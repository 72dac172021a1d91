---------------------------- MODULE ImageDetail ----------------------------
(***************************************************************************)
(* The page of one image (comfyhelper, app/library/[imageId]/page.tsx):    *)
(* the record it loads, the side panels it fetches once the settings are   *)
(* read, the edits of the rating and of the favorite flag, the notes and   *)
(* the removal from the library.                                           *)
(*                                                                         *)
(* The page is mounted anew for every image.  A fetch is answered at any   *)
(* time, or fails; a fetch of a page that is left is not delivered.  An    *)
(* exception while the page renders takes the whole page away.             *)
(***************************************************************************)
EXTENDS Integers, FiniteSets

CONSTANTS
    Stars,              \* 0 is no rating
    NoteIds,            \* notes the user may write
    MaxDetailClicks,    \* bound: what the user does
    MaxDetailFaults     \* bound: requests that fail

VARIABLES
    record,     \* the catalog's record of the image: {} once it is removed
    storedNotes, \* its notes in the catalog
    prefs,      \* the settings the page reads, and whether they are read
    view,       \* "loading", "error", "shown", "broken" or "left"
    detail,     \* what the page shows of the record
    load,       \* the GET of the record in flight
    edits,      \* PATCHes in flight
    ratingBusy,
    panels,     \* side panels: similar, graph, related and debug
    askedSimilar, debugOpen,
    notes, noteCalls, noteSaving,
    removingIt,   \* "no", "confirming" or "deleting"
    overtook,   \* a note was written while the first list was in flight
    detailClicks, detailFaults

panelVars == <<prefs, panels, askedSimilar, debugOpen>>
noteVars == <<storedNotes, notes, noteCalls, noteSaving, overtook>>
recordVars == <<record, detail, load, edits, ratingBusy>>
detailVars == <<recordVars, panelVars, noteVars, view, removingIt, detailClicks,
                detailFaults>>

DetailClick == detailClicks < MaxDetailClicks /\ detailClicks' = detailClicks + 1
DetailFault == detailFaults < MaxDetailFaults /\ detailFaults' = detailFaults + 1
NoClick == UNCHANGED <<detailClicks, detailFaults>>

DetailPanels == {"similar", "graph", "related", "debug"}
HereDetail == view \in {"loading", "error", "shown"}

\* The fields the page renders without a test: tags, loras, descriptions.
Fields == {"tags", "loras", "descriptions"}
UiDetail(r) == [rating |-> r.rating, favorite |-> r.favorite, fields |-> Fields]

\* The catalog's own record, as a PATCH is answered: it has no loras and no
\* list of descriptions.
CatalogAnswer(r) == [UiDetail(r) EXCEPT !.fields = {"tags"}]

\* What a render does with a detail and a graph.
Rendered(d, ps) ==
    IF view # "shown" /\ d = {} THEN view
    ELSE IF (\E x \in d : x.fields # Fields) \/ ps["graph"] = "malformed"
         THEN "broken" ELSE "shown"

-----------------------------------------------------------------------------
(* The record.                                                             *)

DetailArrives ==
    /\ HereDetail /\ load = "sent" /\ record # {}
    /\ load' = "done"
    /\ detail' = {UiDetail(r) : r \in record}
    /\ view' = Rendered(detail', panels)
    /\ panels' = [panels EXCEPT !["related"] =
                    IF prefs.ready /\ prefs.related THEN "sent" ELSE "off"]
    /\ UNCHANGED <<record, edits, ratingBusy, prefs, askedSimilar, debugOpen, noteVars,
                   removingIt>>
    /\ NoClick

\* The whole page is the message from then on.
DetailFails ==
    /\ HereDetail
    /\ load = "sent"
    /\ IF record = {} THEN NoClick ELSE DetailFault /\ UNCHANGED detailClicks
    /\ load' = "done"
    /\ view' = "error"
    /\ UNCHANGED <<record, detail, edits, ratingBusy, panelVars, noteVars, removingIt>>

\* The stars: a click on the current one clears the rating.
StarsEnabled == view = "shown" /\ ~ratingBusy
RateDetail ==
    /\ DetailClick /\ StarsEnabled
    /\ \E n \in Stars \ {0}, d \in detail :
         edits' = edits \cup {[kind |-> "rating", at |-> detailClicks, answer |-> {},
                               value |-> IF d.rating = n THEN 0 ELSE n]}
    /\ ratingBusy' = TRUE
    /\ UNCHANGED <<record, detail, load, panelVars, noteVars, view, removingIt, detailFaults>>

ToggleFavorite ==
    /\ DetailClick /\ view = "shown"
    /\ \E d \in detail :
         edits' = edits \cup {[kind |-> "favorite", at |-> detailClicks, answer |-> {},
                               value |-> ~d.favorite]}
    /\ UNCHANGED <<record, detail, load, ratingBusy, panelVars, noteVars, view, removingIt,
                   detailFaults>>

Edited(r, e) ==
    IF e.kind = "rating" THEN [r EXCEPT !.rating = e.value] ELSE [r EXCEPT !.favorite = e.value]

EditTaken ==
    /\ record # {}
    /\ \E e \in edits :
         /\ e.answer = {}
         /\ record' = {Edited(r, e) : r \in record}
         /\ edits' = (edits \ {e}) \cup {[e EXCEPT !.answer = {CatalogAnswer(r) : r \in record'}]}
    /\ UNCHANGED <<detail, load, ratingBusy, panelVars, noteVars, view, removingIt>>
    /\ NoClick

\* setDetail(updated): the answer is rendered in place of the detail.
EditAnswered ==
    /\ \E e \in edits :
         /\ e.answer # {}
         /\ detail' = e.answer
         /\ edits' = edits \ {e}
         /\ ratingBusy' = IF e.kind = "rating" THEN FALSE ELSE ratingBusy
    /\ view' = IF HereDetail THEN Rendered(detail', panels) ELSE view
    /\ UNCHANGED <<record, load, panelVars, noteVars, removingIt>>
    /\ NoClick

\* A refused rating is forgotten; a refused favorite shows in the dock.
EditRefused ==
    /\ \E e \in edits :
         /\ \/ e.answer = {} /\ record = {} /\ NoClick
            \/ DetailFault /\ UNCHANGED detailClicks
         /\ edits' = edits \ {e}
         /\ ratingBusy' = IF e.kind = "rating" THEN FALSE ELSE ratingBusy
    /\ UNCHANGED <<record, detail, load, panelVars, noteVars, view, removingIt>>

-----------------------------------------------------------------------------
(* The side panels.                                                        *)

\* Until then the defaults hold: the section is shown.
WantsSimilar == prefs.ready => prefs.similar

\* The settings are read: the panels they ask for are fetched.
SettingsRead ==
    /\ HereDetail /\ ~prefs.ready
    /\ prefs' = [prefs EXCEPT !.ready = TRUE]
    /\ askedSimilar' = prefs.auto
    /\ panels' = [panels EXCEPT
         !["similar"] = IF prefs.auto /\ prefs.similar THEN "sent" ELSE "off",
         !["graph"] = IF prefs.graph THEN "sent" ELSE "off",
         !["related"] = IF prefs.related /\ detail # {} THEN "sent" ELSE "off"]
    /\ UNCHANGED <<recordVars, noteVars, view, removingIt, debugOpen>>
    /\ NoClick

LoadSimilar ==
    /\ DetailClick /\ view = "shown" /\ WantsSimilar /\ ~askedSimilar
    /\ askedSimilar' = TRUE
    /\ panels' = [panels EXCEPT !["similar"] = IF prefs.ready THEN "sent" ELSE @]
    /\ UNCHANGED <<recordVars, prefs, debugOpen, noteVars, view, removingIt, detailFaults>>

\* The first press opens the panel and fetches; a failed fetch is tried again.
LoadDebug ==
    /\ DetailClick /\ view = "shown" /\ WantsSimilar
    /\ debugOpen' = ~debugOpen
    /\ panels' = [panels EXCEPT !["debug"] = IF @ \in {"shown", "sent"} THEN @ ELSE "sent"]
    /\ UNCHANGED <<recordVars, prefs, askedSimilar, noteVars, view, removingIt, detailFaults>>

\* Nobody looks at the status of the answer, except for the debug panel, whose
\* route answers 501: the graph of an error answer has no nodes.
PanelAnswered ==
    /\ HereDetail
    /\ \E p \in DetailPanels, ok \in BOOLEAN :
         /\ panels[p] = "sent" /\ (p = "debug" => ~ok)
         /\ IF ok \/ p = "debug" THEN NoClick ELSE DetailFault /\ UNCHANGED detailClicks
         /\ panels' = [panels EXCEPT ![p] =
              CASE ok -> "shown"
                [] ~ok /\ p = "graph" -> "malformed"
                [] ~ok /\ p = "debug" -> "failed"
                [] OTHER -> "empty"]
    /\ view' = Rendered(detail, panels')
    /\ UNCHANGED <<recordVars, prefs, askedSimilar, debugOpen, noteVars, removingIt>>

-----------------------------------------------------------------------------
(* Notes: the list is fetched when the page opens, and again by each note. *)

NotesServed ==
    /\ \E c \in noteCalls :
         /\ c.step = "list" /\ ~c.read
         /\ noteCalls' = (noteCalls \ {c}) \cup {[c EXCEPT !.read = TRUE, !.rows = storedNotes]}
    /\ UNCHANGED <<recordVars, panelVars, storedNotes, notes, noteSaving, overtook, view,
                   removingIt>>
    /\ NoClick

NotesArrive ==
    /\ view # "left"
    /\ \E c \in noteCalls :
         /\ c.read
         /\ noteCalls' = noteCalls \ {c}
         /\ notes' = c.rows
         /\ noteSaving' = IF c.first THEN noteSaving ELSE noteSaving \ {c.by}
    /\ UNCHANGED <<recordVars, panelVars, storedNotes, overtook, view, removingIt>>
    /\ NoClick

\* Mutant: Enter in the box while a note is being saved.
MayAddUnchecked == view = "shown"
MayAdd == view = "shown" /\ noteSaving = {}

AddDetailNote ==
    /\ DetailClick /\ MayAdd
    /\ \E n \in NoteIds \ (storedNotes \cup {c.by : c \in noteCalls}) :
         /\ noteSaving' = noteSaving \cup {n}
         /\ noteCalls' = noteCalls \cup
              {[step |-> "post", by |-> n, first |-> FALSE, read |-> FALSE, rows |-> {}]}
    /\ overtook' = (overtook \/ \E c \in noteCalls : c.first)
    /\ UNCHANGED <<recordVars, panelVars, storedNotes, notes, view, removingIt, detailFaults>>

\* The note is stored and answered; the list is asked for again.
DetailNoteStored ==
    /\ \E c \in noteCalls :
         /\ c.step = "post"
         /\ storedNotes' = storedNotes \cup {c.by}
         /\ noteCalls' = (noteCalls \ {c}) \cup {[c EXCEPT !.step = "list"]}
    /\ UNCHANGED <<recordVars, panelVars, notes, noteSaving, overtook, view, removingIt>>
    /\ NoClick

\* A failed list keeps the one on screen, except that a refused first one
\* shows no notes.  A note may be stored and its answer lost.
NoteCallFails ==
    /\ DetailFault /\ UNCHANGED detailClicks
    /\ \E c \in noteCalls :
         /\ noteCalls' = noteCalls \ {c}
         /\ notes' \in IF c.first THEN {notes, {}} ELSE {notes}
         /\ noteSaving' = IF c.first THEN noteSaving ELSE noteSaving \ {c.by}
         /\ storedNotes' \in {storedNotes} \cup
              IF c.step = "post" THEN {storedNotes \cup {c.by}} ELSE {}
         /\ overtook' = (overtook \/ c.step = "list" \/ storedNotes' # storedNotes)
    /\ UNCHANGED <<recordVars, panelVars, view, removingIt>>

-----------------------------------------------------------------------------
(* Removal, in two steps.                                                  *)

ConfirmRemoval ==
    /\ DetailClick /\ view = "shown" /\ removingIt \in {"no", "confirming"}
    /\ removingIt' = IF removingIt = "no" THEN "confirming" ELSE "no"
    /\ UNCHANGED <<recordVars, panelVars, noteVars, view, detailFaults>>

RemoveFromLibrary ==
    /\ DetailClick /\ view = "shown" /\ removingIt = "confirming"
    /\ removingIt' = "deleting"
    /\ UNCHANGED <<recordVars, panelVars, noteVars, view, detailFaults>>

\* The page is left when the catalog has removed the image.
Removed ==
    /\ removingIt = "deleting" /\ record # {}
    /\ record' = {}
    /\ removingIt' = "no"
    /\ view' = "left"
    /\ UNCHANGED <<detail, load, edits, ratingBusy, panelVars, noteVars>>
    /\ NoClick

\* A 404 as much as an unreachable gateway: the controls come back.
RemovalFails ==
    /\ removingIt = "deleting"
    /\ IF record = {} THEN NoClick ELSE DetailFault /\ UNCHANGED detailClicks
    /\ removingIt' = "no"
    /\ UNCHANGED <<recordVars, panelVars, noteVars, view>>

\* Another window, or a worker, removes the image.
RemovedByOthers ==
    /\ record # {} /\ DetailFault /\ UNCHANGED detailClicks
    /\ record' = {}
    /\ UNCHANGED <<detail, load, edits, ratingBusy, panelVars, noteVars, view, removingIt>>

-----------------------------------------------------------------------------
DetailInit ==
    /\ record = {[rating |-> 0, favorite |-> FALSE]}
    /\ storedNotes = {}
    /\ prefs \in [ready : {FALSE}, auto : BOOLEAN, similar : BOOLEAN, graph : BOOLEAN,
                  related : {TRUE}]
    /\ view = "loading" /\ detail = {} /\ load = "sent"
    /\ edits = {} /\ ratingBusy = FALSE
    /\ panels = [p \in DetailPanels |-> "off"] /\ askedSimilar = FALSE /\ debugOpen = FALSE
    /\ notes = {} /\ noteSaving = {}
    /\ noteCalls = {[step |-> "list", by |-> 0, first |-> TRUE, read |-> FALSE, rows |-> {}]}
    /\ removingIt = "no" /\ overtook = FALSE
    /\ detailClicks = 0 /\ detailFaults = 0

DetailNext ==
    \/ DetailArrives \/ DetailFails
    \/ RateDetail \/ ToggleFavorite \/ EditTaken \/ EditAnswered \/ EditRefused
    \/ SettingsRead \/ LoadSimilar \/ LoadDebug \/ PanelAnswered
    \/ NotesServed \/ NotesArrive \/ AddDetailNote \/ DetailNoteStored \/ NoteCallFails
    \/ ConfirmRemoval \/ RemoveFromLibrary \/ Removed \/ RemovalFails \/ RemovedByOthers

DetailSpec == DetailInit /\ [][DetailNext]_detailVars

-----------------------------------------------------------------------------
\* Once nothing is in flight, the notes on the page are the notes of the
\* image, unless one was written before the first list arrived or a list
\* was lost.
NotesAreStored ==
    HereDetail /\ noteCalls = {} /\ ~overtook => notes = storedNotes

=============================================================================
