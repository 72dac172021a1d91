----------------------------- MODULE BulkExport -----------------------------
(***************************************************************************)
(* "Export details" of the library page: the selected images, the export   *)
(* request (bulk-export.ts), the route that reads the catalog record of    *)
(* every id through lanes that share a queue (export/route.ts), and the    *)
(* file and the message the page makes of the answer.                      *)
(***************************************************************************)
EXTENDS Integers, SequencesExt

CONSTANTS
    Exportable,       \* images on the page
    Kinds,            \* flavours of an export
    LANES,            \* reads of one export in flight at once (6 in the code)
    MAX_IDS,          \* ids one request may name (500 in the code)
    MaxExportClicks,  \* bound: what the user does
    MaxExportFaults   \* bound: reads and requests that fail

ASSUME ExportAssumption == LANES \in Nat \ {0} /\ MAX_IDS \in Nat

NoExport == [step |-> "none"]
NoFile == [kind |-> "none", images |-> <<>>, wrapped |-> FALSE]
Silent == [kind |-> "none", asked |-> <<>>, count |-> 0, failed |-> {}]

VARIABLES
    held,       \* images the catalog has
    picked,     \* selected: the order in which they were picked
    export,     \* the export under way
    file,       \* the last file downloaded
    message,    \* the notice or error line under the bar
    exportClicks, exportFaults

exportVars == <<held, picked, export, file, message, exportClicks, exportFaults>>

ExportClick == exportClicks < MaxExportClicks /\ exportClicks' = exportClicks + 1
ExportFault == exportFaults < MaxExportFaults /\ exportFaults' = exportFaults + 1

-----------------------------------------------------------------------------
(* The page.                                                               *)

\* The selection stays free while an export runs.
PickForExport ==
    /\ ExportClick
    /\ \/ \E p \in Exportable \ ToSet(picked) : picked' = Append(picked, p)
       \/ \E i \in DOMAIN picked : picked' = RemoveAt(picked, i)
    /\ UNCHANGED <<held, export, file, message, exportFaults>>

\* The item of the export menu, which opens unless nothing is selected or an
\* action runs.
StartExport ==
    /\ ExportClick /\ export = NoExport /\ picked # <<>>
    /\ \E k \in Kinds : export' = [step |-> "asked", kind |-> k, ids |-> picked]
    /\ message' = Silent
    /\ UNCHANGED <<held, picked, file, exportFaults>>

\* What the file holds: the whole answer, its records alone, or a projection
\* of them; a kind that wraps the records keeps the errors with them.
FileOf(kind, images) == [kind |-> kind, images |-> images, wrapped |-> kind = "complete-json"]

\* A file when at least one record came; an error line when one did not.
Downloaded ==
    /\ export.step = "answered"
    /\ file' = IF export.images = <<>> THEN file ELSE FileOf(export.kind, export.images)
    /\ message' = [kind |-> IF export.errors = <<>> THEN "notice" ELSE "error",
                   asked |-> export.ids, count |-> Len(export.images),
                   failed |-> {export.errors[i].id : i \in DOMAIN export.errors}]
    /\ export' = NoExport
    /\ UNCHANGED <<held, picked, exportClicks, exportFaults>>

\* The request is refused, or its answer is lost: exportImages throws.
ExportThrows ==
    /\ \/ export.step = "refused" /\ UNCHANGED exportFaults
       \/ export.step \in {"asked", "answered"} /\ ExportFault
    /\ message' = [Silent EXCEPT !.kind = "error"]
    /\ export' = NoExport
    /\ UNCHANGED <<held, picked, file, exportClicks>>

-----------------------------------------------------------------------------
(* The route.                                                              *)

\* A lane that is free claims the first id of the queue, or ends.
Drained(e, l) ==
    IF e.queue = <<>> THEN [e EXCEPT !.reading = [@ EXCEPT ![l] = <<>>]]
    ELSE [e EXCEPT !.reading = [@ EXCEPT ![l] = <<Head(e.queue)>>], !.queue = Tail(@)]

\* A plausible bug: a lane ends at its first failure.
ClaimUntilFailure(e, l, ok) ==
    IF ok THEN Drained(e, l) ELSE [e EXCEPT !.reading = [@ EXCEPT ![l] = <<>>]]
\* Lane l is done with its id, read or not, and goes on.
Claim(e, l, ok) == Drained(e, l)

\* The schema refuses more than MAX_IDS ids as a whole.
RouteTakes ==
    /\ export.step = "asked"
    /\ LET lanes == Min({LANES, Len(export.ids)})
           opened == [step |-> "reading", kind |-> export.kind, ids |-> export.ids,
                      queue |-> SubSeq(export.ids, lanes + 1, Len(export.ids)),
                      reading |-> [l \in 1..lanes |-> <<export.ids[l]>>],
                      images |-> <<>>, errors |-> <<>>]
       IN  export' = IF Len(export.ids) > MAX_IDS THEN [step |-> "refused"] ELSE opened
    /\ UNCHANGED <<held, picked, file, message, exportClicks, exportFaults>>

\* fetchOne: the record, or a line of the errors; the lane goes on.
ReadOne ==
    /\ export.step = "reading"
    /\ \E l \in DOMAIN export.reading :
         /\ export.reading[l] # <<>>
         /\ LET id == export.reading[l][1] IN
            \/ /\ id \in held
               /\ export' = Claim([export EXCEPT !.images = Append(@, id)], l, TRUE)
               /\ UNCHANGED exportFaults
            \/ /\ IF id \in held THEN ExportFault ELSE UNCHANGED exportFaults
               /\ export' = Claim([export EXCEPT
                     !.errors = Append(@, [id |-> id, why |-> IF id \in held THEN "failed"
                                                              ELSE "not found"])], l, FALSE)
    /\ UNCHANGED <<held, picked, file, message, exportClicks>>

\* Promise.all: every lane has ended.
RouteAnswers ==
    /\ export.step = "reading"
    /\ \A l \in DOMAIN export.reading : export.reading[l] = <<>>
    /\ export' = [step |-> "answered", kind |-> export.kind, ids |-> export.ids,
                  images |-> export.images, errors |-> export.errors]
    /\ UNCHANGED <<held, picked, file, message, exportClicks, exportFaults>>

\* Somebody un-indexes an image meanwhile.
LeavesTheCatalog ==
    /\ \E p \in held : held' = held \ {p}
    /\ UNCHANGED <<picked, export, file, message, exportClicks, exportFaults>>

-----------------------------------------------------------------------------
ExportInit ==
    /\ held = Exportable /\ picked = <<>> /\ export = NoExport
    /\ file = NoFile /\ message = Silent /\ exportClicks = 0 /\ exportFaults = 0

ExportNext ==
    \/ PickForExport \/ StartExport \/ Downloaded \/ ExportThrows
    \/ RouteTakes \/ ReadOne \/ RouteAnswers \/ LeavesTheCatalog

ExportSpec == ExportInit /\ [][ExportNext]_exportVars

-----------------------------------------------------------------------------
\* Between them, the file and the error line account for every image that was
\* asked for, once each, and a success line means that the file has them all:
\* the lanes may finish in any order and fail on any id, and images may leave
\* the catalog during the export (page.tsx:757-805, export/route.ts:20-57).
ExportAccountsForAll ==
    message.asked # <<>> =>
        LET saved == IF message.count = 0 THEN <<>> ELSE file.images
        IN  /\ IsInjective(saved) /\ message.count = Len(saved)
            /\ ToSet(saved) \cap message.failed = {}
            /\ ToSet(saved) \cup message.failed = ToSet(message.asked)
            /\ message.kind = "notice" => ToSet(saved) = ToSet(message.asked)
=============================================================================
