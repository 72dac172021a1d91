--------------------------- MODULE MCLibraryPages ---------------------------
(***************************************************************************)
(* The parts of the library page that keep a state of their own, and the   *)
(* page of one image, side by side: the viewer, the bulk edits, the        *)
(* export, the tag box, the grid with its folder groups, and the detail    *)
(* page. A behaviour stays on one of them, which shares no state with the  *)
(* others in these models, so that the states are the sum of theirs; the   *)
(* others stay in one of their initial states.                             *)
(***************************************************************************)
EXTENDS Lightbox, BulkEdit, BulkExport, TagSelect, FolderGroups, ImageDetail, TLC

VARIABLE page     \* the page that is open

sumVars == <<page, viewerVars, bulkVars, exportVars, tagVars, groupVars,
        detailVars>>

OnViewer == page = "viewer"
OnlyViewer == UNCHANGED <<page, bulkVars, exportVars, tagVars, groupVars,
        detailVars>>
OnBulk == page = "bulk"
OnlyBulk == UNCHANGED <<page, viewerVars, exportVars, tagVars, groupVars,
        detailVars>>
OnExport == page = "export"
OnlyExport == UNCHANGED <<page, viewerVars, bulkVars, tagVars, groupVars,
        detailVars>>
OnTags == page = "tags"
OnlyTags == UNCHANGED <<page, viewerVars, bulkVars, exportVars, groupVars,
        detailVars>>
OnGroups == page = "groups"
OnlyGroups == UNCHANGED <<page, viewerVars, bulkVars, exportVars, tagVars,
        detailVars>>
OnDetail == page = "detail"
OnlyDetail == UNCHANGED <<page, viewerVars, bulkVars, exportVars, tagVars,
        groupVars>>

Still == [loop |-> FALSE, shuffle |-> FALSE]
MCSearches == {<<2>>, <<3, 1>>}
MCKeyOf == ("" :> "") @@ ("a" :> "a") @@ ("A" :> "a") @@ ("ab" :> "ab")
MCPrefixMatches == ("" :> <<"ab", "A">>) @@ ("a" :> <<"ab", "A">>)
MCCatalog == <<"A", "ab">>
MCWithin == "a" :> {"a", "ab"}
MCFolderOf == [p \in Pics |-> IF p = 2 THEN "d2" ELSE "d1"]
MCStarsOf == [p \in Pics |-> p % 2]

SumInit ==
    /\ page \in {"viewer", "bulk", "export", "tags", "groups", "detail"}
    /\ ViewerInit
    /\ page # "viewer" => pageCall = "none" /\ pendingView = Nobody /\ slideshow = Still
    /\ GridInit
    /\ page # "groups" => sortMode = "newest" /\ groupBy = "none"
    /\ DetailInit
    /\ page # "detail" => ~prefs.auto /\ ~prefs.similar /\ ~prefs.graph
    /\ BulkInit /\ ExportInit /\ TagInit

ViewerSteps ==
    \/ (OnViewer /\ OpenCard /\ OnlyViewer) \/ (OnViewer /\ ConsumeView /\ OnlyViewer)
    \/ (OnViewer /\ Close /\ OnlyViewer) \/ (OnViewer /\ FindSimilarHere /\ OnlyViewer)
    \/ (OnViewer /\ ToggleFullscreen /\ OnlyViewer)
    \/ (OnViewer /\ GoForward /\ OnlyViewer) \/ (OnViewer /\ GoBack /\ OnlyViewer)
    \/ (OnViewer /\ Tick /\ OnlyViewer) \/ (OnViewer /\ Jump /\ OnlyViewer)
    \/ (OnViewer /\ PlayPause /\ OnlyViewer) \/ (OnViewer /\ Autoload /\ OnlyViewer)
    \/ (OnViewer /\ AskMore /\ OnlyViewer) \/ (OnViewer /\ PageArrives /\ OnlyViewer)
    \/ (OnViewer /\ ListArrives /\ OnlyViewer)
    \/ (OnViewer /\ PageCallFails /\ OnlyViewer)
    \/ (OnViewer /\ RowLeaves /\ OnlyViewer) \/ (OnViewer /\ PrimeDelete /\ OnlyViewer)
    \/ (OnViewer /\ CancelDelete /\ OnlyViewer)
    \/ (OnViewer /\ HandleDelete /\ OnlyViewer)
    \/ (OnViewer /\ DeleteDone /\ OnlyViewer) \/ (OnViewer /\ DeleteFails /\ OnlyViewer)
    \/ (OnViewer /\ TogglePanel /\ OnlyViewer)
    \/ (OnViewer /\ PanelAnswers /\ OnlyViewer) \/ (OnViewer /\ TypeNote /\ OnlyViewer)
    \/ (OnViewer /\ AddNote /\ OnlyViewer) \/ (OnViewer /\ NoteStored /\ OnlyViewer)
    \/ (OnViewer /\ NoteFails /\ OnlyViewer)

BulkSteps ==
    \/ (OnBulk /\ ToggleSelect /\ OnlyBulk) \/ (OnBulk /\ SelectAll /\ OnlyBulk)
    \/ (OnBulk /\ ClearSelection /\ OnlyBulk) \/ (OnBulk /\ ToggleMenu /\ OnlyBulk)
    \/ (OnBulk /\ BulkFavorite /\ OnlyBulk) \/ (OnBulk /\ BulkRating /\ OnlyBulk)
    \/ (OnBulk /\ BulkTags /\ OnlyBulk) \/ (OnBulk /\ BulkMove /\ OnlyBulk)
    \/ (OnBulk /\ RequestDelete /\ OnlyBulk) \/ (OnBulk /\ CancelBulkDelete /\ OnlyBulk)
    \/ (OnBulk /\ ConfirmDelete /\ OnlyBulk) \/ (OnBulk /\ LaneSends /\ OnlyBulk)
    \/ (OnBulk /\ CatalogTakes /\ OnlyBulk) \/ (OnBulk /\ LaneAnswered /\ OnlyBulk)
    \/ (OnBulk /\ LaneFails /\ OnlyBulk) \/ (OnBulk /\ PatchEnds /\ OnlyBulk)
    \/ (OnBulk /\ MoveEnds /\ OnlyBulk) \/ (OnBulk /\ CatalogDeletes /\ OnlyBulk)
    \/ (OnBulk /\ DeleteEnds /\ OnlyBulk) \/ (OnBulk /\ DeleteAnswerLost /\ OnlyBulk)
    \/ (OnBulk /\ RateImage /\ OnlyBulk) \/ (OnBulk /\ RatingTaken /\ OnlyBulk)
    \/ (OnBulk /\ RatingAnswered /\ OnlyBulk) \/ (OnBulk /\ FreshSearch /\ OnlyBulk)
    \/ (OnBulk /\ SearchServed /\ OnlyBulk) \/ (OnBulk /\ SearchLands /\ OnlyBulk)

ExportSteps ==
    \/ (OnExport /\ PickForExport /\ OnlyExport)
    \/ (OnExport /\ StartExport /\ OnlyExport) \/ (OnExport /\ Downloaded /\ OnlyExport)
    \/ (OnExport /\ ExportThrows /\ OnlyExport)
    \/ (OnExport /\ RouteTakes /\ OnlyExport) \/ (OnExport /\ ReadOne /\ OnlyExport)
    \/ (OnExport /\ RouteAnswers /\ OnlyExport)
    \/ (OnExport /\ LeavesTheCatalog /\ OnlyExport)

TagsSteps ==
    \/ (OnTags /\ TypeTag /\ OnlyTags) \/ (OnTags /\ FocusTags /\ OnlyTags)
    \/ (OnTags /\ LeaveTags /\ OnlyTags) \/ (OnTags /\ BlurTimerFires /\ OnlyTags)
    \/ (OnTags /\ EnterTag /\ OnlyTags) \/ (OnTags /\ ClickSuggestion /\ OnlyTags)
    \/ (OnTags /\ RemoveTag /\ OnlyTags) \/ (OnTags /\ MoveHighlight /\ OnlyTags)
    \/ (OnTags /\ CloseSuggestions /\ OnlyTags) \/ (OnTags /\ AskForTags /\ OnlyTags)
    \/ (OnTags /\ TagsAnswered /\ OnlyTags) \/ (OnTags /\ CatalogArrives /\ OnlyTags)

GroupsSteps ==
    \/ (OnGroups /\ OpenFromGrid /\ OnlyGroups)
    \/ (OnGroups /\ RowsChange /\ OnlyGroups) \/ (OnGroups /\ TypeQuery /\ OnlyGroups)
    \/ (OnGroups /\ PickSort /\ OnlyGroups) \/ (OnGroups /\ ToggleGroups /\ OnlyGroups)
    \/ (OnGroups /\ ToggleDir /\ OnlyGroups)
    \/ (OnGroups /\ TotalsAnswered /\ OnlyGroups)

DetailSteps ==
    \/ (OnDetail /\ DetailArrives /\ OnlyDetail)
    \/ (OnDetail /\ DetailFails /\ OnlyDetail) \/ (OnDetail /\ RateDetail /\ OnlyDetail)
    \/ (OnDetail /\ ToggleFavorite /\ OnlyDetail)
    \/ (OnDetail /\ EditTaken /\ OnlyDetail) \/ (OnDetail /\ EditAnswered /\ OnlyDetail)
    \/ (OnDetail /\ EditRefused /\ OnlyDetail)
    \/ (OnDetail /\ SettingsRead /\ OnlyDetail)
    \/ (OnDetail /\ LoadSimilar /\ OnlyDetail) \/ (OnDetail /\ LoadDebug /\ OnlyDetail)
    \/ (OnDetail /\ PanelAnswered /\ OnlyDetail)
    \/ (OnDetail /\ NotesServed /\ OnlyDetail)
    \/ (OnDetail /\ NotesArrive /\ OnlyDetail)
    \/ (OnDetail /\ AddDetailNote /\ OnlyDetail)
    \/ (OnDetail /\ DetailNoteStored /\ OnlyDetail)
    \/ (OnDetail /\ NoteCallFails /\ OnlyDetail)
    \/ (OnDetail /\ ConfirmRemoval /\ OnlyDetail)
    \/ (OnDetail /\ RemoveFromLibrary /\ OnlyDetail)
    \/ (OnDetail /\ Removed /\ OnlyDetail) \/ (OnDetail /\ RemovalFails /\ OnlyDetail)
    \/ (OnDetail /\ RemovedByOthers /\ OnlyDetail)

SumNext == ViewerSteps \/ BulkSteps \/ ExportSteps \/ TagsSteps \/ GroupsSteps
           \/ DetailSteps

SumSpec == SumInit /\ [][SumNext]_sumVars

-----------------------------------------------------------------------------
\* What the library shows as stored is stored: the cards after bulk edits and
\* ratings have been answered (page.tsx), and the notes of the detail page.
WhatIsShownIsStored == CardsShowWhatIsStored /\ NotesAreStored

\* Of many images at once each has one outcome: those of a bulk edit are sent
\* once (bulk-patch.ts), those of an export are in the file or in the error
\* line (the export routes).
OneOutcomePerImage == OneRequestPerImage /\ ExportAccountsForAll
=============================================================================
