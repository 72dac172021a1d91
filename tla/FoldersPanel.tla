----------------------------- MODULE FoldersPanel -----------------------------
(***************************************************************************)
(* The source-folder panel of the admin page                               *)
(* (components/SourceFoldersPanel.tsx): the registry polled every three    *)
(* seconds, one folder or a list of folders added, intervals and switches  *)
(* changed; with the path box's live check (use-path-preview.ts) and the   *)
(* folder picker it opens (DirectoryPicker.tsx).                           *)
(*                                                                         *)
(* Handlers use the list of folders as it was rendered when they began.    *)
(* A check of the path box that is overtaken is aborted and cancelled; the *)
(* polls and the picker's listings are not. The form for one folder and    *)
(* the one for a list, of which a switch shows one, are both on screen.    *)
(***************************************************************************)
EXTENDS Naturals, SequencesExt

CONSTANTS Dirs,               \* paths; "" is none of them
          Readable,           \* those that are directories of the ingest host
          PathKey,            \* path -> its lower-cased form, by which duplicates are told
          MaxFolderPolls,     \* bound on polls in flight
          MaxFolderClicks,    \* bound on the operator's clicks
          MaxFolderFaults     \* bound on calls that fail

VARIABLES registered,   \* path -> "none", "on" or "off": the catalog's folders
          folders,      \* the same as the panel shows it
          folderPolls,  \* answers of polls on their way
          newPath, preview, probes,    \* the path box, its preview line, the checks under way
          picker,       \* the picker: open, the listing shown, the listings asked for
          adding,       \* the flag that keeps the two buttons off
          additions,    \* the additions under way
          multiText,    \* the lines of the bulk box
          patches,      \* changes of a folder in flight
          folderClicks, folderFaults

pathVars == <<newPath, preview, probes>>
addVars == <<adding, additions>>
folderVars == <<registered, folders, folderPolls, pathVars, picker, addVars, multiText, patches, folderClicks, folderFaults>>

NoPath == ""
Idle == [state |-> "idle", of |-> NoPath]
Configured(list) == {p \in Dirs : list[p] # "none"}

FolderClick == folderClicks < MaxFolderClicks /\ folderClicks' = folderClicks + 1
FolderFault == folderFaults < MaxFolderFaults /\ folderFaults' = folderFaults + 1

\* isAlreadyConfigured: case does not matter, though it does on the host.
Known(p, list) == \E q \in list : PathKey[p] = PathKey[q]

----------------------------------------------------------------------------
(* The list.                                                               *)

\* refresh(): answered some time after it was asked; a refusal changes
\* nothing.
AskFolders(polls) == polls = IF Len(folderPolls) < MaxFolderPolls THEN Append(folderPolls, registered) ELSE folderPolls

PollFolders == /\ Len(folderPolls) < MaxFolderPolls
               /\ AskFolders(folderPolls')
               /\ UNCHANGED <<registered, folders, pathVars, picker, addVars, multiText, patches, folderClicks, folderFaults>>

FoldersArrive == \E k \in 1..Len(folderPolls) :
                    /\ folders' = folderPolls[k]
                    /\ folderPolls' = RemoveAt(folderPolls, k)
                    /\ UNCHANGED <<registered, pathVars, picker, addVars, multiText, patches, folderClicks, folderFaults>>

----------------------------------------------------------------------------
(* The path box and its preview.                                           *)

\* Every change of the path cancels the check of the last one; an empty box
\* is not checked and hides the preview.
SetPath(p) == /\ newPath' = p
              /\ probes' = IF p = newPath THEN probes
                           ELSE {[q EXCEPT !.cancelled = TRUE] : q \in probes}
                                \union (IF p = NoPath THEN {} ELSE {[id |-> folderClicks, of |-> p, stage |-> "debounce", cancelled |-> FALSE]})

TypePath(p) == /\ FolderClick
               /\ SetPath(p)
               /\ UNCHANGED <<registered, folders, folderPolls, preview, picker, addVars, multiText, patches, folderFaults>>

ProbeStarts(q) == /\ q.stage = "debounce"
                  /\ probes' = (probes \ {q}) \union (IF q.cancelled THEN {} ELSE {[q EXCEPT !.stage = "sent"]})
                  /\ preview' = IF q.cancelled THEN preview ELSE [state |-> "checking", of |-> q.of]
                  /\ UNCHANGED <<registered, folders, folderPolls, newPath, picker, addVars, multiText, patches, folderClicks, folderFaults>>

CountsAlways(q) == TRUE
Counts(q) == ~q.cancelled
Verdict(q) == IF q.of \in Readable THEN "valid" ELSE "invalid"

\* The answer, or the failure of the request.
ProbeLands(q) ==
    /\ q.stage = "sent"
    /\ \E state \in {Verdict(q), "invalid"} :
          /\ state = Verdict(q) \/ FolderFault
          /\ state = Verdict(q) => UNCHANGED folderFaults
          /\ preview' = IF Counts(q) THEN [state |-> state, of |-> q.of] ELSE preview
    /\ probes' = probes \ {q}
    /\ UNCHANGED <<registered, folders, folderPolls, newPath, picker, addVars, multiText, patches, folderClicks>>

----------------------------------------------------------------------------
(* The picker.                                                             *)

\* Opening lists the roots, then the path in the box.
OpenPicker == /\ FolderClick /\ ~picker.open
              /\ picker' = [picker EXCEPT !.open = TRUE, !.loads = @ \union {NoPath},
                                          !.then = newPath]
              /\ UNCHANGED <<registered, folders, folderPolls, pathVars, addVars, multiText, patches, folderFaults>>

Browse(p) == /\ FolderClick /\ picker.open
             /\ picker' = [picker EXCEPT !.loads = @ \union {p}]
             /\ UNCHANGED <<registered, folders, folderPolls, pathVars, addVars, multiText, patches, folderFaults>>

\* An answer replaces the listing; a path that cannot be read leaves it.
ListingLands(p) ==
    /\ p \in picker.loads
    /\ picker' = [picker EXCEPT
           !.at = IF p \in Readable \union {NoPath} THEN p ELSE @,
           !.then = IF p = NoPath THEN NoPath ELSE @,
           !.loads = (@ \ {p}) \union (IF p = NoPath /\ picker.open /\ picker.then # NoPath THEN {picker.then} ELSE {})]
    /\ UNCHANGED <<registered, folders, folderPolls, pathVars, addVars, multiText, patches, folderClicks, folderFaults>>

\* The button is live when a folder is listed.
PickFolder == /\ picker.open /\ picker.at # NoPath
              /\ FolderClick
              /\ SetPath(picker.at)
              /\ picker' = [picker EXCEPT !.open = FALSE]
              /\ UNCHANGED <<registered, folders, folderPolls, preview, addVars, multiText, patches, folderFaults>>

----------------------------------------------------------------------------
(* Adding.                                                                 *)

Adds(paths, bulk) ==
    /\ adding' = TRUE
    /\ additions' = additions \union {[id |-> folderClicks, todo |-> paths, failed |-> {}, known |-> Configured(folders), bulk |-> bulk]}

\* addFolder, by the button or by Enter in the box, which the flag leaves
\* on: a second one can be started while an addition is under way.
AddFolder == /\ FolderClick
             /\ newPath # NoPath /\ ~Known(newPath, Configured(folders))
             /\ Adds(<<newPath>>, FALSE)
             /\ UNCHANGED <<registered, folders, folderPolls, pathVars, picker, multiText, patches, folderFaults>>

\* The lines of the box, each path once, in order.
EnterLines(ps) == /\ FolderClick
                  /\ multiText' = ps
                  /\ UNCHANGED <<registered, folders, folderPolls, pathVars, picker, addVars, patches, folderFaults>>

\* addMultiple, by its button only.
AddMultiple == /\ FolderClick /\ ~adding /\ multiText # {}
               /\ Adds(SetToSeq(multiText), TRUE)
               /\ UNCHANGED <<registered, folders, folderPolls, pathVars, picker, multiText, patches, folderFaults>>

Post(p) == registered' = [registered EXCEPT ![p] = IF @ = "none" THEN "on" ELSE @]

\* postFolder: a path that was configured when the addition began is not
\* sent.
PostFolder(a) ==
    /\ a.todo # <<>>
    /\ LET p == Head(a.todo)
           Goes(failed) == additions' = (additions \ {a}) \union {[a EXCEPT !.todo = Tail(@), !.failed = failed]}
       IN \/ Known(p, a.known) /\ Goes(a.failed) /\ UNCHANGED <<registered, folderFaults>>
          \/ ~Known(p, a.known) /\ Post(p) /\ Goes(a.failed) /\ UNCHANGED folderFaults
          \/ /\ ~Known(p, a.known) /\ FolderFault
             /\ Post(p) \/ UNCHANGED registered
             /\ Goes(a.failed \union {p})
    /\ UNCHANGED <<folders, folderPolls, pathVars, picker, adding, multiText, patches, folderClicks>>

Left(a) == a.failed

\* What failed stays in its box; the rest of the form is cleared, whatever
\* it holds by now, and the list is asked for. The flag falls with the first
\* addition that ends.
AddingEnds(a) ==
    /\ a.todo = <<>>
    /\ additions' = additions \ {a} /\ adding' = FALSE
    /\ IF a.bulk THEN multiText' = Left(a) /\ UNCHANGED pathVars
       ELSE /\ IF a.failed = {} THEN SetPath(NoPath) ELSE UNCHANGED <<newPath, probes>>
            /\ UNCHANGED <<multiText, preview>>
    /\ IF a.bulk \/ a.failed = {} THEN AskFolders(folderPolls') ELSE UNCHANGED folderPolls
    /\ UNCHANGED <<registered, folders, picker, patches, folderClicks, folderFaults>>

----------------------------------------------------------------------------
(* Changing.                                                               *)

\* A switch sends the opposite of what is shown.
Toggle(p) == /\ FolderClick /\ folders[p] # "none"
             /\ patches' = patches \union {[id |-> folderClicks, path |-> p, to |-> IF folders[p] = "on" THEN "off" ELSE "on"]}
             /\ UNCHANGED <<registered, folders, folderPolls, pathVars, picker, addVars, multiText, folderFaults>>

RemoveFolder(p) == /\ FolderClick /\ folders[p] # "none"
                   /\ patches' = patches \union {[id |-> folderClicks, path |-> p, to |-> "none"]}
                   /\ UNCHANGED <<registered, folders, folderPolls, pathVars, picker, addVars, multiText, folderFaults>>

PatchDone(c) == /\ patches' = patches \ {c}
                /\ registered' = [registered EXCEPT ![c.path] = IF @ = "none" THEN @ ELSE c.to]
                /\ folderPolls' = IF Len(folderPolls) < MaxFolderPolls THEN Append(folderPolls, registered') ELSE folderPolls
                /\ UNCHANGED <<folders, pathVars, picker, addVars, multiText, folderClicks, folderFaults>>

----------------------------------------------------------------------------
FoldersInit == /\ registered = [p \in Dirs |-> "none"] /\ folders = registered /\ folderPolls = <<registered>>
               /\ newPath = NoPath /\ preview = Idle /\ probes = {}
               /\ picker = [open |-> FALSE, at |-> NoPath, then |-> NoPath, loads |-> {}]
               /\ adding = FALSE /\ additions = {} /\ multiText = {} /\ patches = {}
               /\ folderClicks = 0 /\ folderFaults = 0

FoldersNext == \/ PollFolders \/ FoldersArrive
               \/ \E p \in Dirs \union {NoPath} : TypePath(p) \/ ListingLands(p)
               \/ \E q \in probes : ProbeStarts(q) \/ ProbeLands(q)
               \/ OpenPicker \/ PickFolder
               \/ \E p \in Dirs : Browse(p) \/ Toggle(p) \/ RemoveFolder(p)
               \/ \E ps \in SUBSET Dirs : EnterLines(ps)
               \/ AddFolder \/ AddMultiple
               \/ \E a \in additions : PostFolder(a) \/ AddingEnds(a)
               \/ \E c \in patches : PatchDone(c)

FoldersSpec == FoldersInit /\ [][FoldersNext]_folderVars

----------------------------------------------------------------------------
(* The line under the path box speaks of the path in it: what a filled box  *)
(* shows as valid or invalid was found out for that very path, however fast *)
(* it was typed, picked, added and replaced before, or a check of that very *)
(* path, which the answer of no other one can put an end to, is under way   *)
(* to say so.                                                               *)
PreviewIsOfThePath ==
    newPath # NoPath =>
        \/ preview.of = newPath /\ preview.state \in {"valid", "invalid"}
        \/ \E q \in probes : ~q.cancelled /\ q.of = newPath
=============================================================================
