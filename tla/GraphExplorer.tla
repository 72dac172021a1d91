---------------------------- MODULE GraphExplorer ----------------------------
(***************************************************************************)
(* The cluster explorer (app/library/clusters/page.tsx) with the two       *)
(* components it shares with other pages: the graph filter, whose value is *)
(* picked from a debounced autocomplete (GraphFilterPanel.tsx), and the    *)
(* canvas that draws a graph once its library is loaded (LibraryGraph.tsx).*)
(*                                                                         *)
(* A look-up of the autocomplete that is overtaken is aborted and marked   *)
(* dead; an aborted answer may already be there when the mark is read.     *)
(* The count of a filter's matches and the clusters are not guarded so:    *)
(* they may be those of a scope that is in force no more, and no property  *)
(* says otherwise.                                                         *)
(***************************************************************************)
EXTENDS Naturals

CONSTANTS NodeTypes,        \* types of hub nodes
          TypedTexts,         \* what can be typed; "" is the empty box
          MaxGraphClicks,   \* bound on keys and clicks
          MaxGraphFaults    \* bound on calls that fail

VARIABLES box,        \* [type, text, open]: the value picker
          options,    \* the box the options listed were asked for, or NoOptions
          entityLookups,    \* look-ups: waiting for the debounce, sent or answered
          scope,      \* the filter in force, or NoScope
          matches,    \* the scope the shown count belongs to, or NoScope
          checks,     \* counts in flight
          building,   \* the request of a build in flight, or NoScope
          clusters,   \* the scope the clusters shown were built for, or NoScope
          chosen,     \* is one of the clusters opened
          drawings,   \* the canvas: effects with their import and drawing
          graphClicks, graphFaults

pickerVars == <<box, options, entityLookups>>
filterVars == <<scope, matches, checks>>
clusterVars == <<building, clusters, chosen, drawings>>
graphVars == <<pickerVars, filterVars, clusterVars, graphClicks, graphFaults>>

NoOptions == <<"", "none">>
NoScope == <<"", "">>
Unscoped == <<"", "all">>

GraphClick == graphClicks < MaxGraphClicks /\ graphClicks' = graphClicks + 1
GraphFault == graphFaults < MaxGraphFaults /\ graphFaults' = graphFaults + 1

----------------------------------------------------------------------------
(* EntitySuggest.                                                          *)

\* The effect on type, text and open: the last look-up is dead, a new one
\* waits for its debounce while the list is open.
Relook(b) == {[l EXCEPT !.alive = FALSE] : l \in entityLookups}
             \union (IF b.open THEN {[id |-> graphClicks, of |-> <<b.type, b.text>>, stage |-> "waiting", alive |-> TRUE]} ELSE {})

Turn(b) == /\ box' = b
           /\ entityLookups' = IF b = box THEN entityLookups ELSE Relook(b)

TypeEntity(t) == /\ GraphClick
                 /\ Turn([box EXCEPT !.text = t, !.open = TRUE])
                 /\ UNCHANGED <<options, filterVars, clusterVars, graphFaults>>

FocusPicker == /\ GraphClick
               /\ Turn([box EXCEPT !.open = TRUE])
               /\ UNCHANGED <<options, filterVars, clusterVars, graphFaults>>

\* Leaving the box, or Escape, closes the list; the options are kept.
ClosePicker == /\ box.open
               /\ Turn([box EXCEPT !.open = FALSE])
               /\ UNCHANGED <<options, filterVars, clusterVars, graphClicks, graphFaults>>

ChooseNodeType(ty) == /\ GraphClick
                      /\ Turn([box EXCEPT !.type = ty, !.text = ""])
                      /\ UNCHANGED <<options, filterVars, clusterVars, graphFaults>>

\* The timer of a dead look-up is cleared, its request aborted; an answer
\* that is there already is still handed on.
DebounceFires(l) == /\ l.stage = "waiting"
                    /\ entityLookups' = (entityLookups \ {l}) \union (IF l.alive THEN {[l EXCEPT !.stage = "sent"]} ELSE {})
                    /\ UNCHANGED <<box, options, filterVars, clusterVars, graphClicks, graphFaults>>

LookupServed(l) == /\ l.stage = "sent"
                   /\ entityLookups' = (entityLookups \ {l}) \union (IF l.alive THEN {[l EXCEPT !.stage = "answered"]} ELSE {})
                   /\ UNCHANGED <<box, options, filterVars, clusterVars, graphClicks, graphFaults>>

LookupFails(l) == /\ l.stage = "sent" /\ GraphFault
                  /\ entityLookups' = entityLookups \ {l}
                  /\ UNCHANGED <<box, options, filterVars, clusterVars, graphClicks>>

HeededAlways(l) == TRUE
Heeded(l) == l.alive
LookupLands(l) == /\ l.stage = "answered"
                  /\ options' = IF Heeded(l) THEN l.of ELSE options
                  /\ entityLookups' = entityLookups \ {l}
                  /\ UNCHANGED <<box, filterVars, clusterVars, graphClicks, graphFaults>>

----------------------------------------------------------------------------
(* The filter.                                                             *)

\* apply(): the scope is in force at once, its count is asked for.
Scoped(ty, t) == IF t = "" THEN NoScope ELSE <<ty, t>>
NewScope(s) == /\ scope' = s
               /\ matches' = IF s = NoScope THEN NoScope ELSE matches
               /\ checks' = IF s = NoScope THEN checks ELSE checks \union {[id |-> graphClicks, of |-> s]}

\* Enter and a click take the option that is highlighted, which may be of
\* an older text; without options what was typed.
ChooseOption == /\ GraphClick
                /\ LET v == IF box.open /\ options # NoOptions THEN options[2] ELSE box.text
                   IN /\ Turn([box EXCEPT !.text = v, !.open = FALSE])
                      /\ NewScope(Scoped(box.type, v))
                /\ UNCHANGED <<options, clusterVars, graphFaults>>

ApplyFilter == /\ GraphClick /\ checks = {}
               /\ NewScope(Scoped(box.type, box.text))
               /\ UNCHANGED <<pickerVars, clusterVars, graphFaults>>

ClearFilter == /\ GraphClick /\ scope # NoScope
               /\ Turn([box EXCEPT !.text = ""])
               /\ scope' = NoScope /\ matches' = NoScope
               /\ UNCHANGED <<options, checks, clusterVars, graphFaults>>

\* The count endpoint answers "unsupported", so no number is shown; were it
\* to answer one, the last answer to come would be shown.
CountLands(c) == /\ c \in checks
                 /\ checks' = checks \ {c}
                 /\ matches' = c.of
                 /\ UNCHANGED <<pickerVars, scope, clusterVars, graphClicks, graphFaults>>

----------------------------------------------------------------------------
(* The clusters and the canvas.                                            *)

\* build(): one at a time, with the filter of that moment.
Build == /\ GraphClick /\ building = NoScope
         /\ building' = IF scope = NoScope THEN Unscoped ELSE scope
         /\ chosen' = FALSE
         /\ UNCHANGED <<pickerVars, filterVars, clusters, drawings, graphFaults>>

\* The canvas effect on a new graph: the old effect is cancelled and what it
\* drew destroyed, the library is imported for the new one.
Redrawn(g) == {[d EXCEPT !.cancelled = TRUE, !.drawn = FALSE] : d \in {x \in drawings : ~x.drawn}}
              \union {[of |-> g, id |-> graphClicks, cancelled |-> FALSE, drawn |-> FALSE]}

\* The clusters are drawn when there are any.
Built == /\ building # NoScope
         /\ \E empty \in BOOLEAN :
              drawings' = IF empty THEN {[d EXCEPT !.cancelled = TRUE] : d \in {x \in drawings : ~x.drawn}}
                                   ELSE Redrawn(building)
         /\ clusters' = building
         /\ building' = NoScope
         /\ UNCHANGED <<pickerVars, filterVars, chosen, graphClicks, graphFaults>>

\* A refusal, such as the gateway's stub, keeps the clusters shown.
BuildFails == /\ building # NoScope
              /\ building' = NoScope
              /\ UNCHANGED <<pickerVars, filterVars, clusters, chosen, drawings, graphClicks, graphFaults>>

OpenCluster == /\ clusters # NoScope
               /\ GraphClick
               /\ chosen' = ~chosen
               /\ UNCHANGED <<pickerVars, filterVars, building, clusters, drawings, graphFaults>>

ImportLands(d) == /\ ~d.drawn
                  /\ drawings' = (drawings \ {d}) \union (IF d.cancelled THEN {} ELSE {[d EXCEPT !.drawn = TRUE]})
                  /\ UNCHANGED <<pickerVars, filterVars, building, clusters, chosen, graphClicks, graphFaults>>

----------------------------------------------------------------------------
GraphInit == /\ \E ty \in NodeTypes : box = [type |-> ty, text |-> "", open |-> FALSE]
             /\ options = NoOptions /\ entityLookups = {}
             /\ scope = NoScope /\ matches = NoScope /\ checks = {}
             /\ building = NoScope /\ clusters = NoScope /\ chosen = FALSE /\ drawings = {}
             /\ graphClicks = 0 /\ graphFaults = 0

GraphNext == \/ \E t \in TypedTexts : TypeEntity(t)
             \/ FocusPicker \/ ClosePicker
             \/ \E ty \in NodeTypes : ChooseNodeType(ty)
             \/ \E l \in entityLookups : DebounceFires(l) \/ LookupServed(l) \/ LookupFails(l) \/ LookupLands(l)
             \/ ChooseOption \/ ApplyFilter \/ ClearFilter
             \/ \E c \in checks : CountLands(c)
             \/ Build \/ Built \/ BuildFails \/ OpenCluster
             \/ \E d \in drawings : ImportLands(d)

GraphSpec == GraphInit /\ [][GraphNext]_graphVars

----------------------------------------------------------------------------
(* Nothing overtaken is shown: the options of an open list are those of the *)
(* type and text in the box, or a look-up of these, which no later one has  *)
(* declared dead, is under way, unless a look-up failed                     *)
(* (GraphFilterPanel.tsx:52 "the latest result wins; a stale in-flight one  *)
(* is dropped"); and at most one drawing is on the page, that of the        *)
(* clusters listed.                                                         *)
NothingStaleIsShown ==
    /\ box.open /\ graphFaults = 0 =>
          \/ options = <<box.type, box.text>>
          \/ \E l \in entityLookups : l.alive /\ l.of = <<box.type, box.text>>
    /\ \A d \in drawings : d.drawn => d.of = clusters /\ \A e \in drawings : e.drawn => e = d
=============================================================================
