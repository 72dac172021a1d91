---------------------------- MODULE ServiceBoard ----------------------------
(***************************************************************************)
(* The status board (components/ServiceStatusBoard.tsx) and the two        *)
(* aggregates it polls: the gateway's probes of every service              *)
(* (deedlit.api GET /health, GET /activity) as the routes                  *)
(* app/api/library/health and activity reshape them.                       *)
(*                                                                         *)
(* A poll reads the services at the moment the gateway serves it: the      *)
(* probes of one answer run in parallel and are one moment here.  Polls of *)
(* one kind overlap and are answered in any order.                         *)
(***************************************************************************)
EXTENDS Integers
LOCAL INSTANCE FiniteSets
LOCAL INSTANCE FiniteSetsExt

CONSTANTS Services,          \* the services behind the gateway
          HealthPolls, ActivityPolls,   \* polls of each kind that can be under way
          MaxServiceChanges, MaxBoardFaults, MaxBoardClicks   \* bounds of a run

VARIABLES serviceState,      \* "ok", "degraded" or "down"
          working,           \* the services that have work in flight
          gatewayUp,
          boardPolls,        \* the answer of each poll, or where it is
          boardHealth, boardLoaded, boardActivity, boardVisible,
          serviceChanges, boardFaults, boardClicks

backendVars == <<serviceState, working, gatewayUp, serviceChanges>>
boardVars == <<backendVars, boardPolls, boardHealth, boardLoaded, boardActivity, boardVisible, boardFaults, boardClicks>>

Resting == [at |-> "rest"]
Sent == [at |-> "sent"]
NoHealth == [status |-> "none", components |-> {}]
BoardPolls == HealthPolls \cup ActivityPolls

----------------------------------------------------------------------------
(* The services.                                                           *)

BackendChange == /\ serviceChanges < MaxServiceChanges
                 /\ serviceChanges' = serviceChanges + 1
                 /\ UNCHANGED <<boardPolls, boardHealth, boardLoaded, boardActivity, boardVisible, boardFaults, boardClicks>>
ServiceTurns(s, st) == /\ BackendChange /\ serviceState[s] # st
                       /\ serviceState' = [serviceState EXCEPT ![s] = st]
                       /\ working' = IF st = "down" THEN working \ {s} ELSE working
                       /\ UNCHANGED gatewayUp
ServiceWorks(s) == /\ BackendChange /\ serviceState[s] # "down"
                   /\ working' = IF s \in working THEN working \ {s} ELSE working \cup {s}
                   /\ UNCHANGED <<serviceState, gatewayUp>>
GatewayTurns == /\ BackendChange
                /\ gatewayUp' = ~gatewayUp
                /\ UNCHANGED <<serviceState, working>>

\* The roll-up of the gateway, with the gateway itself in front; without the
\* gateway, the gateway alone.
Overall == IF \A s \in Services : serviceState[s] = "ok" THEN "ok" ELSE "degraded"
HealthAnswer == IF gatewayUp
                THEN [status |-> Overall,
                      components |-> {<<"gateway", "ok">>} \cup {<<s, serviceState[s]>> : s \in Services}]
                ELSE [status |-> "down", components |-> {<<"gateway", "down">>}]

\* Every service has its row, idle when it is not reached; without the
\* gateway there are no rows.  (The gateway's own row is left out.)
ActivityRow(s) == [name |-> s, busy |-> s \in working, reachable |-> serviceState[s] # "down"]
ActivityAnswer == IF gatewayUp THEN {ActivityRow(s) : s \in Services} ELSE {}

----------------------------------------------------------------------------
(* The board.                                                              *)

SendTo(polls) == \E p \in polls : boardPolls[p] = Resting /\ boardPolls' = [boardPolls EXCEPT ![p] = Sent]
Quiet == UNCHANGED <<boardHealth, boardLoaded, boardActivity>>

TickHealth == /\ boardVisible /\ SendTo(HealthPolls)
              /\ Quiet /\ UNCHANGED <<backendVars, boardVisible, boardFaults, boardClicks>>
TickActivity == /\ boardVisible /\ SendTo(ActivityPolls)
                /\ Quiet /\ UNCHANGED <<backendVars, boardVisible, boardFaults, boardClicks>>

BoardClick == boardClicks < MaxBoardClicks /\ boardClicks' = boardClicks + 1

\* Refresh asks whether or not the tab is shown.
RefreshBoard == /\ BoardClick /\ SendTo(HealthPolls)
                /\ Quiet /\ UNCHANGED <<backendVars, boardVisible, boardFaults>>
HideBoard == /\ BoardClick /\ boardVisible
             /\ boardVisible' = FALSE
             /\ Quiet /\ UNCHANGED <<backendVars, boardPolls, boardFaults>>

\* Shown again, the board asks for both at once.
ShowBoard == /\ ~boardVisible
             /\ boardVisible' = TRUE
             /\ boardPolls' = [p \in BoardPolls |->
                   IF boardPolls[p] = Resting /\ (p = Min(HealthPolls) \/ p = Min(ActivityPolls)) THEN Sent ELSE boardPolls[p]]
             /\ Quiet /\ UNCHANGED <<backendVars, boardFaults, boardClicks>>

Served(p) == /\ boardPolls[p] = Sent
             /\ boardPolls' = [boardPolls EXCEPT ![p] =
                   [at |-> "served", answer |-> IF p \in HealthPolls THEN HealthAnswer ELSE ActivityAnswer]]
             /\ Quiet /\ UNCHANGED <<backendVars, boardVisible, boardFaults, boardClicks>>

\* The body is read whatever the status: the route answers 503 unless all is
\* well.
HeardOkOnly(h) == IF h.status = "ok" THEN h ELSE NoHealth
Heard(h) == h

Lands(p) == /\ boardPolls[p].at = "served"
            /\ boardPolls' = [boardPolls EXCEPT ![p] = Resting]
            /\ IF p \in HealthPolls
               THEN /\ boardHealth' = Heard(boardPolls[p].answer)
                    /\ boardLoaded' = TRUE
                    /\ UNCHANGED boardActivity
               ELSE /\ boardActivity' = boardPolls[p].answer
                    /\ UNCHANGED <<boardHealth, boardLoaded>>
            /\ UNCHANGED <<backendVars, boardVisible, boardFaults, boardClicks>>

\* The console itself does not answer: the health is dropped, the activity
\* stays.
BoardPollFails(p) == /\ boardPolls[p] # Resting /\ boardFaults < MaxBoardFaults
                     /\ boardFaults' = boardFaults + 1
                     /\ boardPolls' = [boardPolls EXCEPT ![p] = Resting]
                     /\ IF p \in HealthPolls THEN boardHealth' = NoHealth /\ boardLoaded' = TRUE
                        ELSE UNCHANGED <<boardHealth, boardLoaded>>
                     /\ UNCHANGED <<backendVars, boardActivity, boardVisible, boardClicks>>

----------------------------------------------------------------------------
(* What is on screen.                                                      *)

components == IF boardLoaded THEN boardHealth.components
              ELSE {<<s, "down">> : s \in Services \cup {"gateway"}}
overallShown == IF boardHealth = NoHealth THEN "down" ELSE boardHealth.status
offline == Cardinality({c \in components : c[2] # "ok"})
BusyOf(s) == {r.busy : r \in {x \in boardActivity : x.name = s}}
CardsShown == {<<c[1], c[2], BusyOf(c[1])>> : c \in components}
HeaderShown == IF ~boardLoaded THEN <<"checking", 0>>
               ELSE IF overallShown = "ok" THEN <<"all online", 0>> ELSE <<"need attention", offline>>

----------------------------------------------------------------------------
BoardInit == /\ serviceState \in [Services -> {"ok", "down"}]
             /\ working = {} /\ gatewayUp \in BOOLEAN /\ serviceChanges = 0
             /\ boardPolls = [p \in BoardPolls |-> IF p = Min(HealthPolls) \/ p = Min(ActivityPolls) THEN Sent ELSE Resting]
             /\ boardHealth = NoHealth /\ boardLoaded = FALSE /\ boardActivity = {} /\ boardVisible = TRUE
             /\ boardFaults = 0 /\ boardClicks = 0

BoardNext == \/ \E s \in Services, st \in {"ok", "degraded", "down"} : ServiceTurns(s, st)
             \/ \E s \in Services : ServiceWorks(s)
             \/ GatewayTurns \/ TickHealth \/ TickActivity \/ RefreshBoard \/ HideBoard \/ ShowBoard
             \/ \E p \in BoardPolls : Served(p) \/ Lands(p) \/ BoardPollFails(p)

BoardSpec == /\ BoardInit /\ [][BoardNext]_boardVars
             /\ WF_boardVars(TickHealth) /\ WF_boardVars(TickActivity) /\ WF_boardVars(ShowBoard)
             /\ \A p \in BoardPolls : WF_boardVars(Served(p)) /\ WF_boardVars(Lands(p))

----------------------------------------------------------------------------
(* Once the services keep their state, the board comes to show it and keeps *)
(* showing it: the header counts what is not online, and every card has its *)
(* state and its work, whatever polls failed or were answered out of order. *)
TrueCards == IF ~gatewayUp THEN {<<"gateway", "down", {}>>}
             ELSE {<<"gateway", "ok", {}>>} \cup {<<s, serviceState[s], {s \in working}>> : s \in Services}
TrueHeader == IF ~gatewayUp THEN <<"need attention", 1>>
              ELSE IF Overall = "ok" THEN <<"all online", 0>>
              ELSE <<"need attention", Cardinality({s \in Services : serviceState[s] # "ok"})>>
BoardSettles == <>[](CardsShown = TrueCards /\ HeaderShown = TrueHeader)
=============================================================================
