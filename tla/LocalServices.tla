--------------------------- MODULE LocalServices ---------------------------
(***************************************************************************)
(* The services hub of the site (deedlit.dev/src/features/services): the   *)
(* browser asks every service for its head, in parallel and for three      *)
(* seconds at most, and the section shows who answered; beside it the      *)
(* message of the copy buttons, cleared by timers that know nothing of     *)
(* each other.  Rounds of checks can overlap: a navigation of the page     *)
(* hands the section a new array of apps, and it begins anew.              *)
(***************************************************************************)
EXTENDS Integers, FiniteSets

CONSTANTS Apps,               \* the apps of data/local-services.ts
          AppQueries,         \* texts of the search box: each the set of apps it matches
          MaxAppChanges, MaxHubClicks   \* bounds of a run

VARIABLES appState,           \* "up", "refuses" or "hangs"
          checks,             \* [round, app]: the heads asked for
          accessibility,      \* the verdict on each app, or "checking"
          isChecking, appQuery,
          copyState, clearTimers,   \* the copy message, and the timers that will clear it
          appChanges, hubClicks

hubVars == <<appState, checks, accessibility, isChecking, appQuery, copyState, clearTimers, appChanges, hubClicks>>

HubClick == hubClicks < MaxHubClicks /\ hubClicks' = hubClicks + 1

AppTurns(a, st) == /\ appChanges < MaxAppChanges /\ appState[a] # st
                   /\ appChanges' = appChanges + 1
                   /\ appState' = [appState EXCEPT ![a] = st]
                   /\ UNCHANGED <<checks, accessibility, isChecking, appQuery, copyState, clearTimers, hubClicks>>

RoundOf(r) == {[round |-> r, app |-> a] : a \in Apps}
Heads == UNION {RoundOf(r) : r \in 0..MaxHubClicks}

\* checkAllServices: every verdict is dropped, every app is asked; the checks
\* of an older round go on.
CheckAll == /\ isChecking' = TRUE
            /\ accessibility' = [a \in Apps |-> "checking"]
            /\ checks' = checks \cup RoundOf(hubClicks')

RefreshChecks == /\ ~isChecking /\ HubClick
                 /\ CheckAll
                 /\ UNCHANGED <<appState, appQuery, copyState, clearTimers, appChanges>>

\* The effect on checkAllServices: the page was navigated, `apps` is another
\* array, and whatever round is under way the next one begins.
AppsRenewed == /\ HubClick
               /\ CheckAll
               /\ UNCHANGED <<appState, appQuery, copyState, clearTimers, appChanges>>

\* The verdict on one app, of whichever round: the last one to come stays.
\* The end of a round clears the flag, though another one be under way.
Verdict(h, v) == /\ h \in checks
                 /\ accessibility' = [accessibility EXCEPT ![h.app] = v]
                 /\ checks' = checks \ {h}
                 /\ isChecking' = (isChecking /\ checks' \cap RoundOf(h.round) # {})
                 /\ UNCHANGED <<appState, appQuery, copyState, clearTimers, appChanges, hubClicks>>

HeadAnswered(h) == appState[h.app] = "up" /\ Verdict(h, "accessible")
HeadRefused(h) == appState[h.app] = "refuses" /\ Verdict(h, "unreachable")

\* no timer that aborts the request
AbortedNever(h) == FALSE
Aborted(h) == h \in checks
HeadTimesOut(h) == Aborted(h) /\ Verdict(h, "unreachable")

Search(q) == /\ HubClick /\ q # appQuery
             /\ appQuery' = q
             /\ UNCHANGED <<appState, checks, accessibility, isChecking, copyState, clearTimers, appChanges>>

filteredApps == Apps \cap appQuery
Badge(a) == IF accessibility[a] = "checking" THEN "checking"
            ELSE IF accessibility[a] = "accessible" THEN "accessible" ELSE "unreachable"

\* A copy button: the message, and one more timer.
CopyValue(a, taken) == /\ HubClick /\ a \in filteredApps
                       /\ copyState' = IF taken THEN a ELSE "Copy unavailable"
                       /\ clearTimers' = clearTimers + 1
                       /\ UNCHANGED <<appState, checks, accessibility, isChecking, appQuery, appChanges>>

ClearFires == /\ clearTimers > 0
              /\ clearTimers' = clearTimers - 1
              /\ copyState' = ""
              /\ UNCHANGED <<appState, checks, accessibility, isChecking, appQuery, appChanges, hubClicks>>

----------------------------------------------------------------------------
HubInit == /\ appState \in [Apps -> {"up", "refuses", "hangs"}]
           /\ checks = RoundOf(0) /\ isChecking = TRUE
           /\ accessibility = [a \in Apps |-> "checking"]
           /\ appQuery = Apps /\ copyState = "" /\ clearTimers = 0
           /\ appChanges = 0 /\ hubClicks = 0

HubNext == \/ \E h \in Heads : HeadAnswered(h) \/ HeadRefused(h) \/ HeadTimesOut(h)
           \/ \E a \in Apps, st \in {"up", "refuses", "hangs"} : AppTurns(a, st)
           \/ \E a \in Apps, taken \in BOOLEAN : CopyValue(a, taken)
           \/ RefreshChecks \/ AppsRenewed \/ ClearFires
           \/ \E q \in AppQueries : Search(q)

HubSpec == /\ HubInit /\ [][HubNext]_hubVars
           /\ \A h \in Heads : WF_hubVars(HeadAnswered(h)) /\ WF_hubVars(HeadRefused(h)) /\ WF_hubVars(HeadTimesOut(h))
           /\ WF_hubVars(ClearFires)

----------------------------------------------------------------------------
(* The checks end: every app gets a verdict and Refresh works again         *)
(* whatever hangs and however rounds overlap, and no badge is left at       *)
(* "checking". Before that an older round may have cleared the flag and put *)
(* its verdicts over those of the newer one; nothing is said of this.       *)
ChecksEnd == []<>(~isChecking /\ \A a \in Apps : Badge(a) # "checking")
=============================================================================
