---------------------------- MODULE SettingsSync ----------------------------
(***************************************************************************)
(* The library settings (lib/store/settings.tsx): one payload in the       *)
(* browser's localStorage, read and written by every open tab, and the     *)
(* settings page (app/library/settings/page.tsx) that edits it; and the    *)
(* section of that page that edits the ingest service's configuration.     *)
(*                                                                         *)
(* A tab mounts with the defaults and runs two effects: one reads the      *)
(* payload, the other, once the tab is hydrated, writes its settings back. *)
(* Between any two of these steps another tab may run, or the tab close.   *)
(* One key stands for each way a key is coerced: a number with bounds, a   *)
(* choice out of a list, and a set of classes.                             *)
(***************************************************************************)
EXTENDS Integers, FiniteSets

CONSTANTS
    Tabs,
    PageSizes,          \* an interval: the bounds of a number setting
    ViewModes,
    SafetyClasses,
    DefaultSettings,    \* a member of Settings
    OldPayloads,        \* what an older version, or nobody, may have stored
    MaxSettingsEdits    \* bound: clicks on the page

Settings == [pageSize : PageSizes, viewMode : ViewModes, safety : SUBSET SafetyClasses]
Keys == DOMAIN DefaultSettings

ASSUME SettingsAssumption ==
    /\ DefaultSettings \in Settings
    /\ \E low, high \in PageSizes : PageSizes = low..high
    /\ PageSizes \subseteq Int /\ \A p \in OldPayloads : p.pageSize \in Int

NotANumber == -1
NotAList == {""}
\* No payload, or a malformed one: no field is what it should be.
Absent == [pageSize |-> NotANumber, viewMode |-> "", safety |-> NotAList]

VARIABLES
    payload,    \* localStorage
    tab,        \* per tab: closed, mounted (defaults, not hydrated), hydrated, or persisting
    inUse,      \* per tab: the settings of its context
    basis,      \* per tab and key: the values it read or its user chose (a history)
    serverConfig, shownConfig, saves, rescan, configState,
    settingsEdits

tabVars == <<payload, tab, inUse, basis>>
configVars == <<serverConfig, shownConfig, saves, rescan, configState>>
settingsVars == <<tabVars, configVars, settingsEdits>>

SettingsEdit == settingsEdits < MaxSettingsEdits /\ settingsEdits' = settingsEdits + 1

-----------------------------------------------------------------------------
(* mergeSettings.                                                          *)

Lowest == CHOOSE n \in PageSizes : \A m \in PageSizes : n <= m
Highest == CHOOSE n \in PageSizes : \A m \in PageSizes : n >= m
Clamped(n) == IF n < Lowest THEN Lowest ELSE IF n > Highest THEN Highest ELSE n

\* A field that is missing or of another type inherits the default.
Merged(raw) ==
    [pageSize |-> IF raw.pageSize = NotANumber THEN DefaultSettings.pageSize
                  ELSE Clamped(raw.pageSize),
     viewMode |-> IF raw.viewMode \in ViewModes THEN raw.viewMode
                  ELSE DefaultSettings.viewMode,
     safety |-> IF raw.safety = NotAList THEN DefaultSettings.safety
                ELSE raw.safety \cap SafetyClasses]

-----------------------------------------------------------------------------
(* A tab.                                                                  *)

OpenTab(t) ==
    /\ tab[t] = "closed"
    /\ tab' = [tab EXCEPT ![t] = "mounted"]
    /\ inUse' = [inUse EXCEPT ![t] = DefaultSettings]
    /\ basis' = [basis EXCEPT ![t] = [k \in Keys |-> {}]]
    /\ UNCHANGED <<payload, configVars, settingsEdits>>

\* The first effect; with no payload the defaults stay.
Hydrate(t) ==
    /\ tab[t] = "mounted"
    /\ tab' = [tab EXCEPT ![t] = "persisting"]
    /\ inUse' = [inUse EXCEPT ![t] = Merged(payload)]
    /\ basis' = [basis EXCEPT ![t] = [k \in Keys |-> @[k] \cup {Merged(payload)[k]}]]
    /\ UNCHANGED <<payload, configVars, settingsEdits>>

\* The second effect runs after every change of the settings, and after the
\* mount, when it returns early.
\* Mutant: the effect of the mount writes as well.
MayPersistAlways(t) == tab[t] \in {"mounted", "persisting"}
MayPersist(t) == tab[t] = "persisting"

Persist(t) ==
    /\ MayPersist(t)
    /\ payload' = inUse[t]
    /\ tab' = [tab EXCEPT ![t] = IF @ = "persisting" THEN "hydrated" ELSE @]
    /\ UNCHANGED <<inUse, basis, configVars, settingsEdits>>

CloseTab(t) ==
    /\ tab[t] # "closed"
    /\ tab' = [tab EXCEPT ![t] = "closed"]
    /\ UNCHANGED <<payload, inUse, basis, configVars, settingsEdits>>

\* setKey, from any control of the page: it becomes the user's choice.
SetKey(t, k, v) ==
    /\ SettingsEdit /\ tab[t] = "hydrated"
    /\ inUse' = [inUse EXCEPT ![t][k] = v]
    /\ basis' = [basis EXCEPT ![t][k] = @ \cup {v}]
    /\ tab' = [tab EXCEPT ![t] = "persisting"]
    /\ UNCHANGED <<payload, configVars>>

SlideNumber(t) == \E n \in PageSizes : SetKey(t, "pageSize", n)
ChooseSegment(t) == \E v \in ViewModes : SetKey(t, "viewMode", v)

\* toggleDefaultSafety.
ToggleDefaultSafety(t) ==
    \E c \in SafetyClasses :
      SetKey(t, "safety", IF c \in inUse[t].safety THEN inUse[t].safety \ {c}
                          ELSE inUse[t].safety \cup {c})

\* The button is enabled while a setting is not the default.
Dirty(t) == inUse[t] # DefaultSettings
Reset(t) ==
    /\ SettingsEdit /\ tab[t] = "hydrated" /\ Dirty(t)
    /\ inUse' = [inUse EXCEPT ![t] = DefaultSettings]
    /\ basis' = [basis EXCEPT ![t] = [k \in Keys |-> @[k] \cup {DefaultSettings[k]}]]
    /\ tab' = [tab EXCEPT ![t] = "persisting"]
    /\ UNCHANGED <<payload, configVars>>

-----------------------------------------------------------------------------
(* IngestSettingsSection: the switch for AI labelling.                     *)

LoadConfig ==
    /\ configState = "loading"
    /\ \/ shownConfig' = {serverConfig} /\ configState' = "idle"
       \/ shownConfig' = {} /\ configState' = "error"
    /\ UNCHANGED <<tabVars, serverConfig, saves, rescan, settingsEdits>>

\* Each change is sent at once and shown before it is stored.
SaveConfig ==
    /\ SettingsEdit /\ shownConfig # {}
    /\ \E v \in BOOLEAN :
         /\ shownConfig' = {v}
         /\ saves' = saves \cup {[of |-> v, at |-> settingsEdits, stored |-> FALSE]}
    /\ configState' = "saving"
    /\ UNCHANGED <<tabVars, serverConfig, rescan>>

ConfigStored ==
    /\ \E s \in saves :
         /\ ~s.stored
         /\ saves' = (saves \ {s}) \cup {[s EXCEPT !.stored = TRUE]}
         /\ serverConfig' = s.of
    /\ UNCHANGED <<tabVars, shownConfig, rescan, configState, settingsEdits>>

\* The answer replaces what is shown, whichever request it answers; a failed
\* save leaves the value that was not stored.
ConfigAnswered ==
    /\ \E s \in saves :
         /\ saves' = saves \ {s}
         /\ \/ s.stored /\ shownConfig' = {s.of} /\ configState' = "saved"
            \/ UNCHANGED shownConfig /\ configState' = "error"
    /\ UNCHANGED <<tabVars, serverConfig, rescan, settingsEdits>>

RescanNow ==
    /\ SettingsEdit /\ shownConfig # {} /\ rescan # "running"
    /\ rescan' = "running"
    /\ UNCHANGED <<tabVars, serverConfig, shownConfig, saves, configState>>
RescanAnswered ==
    /\ rescan = "running" /\ rescan' \in {"done", "error"}
    /\ UNCHANGED <<tabVars, serverConfig, shownConfig, saves, configState, settingsEdits>>

-----------------------------------------------------------------------------
SettingsInit ==
    /\ payload \in OldPayloads
    /\ tab = [t \in Tabs |-> "closed"]
    /\ inUse = [t \in Tabs |-> DefaultSettings]
    /\ basis = [t \in Tabs |-> [k \in Keys |-> {}]]
    /\ serverConfig \in BOOLEAN /\ shownConfig = {} /\ saves = {}
    /\ rescan = "idle" /\ configState \in {"loading", "closed"}
    /\ settingsEdits = 0

TabNext ==
    /\ configState = "closed"
    /\ \E t \in Tabs : \/ OpenTab(t) \/ Hydrate(t) \/ Persist(t) \/ CloseTab(t)
                       \/ SlideNumber(t) \/ ChooseSegment(t) \/ ToggleDefaultSafety(t)
                       \/ Reset(t)

SettingsNext ==
    \/ TabNext
    \/ LoadConfig \/ SaveConfig \/ ConfigStored \/ ConfigAnswered
    \/ RescanNow \/ RescanAnswered

SettingsSpec == SettingsInit /\ [][SettingsNext]_settingsVars

-----------------------------------------------------------------------------
\* What a tab stores was read by it or chosen by its user, key by key, and
\* is within bounds whatever an older version left: a stored choice never
\* gives way to a default of the first render (settings.tsx:261-262).
StoredChoicesSurvive ==
    [][payload' # payload =>
         \E t \in Tabs : \A k \in Keys :
           payload' \in Settings /\ payload'[k] \in basis[t][k]]_settingsVars
=============================================================================
