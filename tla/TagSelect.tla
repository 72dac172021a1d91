----------------------------- MODULE TagSelect ------------------------------
(***************************************************************************)
(* The tag picker (TagSelect.tsx): chips, a text being typed, and a list   *)
(* of suggestions that is asked of the server behind a debounce, or        *)
(* narrowed from the tag catalog once the page has loaded it (page.tsx).   *)
(*                                                                         *)
(* Tags are chosen case-insensitively: KeyOf is toLowerCase.               *)
(***************************************************************************)
EXTENDS Integers, SequencesExt

CONSTANTS
    Texts,          \* what can be typed, the empty text among them
    KeyOf,          \* the lower-case form of a tag or a text
    PrefixMatches,  \* text -> the tags the server offers for it, in its order
    Catalog,        \* every tag: what the page loads
    Within,         \* text -> the keys that contain it
    MAX_SHOWN,      \* suggestions shown at most
    MaxTagKeys,     \* bound: what the user does
    MaxTagFaults    \* bound: requests that fail

NoText == "no text"     \* no timer runs
EmptyText == ""

VARIABLES
    value,          \* the chips
    draft, open, active,
    remote,         \* [of, list]: the server's last suggestions and their text
    localList,      \* the page gave the whole catalog instead of a fetch
    debounce,       \* the text the 150 ms timer will ask for, or NoText
    lookups,        \* requests in flight: [id, of, alive]
    focused,
    blurTimers,     \* 120 ms timers that close the list
    tagKeys, tagFaults

tagVars == <<value, draft, open, active, remote, localList, debounce, lookups,
             focused, blurTimers, tagKeys, tagFaults>>

TagKey == tagKeys < MaxTagKeys /\ tagKeys' = tagKeys + 1

-----------------------------------------------------------------------------
\* Selection is deduped case-insensitively.
HasTag(tag) == \E i \in DOMAIN value : KeyOf[value[i]] = KeyOf[tag]

\* filtered: no tag twice, none that is a chip already; the server's list is
\* not narrowed again.
Filtered ==
    LET pool == IF localList THEN Catalog ELSE remote.list
        fits(i) ==
            /\ ~HasTag(pool[i])
            /\ \A j \in 1..(i - 1) : KeyOf[pool[j]] # KeyOf[pool[i]]
            /\ localList /\ draft # EmptyText => KeyOf[pool[i]] \in Within[draft]
        shown == {i \in DOMAIN pool : fits(i)}
        order == SetToSortSeq(shown, <)
    IN  [k \in 1..Min({MAX_SHOWN, Len(order)}) |-> pool[order[k]]]

\* The effect runs again when the text, the list's being open or the source
\* changed: its cleanup drops the timer and what is in flight.
DroppedNever(set) == set   \* a plausible bug: no `alive` flag
Dropped(set) == {[r EXCEPT !.alive = FALSE] : r \in set}
Lookup(text, opened, local) ==
    IF <<text, opened, local>> = <<draft, open, localList>>
    THEN UNCHANGED <<debounce, lookups>>
    ELSE /\ debounce' = IF opened /\ ~local THEN text ELSE NoText
         /\ lookups' = Dropped(lookups)

-----------------------------------------------------------------------------
\* Typing opens the list and highlights its first line.
TypeTag ==
    /\ TagKey /\ focused
    /\ \E t \in Texts \ {draft} : draft' = t /\ Lookup(t, TRUE, localList)
    /\ open' = TRUE /\ active' = 1
    /\ UNCHANGED <<value, remote, localList, focused, blurTimers, tagFaults>>

FocusTags ==
    /\ TagKey /\ ~focused
    /\ focused' = TRUE /\ open' = TRUE
    /\ Lookup(draft, TRUE, localList)
    /\ UNCHANGED <<value, draft, active, remote, localList, blurTimers, tagFaults>>

LeaveTags ==
    /\ TagKey /\ focused
    /\ focused' = FALSE /\ blurTimers' = blurTimers + 1
    /\ UNCHANGED <<value, draft, open, active, remote, localList, debounce, lookups,
                   tagFaults>>

\* The timer of a blur closes the list, of a field that has the focus again too.
BlurTimerFires ==
    /\ blurTimers > 0
    /\ blurTimers' = blurTimers - 1 /\ open' = FALSE
    /\ Lookup(draft, FALSE, localList)
    /\ UNCHANGED <<value, draft, active, remote, localList, focused, tagKeys, tagFaults>>

\* add: a tag that is new becomes a chip; the text is cleared either way.
AddTag(tag) ==
    /\ IF tag = EmptyText \/ HasTag(tag) THEN UNCHANGED <<value, active>>
       ELSE value' = Append(value, tag) /\ active' = 1
    /\ draft' = EmptyText
    /\ Lookup(EmptyText, open, localList)
    /\ UNCHANGED <<open, remote, localList, focused, blurTimers, tagFaults>>

\* Enter or a comma: the highlighted line of an open list, or the text.
EnterTag ==
    /\ TagKey /\ focused
    /\ AddTag(IF open /\ active \in DOMAIN Filtered THEN Filtered[active] ELSE draft)

\* The press on a line keeps the focus.
ClickSuggestion ==
    /\ TagKey /\ open
    /\ \E i \in DOMAIN Filtered : AddTag(Filtered[i])

\* The last chip, with an empty text; or a chip's own button.
RemoveTag ==
    /\ TagKey
    /\ \/ focused /\ draft = EmptyText /\ value # <<>> /\ value' = Front(value)
       \/ \E i \in DOMAIN value : value' = SelectSeq(value, LAMBDA v : v # value[i])
    /\ UNCHANGED <<draft, open, active, remote, localList, debounce, lookups, focused,
                   blurTimers, tagFaults>>

MoveHighlight ==
    /\ TagKey
    /\ \/ /\ focused /\ Filtered # <<>>
          /\ open' = TRUE /\ active' = Min({active + 1, Len(Filtered)})
          /\ Lookup(draft, TRUE, localList)
       \/ /\ focused /\ Filtered # <<>>
          /\ active' = Max({active - 1, 1}) /\ UNCHANGED <<open, debounce, lookups>>
       \/ /\ open /\ active' \in DOMAIN Filtered   \* the mouse enters a line
          /\ UNCHANGED <<open, debounce, lookups>>
    /\ UNCHANGED <<value, draft, remote, localList, focused, blurTimers, tagFaults>>

CloseSuggestions ==
    /\ TagKey /\ focused
    /\ open' = FALSE /\ Lookup(draft, FALSE, localList)
    /\ UNCHANGED <<value, draft, active, remote, localList, focused, blurTimers, tagFaults>>

-----------------------------------------------------------------------------
\* The 150 ms are over: the request goes out.
AskForTags ==
    /\ debounce # NoText
    /\ lookups' = lookups \cup {[id |-> tagKeys, of |-> debounce, alive |-> TRUE]}
    /\ debounce' = NoText
    /\ UNCHANGED <<value, draft, open, active, remote, localList, focused, blurTimers,
                   tagKeys, tagFaults>>

\* The route's answer; fetchTagSuggestions reads a failure as an empty list.
PrefixAnswer(text) == PrefixMatches[text]
TagsAnswered ==
    \E r \in lookups :
        /\ lookups' = lookups \ {r}
        /\ \E list \in {PrefixAnswer(r.of), <<>>} :
             /\ IF list = PrefixAnswer(r.of) THEN UNCHANGED tagFaults
                ELSE tagFaults < MaxTagFaults /\ tagFaults' = tagFaults + 1
             /\ remote' = IF r.alive THEN [of |-> r.of, list |-> list] ELSE remote
        /\ UNCHANGED <<value, draft, open, active, localList, debounce, focused,
                       blurTimers, tagKeys>>

\* The page has the whole catalog: the list is narrowed here from now on.
CatalogArrives ==
    /\ ~localList /\ localList' = TRUE
    /\ Lookup(draft, open, TRUE)
    /\ UNCHANGED <<value, draft, open, active, remote, focused, blurTimers, tagKeys,
                   tagFaults>>

-----------------------------------------------------------------------------
TagInit ==
    /\ value = <<>> /\ draft = EmptyText /\ open = FALSE /\ active = 1
    /\ remote = [of |-> NoText, list |-> <<>>] /\ localList = FALSE
    /\ debounce = NoText /\ lookups = {} /\ focused = FALSE /\ blurTimers = 0
    /\ tagKeys = 0 /\ tagFaults = 0

TagNext ==
    \/ TypeTag \/ FocusTags \/ LeaveTags \/ BlurTimerFires \/ EnterTag \/ ClickSuggestion
    \/ RemoveTag \/ MoveHighlight \/ CloseSuggestions \/ AskForTags \/ TagsAnswered
    \/ CatalogArrives

TagSpec == TagInit /\ [][TagNext]_tagVars

-----------------------------------------------------------------------------
\* The list changes only to the suggestions for the text that is there: the
\* answer to an older text, however late, is dropped (TagSelect.tsx:82-91).
LatestTextWins ==
    [][remote' # remote => remote'.of = draft]_tagVars

=============================================================================
