--------------------------- MODULE DashboardSettings ---------------------------
(***************************************************************************)
(* The settings card of the dashboard and the one row behind it: where the    *)
(* maps open, and the rules of prepaid captains.  The card takes its fields  *)
(* once, from the query's data, fresh or not, and "save" sends them all.  A  *)
(* row without a whole view (NULL, as the migration makes it) opens the map  *)
(* at a fallback, and the map reports where it came to rest by itself.        *)
(*                                                                         *)
(* One card is followed; what is saved from other pages, or by a PATCH whose *)
(* card was left meanwhile, is OtherSaves.                                   *)
(***************************************************************************)
EXTENDS Naturals, FiniteSets

CONSTANTS
    Setting, Choice,    \* the fields, and what they may hold
    Initially,          \* what useState gives the fields before there is data, and the fallback of a view
    OfMap, View,        \* the fields an answered save fills in again, the map's; latitude, longitude, zoom
    Unset,              \* NULL in a column of the view
    MaxSaves            \* bound: writes of the row

ASSUME SettingsAssumption ==
    /\ Initially \in [Setting -> Choice] /\ MaxSaves \in Nat
    /\ View \subseteq OfMap /\ OfMap \subseteq Setting /\ Unset \notin Choice

VARIABLES
    settingsRow,    \* the row "default" of DashboardSettings
    saves,          \* how often it was written
    held,           \* the data of the query
    reading,        \* its fetch
    card,           \* the card: its fields, those touched since they were read or saved,
                    \* and the write they are of
    patch           \* its PATCH, and the card it was sent from

settingsVars == <<settingsRow, saves, held, reading, card, patch>>

FormValues == [Setting -> Choice]
RowValues == {values \in [Setting -> Choice \cup {Unset}] : \A f \in Setting \ View : values[f] # Unset}
SaveNo == 0 .. MaxSaves
Held == [at : {"none", "data"}, values : RowValues, no : SaveNo]
Reading == [at : {"none", "sent", "read"}, values : RowValues, no : SaveNo]
SettingsCard == [open : BOOLEAN, loaded : BOOLEAN, values : FormValues, touched : SUBSET Setting, base : SaveNo]
Patch == [at : {"none", "sent", "done"}, card : SettingsCard]

NoData(at) == [at |-> at, values |-> Initially, no |-> 0]
BlankCard(open) == [open |-> open, loaded |-> FALSE, values |-> Initially, touched |-> {}, base |-> 0]
NoPatch == [at |-> "none", card |-> BlankCard(FALSE)]

SettingsInit ==
    /\ settingsRow \in RowValues
    /\ saves = 0
    /\ held = NoData("none") /\ reading = NoData("none")
    /\ card = BlankCard(FALSE)
    /\ patch = NoPatch

-----------------------------------------------------------------------------
(* The query *)

\* isLoading: not after a fetch that failed.
SettingsLoading == held.at = "none" /\ reading.at # "none"

\* The page opens, the window gets the focus, or the distribution page asks.
SettingsFetched ==
    /\ reading.at = "none"
    /\ reading' = NoData("sent")
    /\ UNCHANGED <<settingsRow, saves, held, card, patch>>

SettingsRead ==
    /\ reading.at = "sent"
    /\ reading' = [at |-> "read", values |-> settingsRow, no |-> saves]
    /\ UNCHANGED <<settingsRow, saves, held, card, patch>>

\* resolveDashboardMapView: with a column of the view missing the whole of it is the fallback.
Resolved(values) ==
    IF \E f \in View : values[f] = Unset
    THEN [f \in Setting |-> IF f \in View THEN Initially[f] ELSE values[f]]
    ELSE values

\* Mutant: the effect sets the fields of the map only.
FilledPartly(c, data) ==
    [c EXCEPT !.loaded = TRUE, !.touched = {}, !.base = data.no,
              !.values = [f \in Setting |-> IF f \in OfMap THEN Resolved(data.values)[f] ELSE @[f]]]

\* The effect that fills the fields in, what was typed before included.
Filled(c, data) == [c EXCEPT !.loaded = TRUE, !.touched = {}, !.base = data.no, !.values = Resolved(data.values)]

\* The first data of a card fill it, later ones leave it alone.
SettingsArrive ==
    /\ reading.at = "read"
    /\ held' = [reading EXCEPT !.at = "data"]
    /\ card' = IF card.open /\ ~card.loaded THEN Filled(card, reading) ELSE card
    /\ reading' = NoData("none")
    /\ UNCHANGED <<settingsRow, saves, patch>>

SettingsFail ==
    /\ reading.at # "none"
    /\ reading' = NoData("none")
    /\ UNCHANGED <<settingsRow, saves, held, card, patch>>

\* gcTime after the last page that uses them was left.
SettingsDropped ==
    /\ ~card.open /\ held.at = "data"
    /\ held' = NoData("none")
    /\ UNCHANGED <<settingsRow, saves, reading, card, patch>>

-----------------------------------------------------------------------------
(* The card *)

\* With data in the cache, of whatever age, it is filled at once.
OpenCard ==
    /\ ~card.open
    /\ IF held.at = "data"
         THEN card' = Filled(BlankCard(TRUE), held) /\ UNCHANGED reading
         ELSE card' = BlankCard(TRUE) /\ reading' = IF reading.at = "none" THEN NoData("sent") ELSE reading
    /\ UNCHANGED <<settingsRow, saves, held, patch>>

\* The callbacks of its PATCH are dropped.
LeaveCard ==
    /\ card.open
    /\ card' = BlankCard(FALSE)
    /\ patch' = NoPatch
    /\ UNCHANGED <<settingsRow, saves, held, reading>>

\* By hand, on the map, or with the answer of a search for a place.
EditSetting(f, v) ==
    /\ card.open
    /\ card' = [card EXCEPT !.values[f] = v, !.touched = @ \cup {f}]
    /\ UNCHANGED <<settingsRow, saves, held, reading, patch>>

\* moveend: a view given to the map may be animated, or be more than its tiles have, and the map
\* reports the whole of where it came to rest (its centre by whole pixels), as it does when it is dragged.
PickerReports(view) ==
    /\ card.open
    /\ card' = [card EXCEPT !.values = [f \in Setting |-> IF f \in View THEN view[f] ELSE @[f]],
                           !.touched = @ \cup View]
    /\ UNCHANGED <<settingsRow, saves, held, reading, patch>>

SaveSettings ==
    /\ card.open /\ ~SettingsLoading
    /\ patch = NoPatch
    /\ patch' = [at |-> "sent", card |-> card]
    /\ card' = [card EXCEPT !.touched = {}]
    /\ UNCHANGED <<settingsRow, saves, held, reading>>

-----------------------------------------------------------------------------
(* The row *)

Written(values) ==
    /\ saves < MaxSaves
    /\ settingsRow' = values
    /\ saves' = saves + 1

\* From now on the fields of the card are those of this write.
PatchWrites ==
    /\ patch.at = "sent"
    /\ Written(patch.card.values)
    /\ patch' = [at |-> "done", card |-> [patch.card EXCEPT !.base = saves']]
    /\ card' = IF patch.card.loaded THEN [card EXCEPT !.base = saves'] ELSE card
    /\ UNCHANGED <<held, reading>>

\* What is read is read again; a fetch under way is given up.
SettingsInvalidated == reading' = NoData("sent")

\* The answer's fields of the map and the others the card has, of the older write of the two.
Refilled(c, answer) ==
    [c EXCEPT !.values = [f \in Setting |-> IF f \in OfMap THEN Resolved(answer.values)[f] ELSE c.values[f]],
              !.touched = @ \ OfMap,
              !.base = IF answer.base < @ THEN answer.base ELSE @]

\* The data are asked for again; the card takes the map's fields from the answer, no others.
PatchAnswered ==
    /\ patch.at = "done"
    /\ patch' = NoPatch
    /\ SettingsInvalidated
    /\ card' = Refilled(card, patch.card)
    /\ UNCHANGED <<settingsRow, saves, held>>

\* Refused, or lost on the way there or back.
PatchLost ==
    /\ patch.at # "none"
    /\ patch' = NoPatch
    /\ card' = IF patch.at = "sent" THEN [card EXCEPT !.touched = @ \cup patch.card.touched] ELSE card
    /\ UNCHANGED <<settingsRow, saves, held, reading>>

\* The API takes NULL for a column of the view as well.
OtherSaves(values) ==
    /\ Written(values)
    /\ UNCHANGED <<held, reading, card, patch>>

SettingsNext ==
    \/ SettingsFetched \/ SettingsRead \/ SettingsArrive \/ SettingsFail \/ SettingsDropped
    \/ OpenCard \/ LeaveCard \/ SaveSettings \/ PatchWrites \/ PatchAnswered \/ PatchLost
    \/ \E f \in Setting, v \in Choice : EditSetting(f, v)
    \/ \E view \in [View -> Choice] : PickerReports(view)
    \/ \E values \in RowValues : OtherSaves(values)

SettingsSpec == SettingsInit /\ [][SettingsNext]_settingsVars

-----------------------------------------------------------------------------
SettingsTypeOK ==
    /\ settingsRow \in RowValues /\ saves \in SaveNo
    /\ held \in Held /\ reading \in Reading /\ card \in SettingsCard
    /\ patch \in Patch

PatchWritten == patch.at = "sent" /\ patch'.at = "done"

\* A save changes nothing but what was touched on its card, although it sends every field: by hand,
\* or by a map that came to rest, which touches its view only; and with a column of the view missing
\* in the row it writes the fallback for the view.  As long as the card had data, and nobody wrote
\* the row since the data were read or since this card's own last save.
SaveKeepsTheRest ==
    [][PatchWritten /\ patch.card.loaded /\ patch.card.base = saves
         => \A f \in Setting \ patch.card.touched : settingsRow'[f] = Resolved(settingsRow)[f]]_settingsVars
=============================================================================
