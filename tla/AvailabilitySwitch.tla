-------------------------- MODULE AvailabilitySwitch --------------------------
(***************************************************************************)
(* A captain switches himself available or unavailable, on the home screen   *)
(* or on the profile.  The switch shows the answer of GET /me in the query    *)
(* cache; a tap changes it at once, and takes it back if the PATCH fails.     *)
(* Each screen has a mutation of its own, and GET /me is fetched by focus, by  *)
(* events and by other screens.                                            *)
(***************************************************************************)
EXTENDS Naturals

CONSTANT Nothing        \* no answer of GET /me yet, no value

VARIABLES
    rowNow,         \* the availability in the captain's row
    cached,         \* the cached answer of GET /me
    storeCopy,      \* the copy in the auth store, from the sign-in
    change,         \* change[s]: the mutation of screen s
    meFetch,        \* the fetch of GET /me under way
    doubted         \* there is a reason for the switch to differ from the row (see SwitchIsTrue)

switchVars == <<rowNow, cached, storeCopy, change, meFetch, doubted>>

Surface == {"home", "profile"}
Availability == {"AVAILABLE", "OFFLINE", "BUSY"}

\* parseAvailabilityStatus: everything but OFFLINE is shown as available; a switch offers these two.
parseAvailabilityStatus(v) == IF v = "OFFLINE" THEN "OFFLINE" ELSE "AVAILABLE"
Switchable == {"AVAILABLE", "OFFLINE"}

ASSUME SwitchAssumption == Nothing \notin Availability

NoChange == [at |-> "none", to |-> Nothing, cached |-> Nothing, storeCopy |-> Nothing]
Change == [at : {"sent", "done", "lost"}, to : Switchable, cached : Availability \cup {Nothing}, storeCopy : Availability]
         \cup {NoChange}
NoMeFetch == [at |-> "none", value |-> Nothing]
MeFetch == {NoMeFetch} \cup [at : {"sent"}, value : {Nothing}] \cup [at : {"read"}, value : Availability]

SwitchInit ==
    /\ rowNow \in Availability
    /\ cached = Nothing /\ storeCopy = rowNow
    /\ change = [s \in Surface |-> NoChange]
    /\ meFetch = NoMeFetch
    /\ doubted = FALSE

Changing == {s \in Surface : change[s].at # "none"}

\* What the screens show; the home screen shows no switch before the first answer (a failed
\* fetch hides it too, which only takes taps away).
Source == IF cached = Nothing THEN storeCopy ELSE cached
SwitchVisible(s) == s = "home" => cached # Nothing

-----------------------------------------------------------------------------
\* The tap takes effect on both copies, and keeps what they were.
Optimistic(s, next) ==
    /\ change[s].at = "none" /\ SwitchVisible(s) /\ next # parseAvailabilityStatus(Source)
    /\ change' = [change EXCEPT ![s] = [at |-> "sent", to |-> next, cached |-> cached, storeCopy |-> storeCopy]]
    /\ cached' = IF cached = Nothing THEN cached ELSE next
    /\ storeCopy' = next
    /\ doubted' = (doubted \/ Changing # {})             \* the taps of two screens overlap
    /\ UNCHANGED rowNow

\* Mutant: the fetch under way is not cancelled.
TapUncancelled(s, next) == Optimistic(s, next) /\ UNCHANGED meFetch

\* onMutate: the fetch under way is cancelled.  A screen's switch is blocked by its own mutation only.
TapSwitch(s, next) == Optimistic(s, next) /\ meFetch' = NoMeFetch

\* setAvailability writes the row; its answer is on its way, or lost.
Patched(s) ==
    /\ change[s].at = "sent"
    /\ rowNow' = change[s].to
    /\ \E at \in {"done", "lost"} :
         /\ change' = [change EXCEPT ![s].at = at]
         /\ doubted' = (doubted \/ at = "lost")
    /\ UNCHANGED <<cached, storeCopy, meFetch>>

\* The request does not arrive, or is refused.
PatchRefused(s) ==
    /\ change[s].at = "sent"
    /\ change' = [change EXCEPT ![s].at = "lost"]
    /\ UNCHANGED <<rowNow, cached, storeCopy, meFetch, doubted>>

\* onSuccess: the answer's availability; GET /me is not fetched again.
PatchSucceeds(s) ==
    /\ change[s].at = "done"
    /\ cached' = IF cached = Nothing THEN cached ELSE change[s].to
    /\ storeCopy' = change[s].to
    /\ change' = [change EXCEPT ![s] = NoChange]
    /\ UNCHANGED <<rowNow, meFetch, doubted>>

\* onError: what there was before the tap.
PatchFails(s) ==
    /\ change[s].at = "lost"
    /\ cached' = IF change[s].cached = Nothing THEN cached ELSE change[s].cached
    /\ storeCopy' = change[s].storeCopy
    /\ change' = [change EXCEPT ![s] = NoChange]
    /\ UNCHANGED <<rowNow, meFetch, doubted>>

-----------------------------------------------------------------------------
(* GET /me *)

\* A fetch that is under way serves whoever asks meanwhile.
MeFetched ==
    /\ meFetch.at = "none"
    /\ meFetch' = [at |-> "sent", value |-> Nothing]
    /\ doubted' = (doubted \/ Changing # {})             \* it may bring the row of before the tap
    /\ UNCHANGED <<rowNow, cached, storeCopy, change>>

MeRead ==
    /\ meFetch.at = "sent"
    /\ meFetch' = [at |-> "read", value |-> rowNow]
    /\ UNCHANGED <<rowNow, cached, storeCopy, change, doubted>>

\* What is fetched while nothing is being changed settles every doubt.
MeAnswered ==
    /\ meFetch.at = "read"
    /\ cached' = meFetch.value
    /\ meFetch' = NoMeFetch
    /\ doubted' = (doubted /\ ~(Changing = {} /\ meFetch.value = rowNow))
    /\ UNCHANGED <<rowNow, storeCopy, change>>

MeFails ==
    /\ meFetch.at # "none"
    /\ meFetch' = NoMeFetch
    /\ UNCHANGED <<rowNow, cached, storeCopy, change, doubted>>

\* PATCH /captains/:id/availability by an operator
SetElsewhere(next) ==
    /\ rowNow' = next
    /\ next # rowNow
    /\ doubted' = TRUE
    /\ UNCHANGED <<cached, storeCopy, change, meFetch>>

SwitchNext ==
    \/ \E s \in Surface :
         \/ \E next \in Switchable : TapSwitch(s, next)
         \/ Patched(s) \/ PatchRefused(s) \/ PatchSucceeds(s) \/ PatchFails(s)
    \/ MeFetched \/ MeRead \/ MeAnswered \/ MeFails
    \/ \E next \in Availability : SetElsewhere(next)

SwitchSpec == SwitchInit /\ [][SwitchNext]_switchVars

-----------------------------------------------------------------------------
SwitchTypeOK ==
    /\ rowNow \in Availability /\ storeCopy \in Availability
    /\ cached \in Availability \cup {Nothing}
    /\ change \in [Surface -> Change]
    /\ meFetch \in MeFetch
    /\ doubted \in BOOLEAN

\* When no tap is under way, the switch shows the captain's row: what he asked for last if the
\* API did it, what was there before if it did not, whatever fetch was under way when he tapped.
\* Until the next fetch it may differ only because taps of the two screens overlapped, the answer
\* to a tap that was carried out was lost, an operator changed the row, or a fetch that began
\* during a tap brought the row of before it.
SwitchIsTrue == Changing = {} /\ ~doubted => Source = rowNow
=============================================================================
