------------------------------- MODULE MCPhone -------------------------------
(***************************************************************************)
(* The parts of a captain's phone that share no state with one another, and  *)
(* the announcements that reach it, in one run: focus names the part that    *)
(* moves, the others stay as they start.                                     *)
(***************************************************************************)
EXTENDS PhoneSession, TrackingOutbox, PushTokens, CaptainScreen, OrderHistory, AvailabilitySwitch,
        OfferNews, TLC

CONSTANTS a, b, k1, k2, k3, t1, t2, p1, x, y, m1, m2, g1

VARIABLE focus

phoneVars == <<focus, sessionVars, outboxVars, pushVars, screenVars, historyVars, switchVars, newsVars>>

\* A session that has started, for the runs of the other parts.
SessionReady ==
    /\ disk = Empty
    /\ store = [Started EXCEPT !.ready = TRUE]
    /\ socket = NoUser /\ flow = Idle /\ refresh = Quiet
    /\ call = [k \in Call |-> NoRequest]
    /\ out = "no" /\ crossed = FALSE /\ torn = FALSE /\ kills = 0

Init ==
    /\ focus \in {"session", "outbox", "push", "screen", "history", "switch", "news"}
    /\ IF focus = "session" THEN SessionInit ELSE SessionReady
    /\ OutboxInit /\ PushInit /\ ScreenInit /\ HistoryInit /\ SwitchInit /\ NewsInit
    /\ focus # "push" => phone.token = t1
    /\ focus # "history" => listed = {}
    /\ focus # "switch" => rowNow = "OFFLINE"

\* What the captain sees, and what runs beneath it.
ScreensRest == UNCHANGED <<screenVars, historyVars, switchVars, newsVars>>
ServicesRest == UNCHANGED <<sessionVars, outboxVars, pushVars>>

ServicesNext ==
    \/ focus = "session" /\ SessionNext /\ UNCHANGED <<outboxVars, pushVars>>
    \/ focus = "outbox" /\ OutboxNext /\ UNCHANGED <<sessionVars, pushVars>>
    \/ focus = "push" /\ PushNext /\ UNCHANGED <<sessionVars, outboxVars>>

ScreensNext ==
    \/ focus = "screen" /\ ScreenNext /\ UNCHANGED <<historyVars, switchVars, newsVars>>
    \/ focus = "history" /\ HistoryNext /\ UNCHANGED <<screenVars, switchVars, newsVars>>
    \/ focus = "switch" /\ SwitchNext /\ UNCHANGED <<screenVars, historyVars, newsVars>>
    \/ focus = "news" /\ NewsNext /\ UNCHANGED <<screenVars, historyVars, switchVars>>

Next ==
    /\ UNCHANGED focus
    /\ \/ ServicesNext /\ ScreensRest
       \/ ScreensNext /\ ServicesRest

Spec ==
    /\ Init /\ [][Next]_phoneVars
    /\ SessionFairness /\ OutboxFairness    \* neither asks anything of a part that rests

\* The variables of the part that moves keep their types.
PhoneTypeOK ==
    /\ focus = "session" => SessionTypeOK
    /\ focus = "outbox" => OutboxTypeOK
    /\ focus = "push" => PushTypeOK
    /\ focus = "screen" => ScreenTypeOK
    /\ focus = "history" => HistoryTypeOK
    /\ focus = "switch" => SwitchTypeOK
    /\ focus = "news" => NewsTypeOK
=============================================================================
