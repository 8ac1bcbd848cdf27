------------------------------ MODULE PushTokens ------------------------------
(***************************************************************************)
(* Which phone a captain's notifications reach: the phone registers its      *)
(* Expo token while a captain is signed in, the API keeps one row per token  *)
(* and closes it when Expo, at once or in a receipt 15 s later, says that    *)
(* the device is not registered.                                           *)
(***************************************************************************)
EXTENDS FiniteSets, Naturals

CONSTANTS
    Captain, NoCaptain,
    Token, NoToken,
    Push        \* bound: notifications whose receipts are awaited at once

ASSUME PushAssumption == NoCaptain \notin Captain /\ NoToken \notin Token

VARIABLES
    rows,       \* captainPushToken by token: its captain, NoCaptain before the first upsert
    phone,      \* who is signed in, the token Expo gives, submittedTokenRef
    sync,       \* syncPushToken: where it is; listening: addPushTokenListener's request
    listening,
    push,       \* push[p]: a notification, the rows it was sent for, those a receipt will refuse
    dead,       \* tokens Expo does not deliver to
    late        \* a registration was under way at a sign-out, or a refusal at a registration

pushVars == <<rows, phone, sync, listening, push, dead, late>>

SomeCaptain == Captain \cup {NoCaptain}
SomeToken == Token \cup {NoToken}

PushRow == [user : SomeCaptain, active : BOOLEAN]
Phone == [user : SomeCaptain, token : SomeToken, submitted : SomeToken]
Registration == [at : {"idle", "token", "sent", "answered"}, token : SomeToken, user : SomeCaptain, cancelled : BOOLEAN]
Notification == [at : {"none", "sent", "receipts"}, rows : SUBSET Token, refused : SUBSET Token]

NoRegistration == [at |-> "idle", token |-> NoToken, user |-> NoCaptain, cancelled |-> FALSE]
NoNotification == [at |-> "none", rows |-> {}, refused |-> {}]

PushInit ==
    /\ rows = [t \in Token |-> [user |-> NoCaptain, active |-> FALSE]]
    /\ \E t \in Token : phone = [user |-> NoCaptain, token |-> t, submitted |-> NoToken]
    /\ sync = NoRegistration /\ listening = NoRegistration
    /\ push = [p \in Push |-> NoNotification]
    /\ dead = {}
    /\ late = FALSE

-----------------------------------------------------------------------------
(* registerCaptainPushToken *)

\* Mutant: a row that is there keeps its captain.
UpsertKeeping(t, u) ==
    /\ rows' = [rows EXCEPT ![t] = [user |-> IF @.user = NoCaptain THEN u ELSE @.user, active |-> TRUE]]
    /\ late' = (late \/ \E p \in Push : t \in push[p].refused)

\* The row of the token becomes the caller's, and active.
Upsert(t, u) ==
    /\ rows' = [rows EXCEPT ![t] = [user |-> u, active |-> TRUE]]
    /\ late' = (late \/ \E p \in Push : t \in push[p].refused)

-----------------------------------------------------------------------------
(* CaptainPushSync *)

Start(u) == [at |-> "token", token |-> NoToken, user |-> u, cancelled |-> FALSE]

\* isAuthed: the effect runs and starts a first sync, unless one is still in flight.
SignedIn(u) ==
    /\ phone.user = NoCaptain /\ phone.token # NoToken
    /\ phone' = [phone EXCEPT !.user = u]
    /\ sync' = IF sync.at = "idle" THEN Start(u) ELSE sync
    /\ UNCHANGED <<rows, listening, push, dead, late>>

\* The effect is cleaned up and forgets the submitted token; what is in flight goes on.
SignedOut ==
    /\ phone.user # NoCaptain
    /\ phone' = [phone EXCEPT !.user = NoCaptain, !.submitted = NoToken]
    /\ sync' = IF sync.at = "idle" THEN sync ELSE [sync EXCEPT !.cancelled = TRUE]
    /\ late' = (late \/ sync.at \in {"sent", "answered"} \/ listening # NoRegistration)
    /\ UNCHANGED <<rows, listening, push, dead>>

\* Every minute, and when the application comes to the front.
SyncStarts ==
    /\ phone.user # NoCaptain /\ sync.at = "idle"
    /\ sync' = Start(phone.user)
    /\ UNCHANGED <<rows, phone, listening, push, dead, late>>

\* The permission and the token are there, or not; a token submitted in this session is not
\* sent again.
TokenRead ==
    /\ sync.at = "token"
    /\ \/ sync' = NoRegistration
       \/ /\ ~sync.cancelled /\ phone.token # phone.submitted
          /\ sync' = [sync EXCEPT !.at = "sent", !.token = phone.token, !.user = phone.user]
    /\ UNCHANGED <<rows, phone, listening, push, dead, late>>

\* The API commits the registration, or refuses or never sees it.
SyncCommits ==
    /\ sync.at = "sent"
    /\ \/ sync' = NoRegistration /\ UNCHANGED <<rows, late>>
       \/ sync' = [sync EXCEPT !.at = "answered"] /\ Upsert(sync.token, sync.user)
    /\ UNCHANGED <<phone, listening, push, dead>>

\* Its answer comes, or is lost; cancelled is not looked at again.
SyncAnswered ==
    /\ sync.at = "answered"
    /\ sync' = NoRegistration
    /\ phone' \in {phone, [phone EXCEPT !.submitted = sync.token]}
    /\ UNCHANGED <<rows, listening, push, dead, late>>

\* Expo gives the phone a new token: the old one is refused from now on, and the listener
\* registers the new one.
TokenChanges ==
    /\ phone.token # NoToken /\ listening = NoRegistration
    /\ \E t \in Token \ (dead \cup {phone.token}) :
         /\ phone' = [phone EXCEPT !.token = t]
         /\ dead' = dead \cup {phone.token}
         /\ listening' = IF phone.user # NoCaptain /\ phone.submitted # t
                           THEN [at |-> "sent", token |-> t, user |-> phone.user, cancelled |-> FALSE]
                           ELSE NoRegistration
    /\ UNCHANGED <<rows, sync, push, late>>

ListenerCommits ==
    /\ listening.at = "sent"
    /\ \/ listening' = NoRegistration /\ UNCHANGED <<rows, late>>
       \/ listening' = [listening EXCEPT !.at = "answered"] /\ Upsert(listening.token, listening.user)
    /\ UNCHANGED <<phone, sync, push, dead>>

ListenerAnswered ==
    /\ listening.at = "answered"
    /\ listening' = NoRegistration
    /\ phone' \in {phone, [phone EXCEPT !.submitted = listening.token]}
    /\ UNCHANGED <<rows, sync, push, dead, late>>

\* The application is removed from the phone, and put back with the same token or another.
Removed ==
    /\ phone.token # NoToken
    /\ phone' = [user |-> NoCaptain, token |-> NoToken, submitted |-> NoToken]
    /\ sync' = NoRegistration /\ listening' = NoRegistration
    /\ dead' = dead \cup {phone.token}
    /\ UNCHANGED <<rows, push, late>>

Installed ==
    /\ phone.token = NoToken
    /\ \E t \in Token : phone' = [phone EXCEPT !.token = t] /\ dead' = dead \ {t}
    /\ UNCHANGED <<rows, sync, listening, push, late>>

-----------------------------------------------------------------------------
(* sendToCaptainUser and the receipts *)

ActiveRows(u) == {t \in Token : rows[t].user = u /\ rows[t].active}

Close(ts) == [t \in Token |-> IF t \in ts THEN [rows[t] EXCEPT !.active = FALSE] ELSE rows[t]]

Send(p, u) ==
    /\ push[p] = NoNotification /\ ActiveRows(u) # {}
    /\ push' = [push EXCEPT ![p] = [at |-> "sent", rows |-> ActiveRows(u), refused |-> {}]]
    /\ UNCHANGED <<rows, phone, sync, listening, dead, late>>

\* Expo takes the messages: what it refuses, it says in the tickets or in the receipts.
Tickets(p) ==
    /\ push[p].at = "sent"
    /\ push' = [push EXCEPT ![p].at = "receipts", ![p].refused = push[p].rows \cap dead]
    /\ UNCHANGED <<rows, phone, sync, listening, dead, late>>

\* Mutant: one refused message closes every row of the notification.
RefusalsCloseAll(p) ==
    /\ push[p].at = "receipts"
    /\ rows' = IF push[p].refused = {} THEN rows ELSE Close(push[p].rows)
    /\ push' = [push EXCEPT ![p] = NoNotification]
    /\ UNCHANGED <<phone, sync, listening, dead, late>>

\* What is awaited when the refusals ts are known.
AfterRefusals(n, ts) == IF ts = n.refused THEN NoNotification ELSE [n EXCEPT !.refused = @ \ ts]

\* The rows of refused messages are closed by id: those of the tickets when they are read,
\* those of the receipts 15 s later.
Refusals(p) ==
    /\ push[p].at = "receipts"
    /\ \E ts \in SUBSET push[p].refused :
         /\ rows' = Close(ts)
         /\ push' = [push EXCEPT ![p] = AfterRefusals(push[p], ts)]
    /\ UNCHANGED <<phone, sync, listening, dead, late>>

\* Either request to Expo fails: nothing is closed.
ExpoFails(p) ==
    /\ push[p] # NoNotification
    /\ push' = [push EXCEPT ![p] = NoNotification]
    /\ UNCHANGED <<rows, phone, sync, listening, dead, late>>

PushNext ==
    \/ \E u \in Captain : SignedIn(u) \/ \E p \in Push : Send(p, u)
    \/ SignedOut \/ SyncStarts \/ TokenRead \/ SyncCommits \/ SyncAnswered
    \/ TokenChanges \/ ListenerCommits \/ ListenerAnswered \/ Removed \/ Installed
    \/ \E p \in Push : Tickets(p) \/ Refusals(p) \/ ExpoFails(p)

PushSpec == PushInit /\ [][PushNext]_pushVars

-----------------------------------------------------------------------------
PushTypeOK ==
    /\ rows \in [Token -> PushRow]
    /\ phone \in Phone
    /\ sync \in Registration /\ listening \in Registration
    /\ push \in [Push -> Notification]
    /\ dead \subseteq Token
    /\ late \in BOOLEAN

\* A phone that takes its token for registered, and so does not register it again in this
\* session, is the one the signed-in captain's notifications go to: whatever receipts and
\* token changes come in between, unless a registration was under way at a sign-out, or the
\* refusal of the same token at its registration.
SubmittedReaches ==
    /\ phone.user # NoCaptain /\ phone.submitted # NoToken /\ phone.submitted = phone.token
    /\ ~late
    => rows[phone.submitted] = [user |-> phone.user, active |-> TRUE]

=============================================================================
