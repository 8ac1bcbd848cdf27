----------------------------- MODULE PhoneSession -----------------------------
(***************************************************************************)
(* The captain's session on the phone: the tokens in secure storage and in  *)
(* the store, the socket, the start of the application, signing in and out, *)
(* and the token refresh that requests answered 401 share.                 *)
(*                                                                         *)
(* A token is the user it names; that it has expired shows in the 401 a     *)
(* request may always get.  A step runs up to the next await: of the API,   *)
(* which may never answer, or of the storage, which may fail.              *)
(***************************************************************************)
EXTENDS Naturals

CONSTANTS
    User, NoUser,
    Call,       \* requests to the API at the same time
    Me,         \* the one of them that asks for the profile at the start
    MaxKills    \* bound: how often the system kills the application

ASSUME SessionAssumption == NoUser \notin User /\ Me \in Call /\ MaxKills \in Nat

VARIABLES
    disk,       \* the three keys of the secure storage
    store,      \* the auth store; ready is sessionReady
    socket,     \* the user the socket is connected as
    flow,       \* bootstrap, signIn or signOut: where it is and for whom
    refresh,    \* refreshInFlight: where it is and whose tokens it brings
    call,       \* call[k]: an authRequest and the user it was sent as
    out,        \* whether the last thing the user completed was to sign out, and whether the
                \* profile was then left in the storage
    crossed,    \* a refresh was in flight while the user signed out, and no login has since
                \* been written with nothing but its own tokens stored and none on their way
    torn,       \* a kill or a failing storage left a login half written
    kills

sessionVars == <<disk, store, socket, flow, refresh, call, out, crossed, torn, kills>>

Someone == User \cup {NoUser}

Disk == [access : Someone, refresh : Someone, snapshot : Someone]
AuthStore == [access : Someone, refresh : Someone, user : Someone, ready : BOOLEAN]

\* Where bootstrap, signIn and signOut wait.
Place == {"idle", "load", "refresh", "renewed access", "renewed refresh", "me", "profile",
          "login", "access", "refresh token", "snapshot", "wipe access", "wipe refresh", "wipe snapshot",
          "rejected"}

\* Who wipes: signOut, the start after a fatal answer, or the start's outer catch.
Reason == {"none", "sign out", "refused", "failed"}

Flow == [at : Place, user : Someone, why : Reason]
Refresh == [at : {"idle", "asked", "access", "refresh token"}, user : Someone]
Request == [at : {"none", "sent", "waiting", "again"}, as : Someone]

Empty == [access |-> NoUser, refresh |-> NoUser, snapshot |-> NoUser]
Started == [access |-> NoUser, refresh |-> NoUser, user |-> NoUser, ready |-> FALSE]
Idle == [at |-> "idle", user |-> NoUser, why |-> "none"]
Quiet == [at |-> "idle", user |-> NoUser]
NoRequest == [at |-> "none", as |-> NoUser]

Authenticated == store.access # NoUser /\ store.user # NoUser

Leaving == flow.why = "sign out"

SessionInit ==
    /\ disk \in {Empty} \cup {[access |-> u, refresh |-> u, snapshot |-> u] : u \in User}
    /\ store = Started
    /\ socket = NoUser
    /\ flow = [Idle EXCEPT !.at = "load"]
    /\ refresh = Quiet
    /\ call = [k \in Call |-> NoRequest]
    /\ out = "no"
    /\ crossed = FALSE
    /\ torn = FALSE
    /\ kills = 0

-----------------------------------------------------------------------------
(* Clearing the session, at the end of which the start is over too. *)

\* The socket goes first, then the keys one by one, the store last.
Clear(why) ==
    /\ socket' = NoUser
    /\ flow' = [at |-> "wipe access", user |-> NoUser, why |-> why]

WipeAccess ==
    /\ flow.at = "wipe access"
    /\ disk' = [disk EXCEPT !.access = NoUser]
    /\ flow' = [flow EXCEPT !.at = "wipe refresh"]
    /\ UNCHANGED <<store, socket, refresh, call, out, crossed, torn, kills>>

\* Mutant: the refresh token stays in the storage.
WipeNothing ==
    /\ flow.at = "wipe refresh"
    /\ flow' = [flow EXCEPT !.at = "wipe snapshot"]
    /\ UNCHANGED <<disk, store, socket, refresh, call, out, crossed, torn, kills>>

WipeRefresh ==
    /\ flow.at = "wipe refresh"
    /\ disk' = [disk EXCEPT !.refresh = NoUser]
    /\ flow' = [flow EXCEPT !.at = "wipe snapshot"]
    /\ UNCHANGED <<store, socket, refresh, call, out, crossed, torn, kills>>

\* That the profile cannot be deleted is ignored.
WipeSnapshot ==
    /\ flow.at = "wipe snapshot"
    /\ \/ /\ disk' = [disk EXCEPT !.snapshot = NoUser]
          /\ out' = IF Leaving THEN "yes" ELSE out
       \/ /\ UNCHANGED disk
          /\ out' = IF Leaving THEN "profile kept" ELSE out
    /\ store' = [Started EXCEPT !.ready = TRUE]
    /\ flow' = Idle
    /\ torn' = FALSE
    /\ UNCHANGED <<socket, refresh, call, crossed, kills>>

\* That a token cannot be deleted is not: signOut ends there, the store as it was; the start
\* tries again in its outer catch, and is given up there, the store still not ready.
WipeFails ==
    /\ flow.at \in {"wipe access", "wipe refresh"}
    /\ \/ Leaving /\ flow' = Idle /\ UNCHANGED socket
       \/ flow.why = "refused" /\ Clear("failed")
       \/ flow.why = "failed" /\ flow' = [flow EXCEPT !.at = "rejected"] /\ UNCHANGED socket
    /\ UNCHANGED <<disk, store, refresh, call, out, crossed, torn, kills>>

-----------------------------------------------------------------------------
(* bootstrap *)

\* The three keys are read; with an access token the profile is asked for, with a refresh
\* token alone a new pair, with neither the login screen comes up.
Load ==
    /\ flow.at = "load"
    /\ store' = [access |-> disk.access, refresh |-> disk.refresh, user |-> disk.snapshot,
                 ready |-> disk.access = NoUser /\ disk.refresh = NoUser]
    /\ IF disk.access # NoUser
         THEN /\ flow' = [flow EXCEPT !.at = "me"]
              /\ call' = [call EXCEPT ![Me] = [at |-> "sent", as |-> disk.access]]
         ELSE /\ flow' = IF disk.refresh # NoUser THEN [flow EXCEPT !.at = "refresh", !.user = disk.refresh] ELSE Idle
              /\ UNCHANGED call
    /\ UNCHANGED <<disk, socket, refresh, out, crossed, torn, kills>>

\* Mutant: the start is abandoned when the refresh fails.
RenewOrStop ==
    /\ flow.at = "refresh"
    /\ \/ flow' = [flow EXCEPT !.at = "renewed access"]
       \/ flow' = Idle
    /\ UNCHANGED <<disk, store, socket, refresh, call, out, crossed, torn, kills>>

Renew ==
    /\ flow.at = "refresh"
    /\ \/ flow' = [flow EXCEPT !.at = "renewed access"] /\ UNCHANGED socket
       \/ Clear("failed")
    /\ UNCHANGED <<disk, store, refresh, call, out, crossed, torn, kills>>

PersistRenewed ==
    /\ \/ /\ flow.at = "renewed access"
          /\ disk' = [disk EXCEPT !.access = flow.user]
          /\ flow' = [flow EXCEPT !.at = "renewed refresh"]
          /\ UNCHANGED <<store, call>>
       \/ /\ flow.at = "renewed refresh"
          /\ disk' = [disk EXCEPT !.refresh = flow.user]
          /\ store' = [store EXCEPT !.access = flow.user, !.refresh = flow.user]
          /\ flow' = [flow EXCEPT !.at = "me"]
          /\ call' = [call EXCEPT ![Me] = [at |-> "sent", as |-> flow.user]]
    /\ UNCHANGED <<socket, refresh, out, crossed, torn, kills>>

\* The profile has come: the snapshot is written, then shown, and the socket connects.
Profile ==
    /\ flow.at = "profile"
    /\ disk' = [disk EXCEPT !.snapshot = flow.user]
    /\ store' = [store EXCEPT !.user = flow.user, !.ready = TRUE]
    /\ socket' = IF store.access # NoUser THEN store.access ELSE socket
    /\ flow' = Idle
    /\ UNCHANGED <<refresh, call, out, crossed, torn, kills>>

\* The storage fails: the keys cannot be read or the new pair not be written, and the outer
\* catch wipes; or the profile cannot be written, and the start goes on with what it has.
StartFails ==
    /\ \/ flow.at \in {"load", "renewed access", "renewed refresh"} /\ Clear("failed") /\ UNCHANGED store
       \/ flow.at = "profile" /\ flow' = Idle /\ store' = [store EXCEPT !.ready = TRUE] /\ UNCHANGED socket
    /\ UNCHANGED <<disk, refresh, call, out, crossed, torn, kills>>

-----------------------------------------------------------------------------
(* signIn and signOut *)

SignIn(u) ==
    /\ flow.at = "idle" /\ store.ready /\ ~Authenticated
    /\ flow' = [at |-> "login", user |-> u, why |-> "none"]
    /\ UNCHANGED <<disk, store, socket, refresh, call, out, crossed, torn, kills>>

Login ==
    /\ flow.at = "login"
    /\ \/ /\ flow' = Idle
          /\ UNCHANGED out
       \/ /\ flow' = [flow EXCEPT !.at = "access"]
          /\ out' = "no"
    /\ UNCHANGED <<disk, store, socket, refresh, call, crossed, torn, kills>>

PersistLogin ==
    /\ \/ flow.at = "access" /\ disk' = [disk EXCEPT !.access = flow.user]
       \/ flow.at = "refresh token" /\ disk' = [disk EXCEPT !.refresh = flow.user]
    /\ flow' = [flow EXCEPT !.at = IF @ = "access" THEN "refresh token" ELSE "snapshot"]
    /\ UNCHANGED <<store, socket, refresh, call, out, crossed, torn, kills>>

LoggedIn ==
    /\ flow.at = "snapshot"
    /\ disk' = [disk EXCEPT !.snapshot = flow.user]
    /\ store' = [access |-> flow.user, refresh |-> flow.user, user |-> flow.user, ready |-> store.ready]
    /\ socket' = flow.user
    /\ flow' = Idle
    /\ torn' = FALSE
    /\ crossed' = (crossed /\ ~(refresh = Quiet /\ disk.access = flow.user /\ disk.refresh = flow.user))
    /\ UNCHANGED <<refresh, call, out, kills>>

\* The storage fails: what was written stays.
LoginFails ==
    /\ flow.at \in {"access", "refresh token", "snapshot"}
    /\ flow' = Idle
    /\ torn' = (torn \/ flow.at # "access")
    /\ UNCHANGED <<disk, store, socket, refresh, call, out, crossed, kills>>

\* The profile screen's button.
SignOut ==
    /\ flow.at = "idle" /\ store.ready /\ Authenticated
    /\ Clear("sign out")
    /\ crossed' = (crossed \/ refresh # Quiet)
    /\ UNCHANGED <<disk, store, refresh, call, out, torn, kills>>

-----------------------------------------------------------------------------
(* authRequest and performRefresh *)

SendCall(k) ==
    /\ k # Me
    /\ call[k].at = "none" /\ Authenticated /\ store.ready
    /\ call' = [call EXCEPT ![k] = [at |-> "sent", as |-> store.access]]
    /\ UNCHANGED <<disk, store, socket, flow, refresh, out, crossed, torn, kills>>

\* What bootstrap does with the outcome of its request: the profile, a fatal answer
\* (401, 403, 404), or any other failure, after which it shows the snapshot it has.
AnswerMe(k, outcome) ==
    IF k # Me THEN UNCHANGED <<store, socket, flow>>
    ELSE CASE outcome = "ok" -> flow' = [flow EXCEPT !.at = "profile", !.user = call[k].as] /\ UNCHANGED <<store, socket>>
           [] outcome = "fatal" -> Clear("refused") /\ UNCHANGED store
           [] outcome = "failed" -> flow' = Idle /\ store' = [store EXCEPT !.ready = TRUE] /\ UNCHANGED socket

\* Any answer but a first 401 ends the request.
Finish(k, outcome) ==
    /\ call[k].at \in {"sent", "again"}
    /\ call' = [call EXCEPT ![k] = NoRequest]
    /\ AnswerMe(k, outcome)
    /\ UNCHANGED <<disk, refresh, out, crossed, torn, kills>>

\* Mutant: the refresh token is the one that was there when the request was sent.
UnauthorizedAsSent(k) ==
    /\ call[k].at = "sent"
    /\ IF store.refresh # NoUser
         THEN /\ call' = [call EXCEPT ![k].at = "waiting"]
              /\ refresh' = IF refresh = Quiet THEN [at |-> "asked", user |-> call[k].as] ELSE refresh
              /\ crossed' = (crossed \/ Leaving)
              /\ UNCHANGED <<store, socket, flow>>
         ELSE /\ call' = [call EXCEPT ![k] = NoRequest]
              /\ AnswerMe(k, "fatal")
              /\ UNCHANGED <<refresh, crossed>>
    /\ UNCHANGED <<disk, out, torn, kills>>

\* A first 401: with a refresh token in the store, the request waits for the refresh in
\* flight, which it starts if there is none.
Unauthorized(k) ==
    /\ call[k].at = "sent"
    /\ IF store.refresh # NoUser
         THEN /\ call' = [call EXCEPT ![k].at = "waiting"]
              /\ refresh' = IF refresh = Quiet THEN [at |-> "asked", user |-> store.refresh] ELSE refresh
              /\ crossed' = (crossed \/ Leaving)
              /\ UNCHANGED <<store, socket, flow>>
         ELSE /\ call' = [call EXCEPT ![k] = NoRequest]
              /\ AnswerMe(k, "fatal")
              /\ UNCHANGED <<refresh, crossed>>
    /\ UNCHANGED <<disk, out, torn, kills>>

\* The refresh fails, or the storage while its pair is written: whoever waits for it fails
\* with its 401.
RefreshFails ==
    /\ refresh.at # "idle"
    /\ refresh' = Quiet
    /\ call' = [k \in Call |-> IF call[k].at = "waiting" THEN NoRequest ELSE call[k]]
    /\ IF call[Me].at = "waiting" THEN AnswerMe(Me, "fatal") ELSE UNCHANGED <<socket, flow>>
    /\ UNCHANGED <<disk, store, out, crossed, torn, kills>>

RefreshAnswers ==
    /\ refresh.at = "asked"
    /\ refresh' = [refresh EXCEPT !.at = "access"]
    /\ UNCHANGED <<disk, store, socket, flow, call, out, crossed, torn, kills>>

\* The new pair is written to the storage, key by key, then to the store; the socket
\* connects anew and whoever waited asks again with the token of the store.
RefreshPersists ==
    \/ /\ refresh.at = "access"
       /\ disk' = [disk EXCEPT !.access = refresh.user]
       /\ refresh' = [refresh EXCEPT !.at = "refresh token"]
       /\ UNCHANGED <<store, socket, flow, call, out, crossed, torn, kills>>
    \/ /\ refresh.at = "refresh token"
       /\ disk' = [disk EXCEPT !.refresh = refresh.user]
       /\ store' = [store EXCEPT !.access = refresh.user, !.refresh = refresh.user]
       /\ socket' = refresh.user
       /\ refresh' = Quiet
       /\ call' = [k \in Call |-> IF call[k].at = "waiting" THEN [at |-> "again", as |-> refresh.user] ELSE call[k]]
       /\ UNCHANGED <<flow, out, crossed, torn, kills>>

-----------------------------------------------------------------------------
\* The system kills the application and it is started again: only the storage is left.
Kill ==
    /\ kills < MaxKills
    /\ store' = Started
    /\ socket' = NoUser
    /\ flow' = [Idle EXCEPT !.at = "load"]
    /\ refresh' = Quiet
    /\ call' = [k \in Call |-> NoRequest]
    /\ torn' = (torn \/ flow.at \in {"refresh token", "snapshot"})
    /\ kills' = kills + 1
    /\ UNCHANGED <<disk, out, crossed>>

\* bootstrap, signIn and signOut go on when the storage has answered.
FlowStep ==
    \/ WipeAccess \/ WipeRefresh \/ WipeSnapshot \/ WipeFails
    \/ Load \/ PersistRenewed \/ Profile \/ StartFails
    \/ PersistLogin \/ LoggedIn \/ LoginFails

Answered(k) == Unauthorized(k) \/ \E outcome \in {"ok", "fatal", "failed"} : Finish(k, outcome)

RefreshStep == RefreshFails \/ RefreshAnswers \/ RefreshPersists

SessionNext ==
    \/ FlowStep \/ Renew \/ Login \/ RefreshStep \/ SignOut \/ Kill
    \/ \E u \in User : SignIn(u)
    \/ \E k \in Call : SendCall(k) \/ Answered(k)

\* The storage answers, with a result or an error.  The API need not: fetch has no timeout.
SessionFairness == WF_sessionVars(FlowStep) /\ WF_sessionVars(RefreshPersists)

SessionSpec == SessionInit /\ [][SessionNext]_sessionVars /\ SessionFairness

-----------------------------------------------------------------------------
SessionTypeOK ==
    /\ disk \in Disk
    /\ store \in AuthStore
    /\ socket \in Someone
    /\ flow \in Flow
    /\ refresh \in Refresh
    /\ call \in [Call -> Request]
    /\ out \in {"no", "yes", "profile kept"} /\ crossed \in BOOLEAN /\ torn \in BOOLEAN
    /\ kills \in 0 .. MaxKills

\* Who signs out is signed out for good, kills and late answers included: no token in the
\* store or the storage and no socket, unless a refresh was in flight while he did it.  Of the
\* profile nothing is left either, unless its deletion failed, which clearAuthStorage ignores.
SignedOutStays ==
    out # "no" /\ ~crossed /\ flow.at = "idle"
    => /\ disk.access = NoUser /\ disk.refresh = NoUser /\ store.access = NoUser /\ store.refresh = NoUser
       /\ socket = NoUser
       /\ out = "yes" => disk.snapshot = NoUser /\ store.user = NoUser

\* The profile on the screen, the tokens that requests carry, those a restart will find and
\* the socket are one user's, also when a request sent for one captain is answered for the
\* next and when a sign out was cut short by the storage; with the same exception, and unless
\* a kill or a failing storage cut a login in two.
OneUser ==
    Authenticated /\ store.ready /\ flow.at = "idle" /\ ~crossed /\ ~torn
    => /\ store.access = store.user
       /\ {store.refresh, disk.access, disk.refresh, socket} \subseteq {store.user, NoUser}

\* The start waits for the API.
AwaitsApi ==
    \/ flow.at = "refresh"
    \/ flow.at = "me" /\ (call[Me].at = "waiting" => refresh.at = "asked")

\* The start always ends, with the application or the login screen, whatever fails, but in two
\* cases: the API never answers a request it waits for, which nothing limits (client.ts:53,
\* client.ts:120), or the storage fails to delete the tokens, in the outer catch as well
\* (auth-store.ts:147), and nobody catches that.
StartEnds == []<>store.ready \/ <>[]AwaitsApi \/ <>[](flow.at = "rejected")
=============================================================================
