----------------------------- MODULE PhoneProofs -----------------------------
(***************************************************************************)
(* Proofs about the captain's phone: the session, the push tokens, the list *)
(* of orders, the buttons, the switch and the outbox, and the              *)
(* announcements that reach it.                                            *)
(***************************************************************************)
EXTENDS PhoneSession, PushTokens, CaptainScreen, CaptainTaps, AvailabilitySwitch, TrackingOutbox,
        OfferNews, OrderHistory, SequenceTheorems, FiniteSetTheorems, WellFoundedInduction, TLAPS

-----------------------------------------------------------------------------
(* PhoneSession, for any users and requests. SignedOutStays and OneUser are of the        *)
(* moments when no flow runs; what makes them inductive is said of each step of the       *)
(* flows: what a wipe has done so far, what a login has stored so far, and whose the rest *)
(* is.                                                                                    *)

Wiping == {"wipe access", "wipe refresh", "wipe snapshot"}
Starting == {"load", "refresh", "renewed access", "renewed refresh", "me", "profile"}
SigningIn == {"login", "access", "refresh token", "snapshot"}

\* The application starts, or gives up starting: nobody else does anything then.
Boots == flow.at \in Starting \cup {"rejected"} \/ (flow.at \in Wiping /\ ~Leaving)

FlowInv ==
    /\ Leaving => flow.at \in Wiping
    /\ store.ready <=> ~Boots
    /\ call[Me].at # "none" => flow.at = "me"
    /\ Boots => /\ \A k \in Call : k # Me => call[k].at = "none"
                /\ refresh # Quiet => flow.at = "me" /\ call[Me].at = "waiting"
    /\ out # "no" => flow.at \notin {"access", "refresh token", "snapshot"}

\* What is wiped stays wiped.
WipeInv ==
    ~crossed /\ flow.at \in Wiping =>
        /\ refresh = Quiet /\ socket = NoUser
        /\ flow.at # "wipe access" => disk.access = NoUser
        /\ flow.at = "wipe snapshot" => disk.refresh = NoUser
        /\ Leaving => Authenticated

\* Nothing that is still under way can bring tokens to who has none.
LoginInv ==
    ~crossed /\ (flow.at \in SigningIn \/ (flow.at = "idle" /\ ~Authenticated)) =>
        /\ refresh = Quiet /\ ~Authenticated
        /\ store.refresh = NoUser \/ \A k \in Call : call[k].at = "none"
        /\ flow.at \in {"refresh token", "snapshot"} => disk.access = flow.user
        /\ flow.at = "snapshot" => disk.refresh = flow.user

OutInv ==
    out # "no" /\ ~crossed =>
        /\ disk.access = NoUser /\ disk.refresh = NoUser /\ store.access = NoUser /\ store.refresh = NoUser
        /\ out = "yes" => disk.snapshot = NoUser /\ store.user = NoUser
        /\ socket = NoUser /\ refresh = Quiet
        /\ flow.at \in {"idle", "load", "login", "rejected"} \cup Wiping

\* Whatever is stored, shown, connected or under way is u's.
Owns(u) ==
    /\ disk.access \in {u, NoUser} /\ disk.refresh \in {u, NoUser} /\ disk.snapshot \in {u, NoUser}
    /\ store.access \in {u, NoUser} /\ store.refresh \in {u, NoUser} /\ store.user \in {u, NoUser}
    /\ socket \in {u, NoUser} /\ refresh.user \in {u, NoUser}
    /\ flow.at = "me" => call[Me].as \in {u, NoUser}
    /\ flow.at \in Starting => flow.user \in {u, NoUser}

OwnerInv ==
    ~crossed /\ ~torn /\ flow.at \notin {"refresh token", "snapshot"} => \E u \in Someone : Owns(u)

SessionInv == SessionTypeOK /\ FlowInv /\ WipeInv /\ LoginInv /\ OutInv /\ OwnerInv

LEMMA Records ==
  /\ NoUser \in Someone /\ User \subseteq Someone
  /\ "none" \in Reason
  /\ Empty \in Disk /\ Empty.access = NoUser /\ Empty.refresh = NoUser /\ Empty.snapshot = NoUser
  /\ Started \in AuthStore /\ Started.access = NoUser /\ Started.refresh = NoUser /\ Started.user = NoUser
  /\ Started.ready = FALSE
  /\ Idle \in Flow /\ Idle.at = "idle" /\ Idle.user = NoUser /\ Idle.why = "none"
  /\ Quiet \in Refresh /\ Quiet.at = "idle" /\ Quiet.user = NoUser
  /\ NoRequest \in Request /\ NoRequest.at = "none" /\ NoRequest.as = NoUser
  BY DEF Someone, Empty, Disk, Started, AuthStore, Idle, Flow, Place, Reason, Quiet, Refresh, NoRequest, Request

\* What a step leaves in a record.
DiskIs(a, r, s) == disk' \in Disk /\ disk'.access = a /\ disk'.refresh = r /\ disk'.snapshot = s
StoreIs(a, r, u, ready) ==
    store' \in AuthStore /\ store'.access = a /\ store'.refresh = r /\ store'.user = u /\ store'.ready = ready
FlowIs(at, u, why) == flow' \in Flow /\ flow'.at = at /\ flow'.user = u /\ flow'.why = why
RefreshIs(at, u) == refresh' \in Refresh /\ refresh'.at = at /\ refresh'.user = u

LEMMA DiskEdits ==
  ASSUME disk \in Disk, NEW u \in Someone
  PROVE  /\ disk' = [disk EXCEPT !.access = u] => DiskIs(u, disk.refresh, disk.snapshot)
         /\ disk' = [disk EXCEPT !.refresh = u] => DiskIs(disk.access, u, disk.snapshot)
         /\ disk' = [disk EXCEPT !.snapshot = u] => DiskIs(disk.access, disk.refresh, u)
  BY DEF Disk, DiskIs

LEMMA FlowEdits ==
  ASSUME flow \in Flow, NEW p \in Place, NEW u \in Someone, NEW b \in Reason
  PROVE  /\ flow' = [flow EXCEPT !.at = p] => FlowIs(p, flow.user, flow.why)
         /\ flow' = [flow EXCEPT !.at = p, !.user = u] => FlowIs(p, u, flow.why)
         /\ flow' = [at |-> p, user |-> u, why |-> b] => FlowIs(p, u, b)
         /\ flow' = Idle => FlowIs("idle", NoUser, "none")
         /\ flow' = [Idle EXCEPT !.at = p] => FlowIs(p, NoUser, "none")
<1>1. Idle = [at |-> "idle", user |-> NoUser, why |-> "none"] /\ Idle \in Flow
  BY Records DEF Idle
<1>2. [Idle EXCEPT !.at = p] = [at |-> p, user |-> NoUser, why |-> "none"]
  <2>1. \A f \in Flow : [f EXCEPT !.at = p] = [at |-> p, user |-> f.user, why |-> f.why]
    BY DEF Flow
  <2> QED BY <2>1, Records
<1>3. flow' = [flow EXCEPT !.at = p] => FlowIs(p, flow.user, flow.why)
  BY DEF Flow, FlowIs
<1>4. flow' = [flow EXCEPT !.at = p, !.user = u] => FlowIs(p, u, flow.why)
  <2> SUFFICES ASSUME flow' = [flow EXCEPT !.at = p, !.user = u] PROVE FlowIs(p, u, flow.why)
    OBVIOUS
  <2>1. flow = [at |-> flow.at, user |-> flow.user, why |-> flow.why] /\ flow.why \in Reason
    BY DEF Flow
  <2>2. flow' = [at |-> p, user |-> u, why |-> flow.why]
    BY <2>1
  <2> QED BY DEF Flow, FlowIs
<1>5. \A x \in Place, y \in Someone, z \in Reason :
        flow' = [at |-> x, user |-> y, why |-> z] => FlowIs(x, y, z)
  BY DEF Flow, FlowIs
<1>6. "idle" \in Place /\ NoUser \in Someone /\ "none" \in Reason
  BY DEF Place, Someone, Reason
<1> QED BY <1>1, <1>3, <1>4, <1>5, <1>6

LEMMA StoreEdits ==
  ASSUME store \in AuthStore, NEW a \in Someone, NEW r \in Someone, NEW u \in Someone, NEW b \in BOOLEAN
  PROVE  /\ store' = [access |-> a, refresh |-> r, user |-> u, ready |-> b] => StoreIs(a, r, u, b)
         /\ store' = [store EXCEPT !.access = a, !.refresh = r] => StoreIs(a, r, store.user, store.ready)
         /\ store' = [store EXCEPT !.user = u, !.ready = TRUE] => StoreIs(store.access, store.refresh, u, TRUE)
         /\ store' = [store EXCEPT !.ready = TRUE] => StoreIs(store.access, store.refresh, store.user, TRUE)
         /\ store' = [Started EXCEPT !.ready = TRUE] => StoreIs(NoUser, NoUser, NoUser, TRUE)
         /\ store' = Started => StoreIs(NoUser, NoUser, NoUser, FALSE)
<1>1. \A x \in Someone, y \in Someone, z \in Someone, c \in BOOLEAN :
        store' = [access |-> x, refresh |-> y, user |-> z, ready |-> c] => StoreIs(x, y, z, c)
  BY DEF AuthStore, StoreIs
<1>2. /\ store \in [access : Someone, refresh : Someone, user : Someone, ready : BOOLEAN]
      /\ store = [access |-> store.access, refresh |-> store.refresh, user |-> store.user, ready |-> store.ready]
      /\ store.access \in Someone /\ store.refresh \in Someone /\ store.user \in Someone /\ store.ready \in BOOLEAN
  BY DEF AuthStore
<1>3. ASSUME NEW x \in AuthStore, NEW c \in BOOLEAN
      PROVE  /\ [x EXCEPT !.ready = c] = [access |-> x.access, refresh |-> x.refresh, user |-> x.user, ready |-> c]
             /\ [x EXCEPT !.user = u] = [access |-> x.access, refresh |-> x.refresh, user |-> u, ready |-> x.ready]
             /\ [x EXCEPT !.access = a] = [access |-> a, refresh |-> x.refresh, user |-> x.user, ready |-> x.ready]
             /\ [x EXCEPT !.refresh = r] = [access |-> x.access, refresh |-> r, user |-> x.user, ready |-> x.ready]
             /\ [x EXCEPT !.user = u] \in AuthStore /\ [x EXCEPT !.access = a] \in AuthStore
  BY <1>3 DEF AuthStore
<1>4. Started = [access |-> NoUser, refresh |-> NoUser, user |-> NoUser, ready |-> FALSE]
  BY DEF Started
<1>5. NoUser \in Someone /\ TRUE \in BOOLEAN /\ FALSE \in BOOLEAN
  BY DEF Someone
<1>6. store' = [access |-> a, refresh |-> r, user |-> u, ready |-> b] => StoreIs(a, r, u, b)
  BY <1>1
<1>7. store' = [store EXCEPT !.access = a, !.refresh = r] => StoreIs(a, r, store.user, store.ready)
  <2> DEFINE x == [store EXCEPT !.access = a]
  <2>1. x \in AuthStore /\ x.access = a /\ x.user = store.user /\ x.ready = store.ready
    BY <1>2, <1>3
  <2>2. [x EXCEPT !.refresh = r] = [access |-> a, refresh |-> r, user |-> store.user, ready |-> store.ready]
    <3> HIDE DEF x
    <3> QED BY <2>1, <1>3, <1>2
  <2> QED BY <2>2, <1>1, <1>2
<1>8. store' = [store EXCEPT !.user = u, !.ready = TRUE] => StoreIs(store.access, store.refresh, u, TRUE)
  <2> DEFINE x == [store EXCEPT !.user = u]
  <2>1. x \in AuthStore /\ x.user = u /\ x.access = store.access /\ x.refresh = store.refresh
    BY <1>2, <1>3
  <2>2. [x EXCEPT !.ready = TRUE] = [access |-> store.access, refresh |-> store.refresh, user |-> u, ready |-> TRUE]
    <3> HIDE DEF x
    <3> QED BY <2>1, <1>3, <1>5
  <2> QED BY <1>1, <1>2
<1>9. store' = [store EXCEPT !.ready = TRUE] => StoreIs(store.access, store.refresh, store.user, TRUE)
  BY <1>1, <1>2
<1>10. store' = [Started EXCEPT !.ready = TRUE] => StoreIs(NoUser, NoUser, NoUser, TRUE)
  <2>1. [Started EXCEPT !.ready = TRUE] = [access |-> NoUser, refresh |-> NoUser, user |-> NoUser, ready |-> TRUE]
    BY <1>3, <1>5, Records
  <2> QED BY <2>1, <1>1, <1>5
<1>11. store' = Started => StoreIs(NoUser, NoUser, NoUser, FALSE)
  BY <1>1, <1>4, <1>5
<1> QED BY <1>6, <1>7, <1>8, <1>9, <1>10, <1>11

LEMMA RefreshEdits ==
  ASSUME refresh \in Refresh, NEW p \in {"asked", "access", "refresh token"}, NEW u \in Someone
  PROVE  /\ refresh' = [refresh EXCEPT !.at = p] => RefreshIs(p, refresh.user) /\ refresh' # Quiet
         /\ refresh' = [at |-> p, user |-> u] => RefreshIs(p, u) /\ refresh' # Quiet
         /\ refresh' = Quiet => RefreshIs("idle", NoUser)
<1>0. PICK S : Refresh = [at : S, user : Someone] /\ p \in S
  BY DEF Refresh
<1>1. refresh' = [refresh EXCEPT !.at = p] => RefreshIs(p, refresh.user)
  BY <1>0 DEF RefreshIs
<1>2. refresh' = [at |-> p, user |-> u] => RefreshIs(p, u)
  <2>1. [at |-> p, user |-> u] \in Refresh /\ [at |-> p, user |-> u].at = p /\ [at |-> p, user |-> u].user = u
    BY <1>0
  <2> QED BY <2>1 DEF RefreshIs
<1>3. RefreshIs(p, u) \/ RefreshIs(p, refresh.user) => refresh' # Quiet
  BY Records DEF RefreshIs
<1> QED BY <1>1, <1>2, Records DEF RefreshIs

CallIs(k, p, as) ==
    /\ call' \in [Call -> Request] /\ call'[k].at = p /\ call'[k].as = as
    /\ \A j \in Call : j # k => call'[j] = call[j]

LEMMA CallEdits ==
  ASSUME call \in [Call -> Request], NEW k \in Call, NEW as \in Someone, NEW p \in {"sent", "waiting", "again"}
  PROVE  /\ call' = [call EXCEPT ![k] = NoRequest] => CallIs(k, "none", NoUser)
         /\ call' = [call EXCEPT ![k] = [at |-> p, as |-> as]] => CallIs(k, p, as)
         /\ call' = [call EXCEPT ![k].at = p] => CallIs(k, p, call[k].as)
<1>1. \A r \in Request : call' = [call EXCEPT ![k] = r] => CallIs(k, r.at, r.as)
  BY DEF CallIs
<1>2. /\ [at |-> p, as |-> as] \in Request /\ [at |-> p, as |-> as].at = p /\ [at |-> p, as |-> as].as = as
      /\ [call[k] EXCEPT !.at = p] \in Request
      /\ [call[k] EXCEPT !.at = p].at = p /\ [call[k] EXCEPT !.at = p].as = call[k].as
  BY DEF Request
<1>3. [call EXCEPT ![k].at = p] = [call EXCEPT ![k] = [call[k] EXCEPT !.at = p]]
  OBVIOUS
<1>4. call' = [call EXCEPT ![k] = [at |-> p, as |-> as]] => CallIs(k, p, as)
  <2>1. call' = [call EXCEPT ![k] = [at |-> p, as |-> as]] => CallIs(k, [at |-> p, as |-> as].at, [at |-> p, as |-> as].as)
    BY <1>1, <1>2
  <2> QED BY <2>1
<1>5. call' = [call EXCEPT ![k].at = p] => CallIs(k, p, call[k].as)
  <2>1. call' = [call EXCEPT ![k].at = p] => CallIs(k, [call[k] EXCEPT !.at = p].at, [call[k] EXCEPT !.at = p].as)
    BY <1>1, <1>2, <1>3
  <2> QED BY <2>1, <1>2
<1>6. call' = [call EXCEPT ![k] = NoRequest] => CallIs(k, "none", NoUser)
  BY <1>1, Records
<1> QED BY <1>4, <1>5, <1>6

\* The start is given up: the profile was refused, the refresh, or the storage failed.
GivesUp ==
    /\ Boots /\ \E why \in {"refused", "failed"} : Clear(why)
    /\ refresh' = Quiet
    /\ call' \in [Call -> Request] /\ \A k \in Call : call'[k].at = "none"
    /\ UNCHANGED <<disk, store, out, crossed, torn, kills>>

\* A request that ends, one that waits for the refresh, the start's with an answer that is not
\* fatal, and a refresh that ends with nobody of the start waiting.
Other(k) ==
    /\ k # Me /\ call[k].at # "none"
    /\ call' = [call EXCEPT ![k] = NoRequest]
    /\ UNCHANGED <<disk, store, socket, flow, refresh, out, crossed, torn, kills>>

Waits(k) ==
    /\ call[k].at = "sent" /\ store.refresh # NoUser
    /\ call' = [call EXCEPT ![k].at = "waiting"]
    /\ refresh' = IF refresh = Quiet THEN [at |-> "asked", user |-> store.refresh] ELSE refresh
    /\ crossed' = (crossed \/ Leaving)
    /\ UNCHANGED <<disk, store, socket, flow, out, torn, kills>>

MeEnds(outcome) ==
    /\ call[Me].at \in {"sent", "again"}
    /\ call' = [call EXCEPT ![Me] = NoRequest]
    /\ AnswerMe(Me, outcome)
    /\ UNCHANGED <<disk, refresh, out, crossed, torn, kills>>

RefreshGone ==
    /\ refresh # Quiet /\ refresh' = Quiet
    /\ call[Me].at # "waiting"
    /\ call' = [k \in Call |-> IF call[k].at = "waiting" THEN NoRequest ELSE call[k]]
    /\ UNCHANGED <<disk, store, socket, flow, out, crossed, torn, kills>>

LEMMA WipeAccessKeeps ==
  ASSUME SessionInv, WipeAccess
  PROVE  SessionInv'
<1> USE SessionAssumption, Records DEF DiskIs, StoreIs, FlowIs, RefreshIs, CallIs
<1>0. SessionTypeOK /\ FlowInv /\ WipeInv /\ LoginInv /\ OutInv /\ OwnerInv
  BY DEF SessionInv
<1>1. /\ DiskIs(NoUser, disk.refresh, disk.snapshot)
      /\ FlowIs("wipe refresh", flow.user, flow.why)
      /\ flow.at = "wipe access"
      /\ UNCHANGED <<store, socket, refresh, call, out, crossed, torn, kills>>
  BY <1>0, DiskEdits, FlowEdits DEF SessionTypeOK, WipeAccess, Place
<1>2. SessionTypeOK'
  BY <1>0, <1>1 DEF SessionTypeOK
<1>3. FlowInv'
  BY <1>0, <1>1 DEF FlowInv, Boots, Leaving, Wiping, Starting
<1>4. WipeInv'
  BY <1>0, <1>1 DEF WipeInv, Wiping, Leaving, Authenticated
<1>5. LoginInv'
  BY <1>1 DEF LoginInv, SigningIn
<1>6. OutInv'
  BY <1>0, <1>1 DEF OutInv, Wiping
<1>7. OwnerInv'
  BY <1>0, <1>1 DEF OwnerInv, Owns, Starting
<1> QED BY <1>2, <1>3, <1>4, <1>5, <1>6, <1>7 DEF SessionInv

LEMMA WipeRefreshKeeps ==
  ASSUME SessionInv, WipeRefresh
  PROVE  SessionInv'
<1> USE SessionAssumption, Records DEF DiskIs, StoreIs, FlowIs, RefreshIs, CallIs
<1>0. SessionTypeOK /\ FlowInv /\ WipeInv /\ LoginInv /\ OutInv /\ OwnerInv
  BY DEF SessionInv
<1>1. /\ DiskIs(disk.access, NoUser, disk.snapshot)
      /\ FlowIs("wipe snapshot", flow.user, flow.why)
      /\ flow.at = "wipe refresh"
      /\ UNCHANGED <<store, socket, refresh, call, out, crossed, torn, kills>>
  BY <1>0, DiskEdits, FlowEdits DEF SessionTypeOK, WipeRefresh, Place
<1>2. SessionTypeOK'
  BY <1>0, <1>1 DEF SessionTypeOK
<1>3. FlowInv'
  BY <1>0, <1>1 DEF FlowInv, Boots, Leaving, Wiping, Starting
<1>4. WipeInv'
  BY <1>0, <1>1 DEF WipeInv, Wiping, Leaving, Authenticated
<1>5. LoginInv'
  BY <1>1 DEF LoginInv, SigningIn
<1>6. OutInv'
  BY <1>0, <1>1 DEF OutInv, Wiping
<1>7. OwnerInv'
  BY <1>0, <1>1 DEF OwnerInv, Owns, Starting
<1> QED BY <1>2, <1>3, <1>4, <1>5, <1>6, <1>7 DEF SessionInv

LEMMA WipeSnapshotKeeps ==
  ASSUME SessionInv, WipeSnapshot
  PROVE  SessionInv'
<1> USE SessionAssumption, Records DEF DiskIs, StoreIs, FlowIs, RefreshIs, CallIs
<1>0. SessionTypeOK /\ FlowInv /\ WipeInv /\ LoginInv /\ OutInv /\ OwnerInv
  BY DEF SessionInv
<1>1. /\ StoreIs(NoUser, NoUser, NoUser, TRUE)
      /\ FlowIs("idle", NoUser, "none")
      /\ flow.at = "wipe snapshot" /\ torn' = FALSE
      /\ UNCHANGED <<socket, refresh, call, crossed, kills>>
  BY <1>0, StoreEdits DEF SessionTypeOK, WipeSnapshot
<1>2. /\ disk' \in Disk /\ disk'.access = disk.access /\ disk'.refresh = disk.refresh
      /\ disk'.snapshot \in {disk.snapshot, NoUser}
      /\ out' = "yes" => disk'.snapshot = NoUser \/ (out = "yes" /\ disk' = disk)
      /\ out' \in {"no", "yes", "profile kept"}
      /\ out' = out \/ Leaving
  <2>1. CASE disk' = [disk EXCEPT !.snapshot = NoUser] /\ out' = IF Leaving THEN "yes" ELSE out
    BY <1>0, <2>1, DiskEdits DEF SessionTypeOK
  <2>2. CASE UNCHANGED disk /\ out' = IF Leaving THEN "profile kept" ELSE out
    BY <1>0, <2>2 DEF SessionTypeOK
  <2> QED BY <2>1, <2>2 DEF WipeSnapshot
<1>3. SessionTypeOK'
  BY <1>0, <1>1, <1>2 DEF SessionTypeOK
<1>4. FlowInv'
  BY <1>0, <1>1 DEF FlowInv, Boots, Leaving, Wiping, Starting
<1>5. WipeInv'
  BY <1>1 DEF WipeInv, Wiping
<1>6. LoginInv'
  BY <1>0, <1>1 DEF LoginInv, WipeInv, Wiping, Authenticated
<1>7. OutInv'
  BY <1>0, <1>1, <1>2 DEF WipeInv, OutInv, Wiping
<1>8. OwnerInv'
  <2> SUFFICES ASSUME ~crossed PROVE \E u \in Someone : Owns(u)'
    BY <1>1 DEF OwnerInv
  <2>1. /\ disk'.access = NoUser /\ disk'.refresh = NoUser /\ disk'.snapshot \in Someone
        /\ socket' = NoUser /\ refresh' = Quiet
    BY <1>0, <1>1, <1>2 DEF WipeInv, Wiping, Disk
  <2>2. PICK u \in Someone : disk'.snapshot = u
    BY <2>1
  <2>3. Owns(u)'
    BY <1>1, <2>1, <2>2 DEF Owns, Starting
  <2> QED BY <2>3
<1> QED BY <1>3, <1>4, <1>5, <1>6, <1>7, <1>8 DEF SessionInv

LEMMA ProfileKeeps ==
  ASSUME SessionInv, Profile
  PROVE  SessionInv'
<1> USE SessionAssumption, Records DEF DiskIs, StoreIs, FlowIs, RefreshIs, CallIs
<1>0. SessionTypeOK /\ FlowInv /\ WipeInv /\ LoginInv /\ OutInv /\ OwnerInv
  BY DEF SessionInv
<1>1. /\ DiskIs(disk.access, disk.refresh, flow.user)
      /\ StoreIs(store.access, store.refresh, flow.user, TRUE)
      /\ FlowIs("idle", NoUser, "none")
      /\ flow.at = "profile"
      /\ socket' = IF store.access # NoUser THEN store.access ELSE socket
      /\ UNCHANGED <<refresh, call, out, crossed, torn, kills>>
  BY <1>0, DiskEdits DEF SessionTypeOK, Profile, Flow, AuthStore
<1>2. SessionTypeOK'
  BY <1>0, <1>1 DEF SessionTypeOK, AuthStore
<1>3. FlowInv'
  BY <1>0, <1>1 DEF FlowInv, Boots, Leaving, Wiping, Starting
<1>4. WipeInv'
  BY <1>1 DEF WipeInv, Wiping, Leaving, Authenticated
<1>5. LoginInv'
  BY <1>0, <1>1 DEF FlowInv, LoginInv, Boots, Starting, SigningIn
<1>6. OutInv'
  BY <1>0, <1>1 DEF OutInv, Wiping
<1>7. OwnerInv'
  BY <1>0, <1>1 DEF OwnerInv, Owns, Starting
<1> QED BY <1>2, <1>3, <1>4, <1>5, <1>6, <1>7 DEF SessionInv

LEMMA SignInKeeps ==
  ASSUME SessionInv, NEW u \in User, SignIn(u)
  PROVE  SessionInv'
<1> USE SessionAssumption, Records DEF DiskIs, StoreIs, FlowIs, RefreshIs, CallIs
<1>0. SessionTypeOK /\ FlowInv /\ WipeInv /\ LoginInv /\ OutInv /\ OwnerInv
  BY DEF SessionInv
<1>1. /\ FlowIs("login", u, "none")
      /\ flow.at = "idle" /\ store.ready /\ ~Authenticated
      /\ UNCHANGED <<disk, store, socket, refresh, call, out, crossed, torn, kills>>
  BY DEF SignIn, Place, Flow
<1>2. SessionTypeOK'
  BY <1>0, <1>1 DEF SessionTypeOK
<1>3. FlowInv'
  BY <1>0, <1>1 DEF FlowInv, Boots, Leaving, Wiping, Starting
<1>4. WipeInv'
  BY <1>1 DEF WipeInv, Wiping, Leaving, Authenticated
<1>5. LoginInv'
  BY <1>0, <1>1 DEF LoginInv, Authenticated
<1>6. OutInv'
  BY <1>0, <1>1 DEF OutInv, Wiping
<1>7. OwnerInv'
  BY <1>0, <1>1 DEF OwnerInv, Owns, Starting
<1> QED BY <1>2, <1>3, <1>4, <1>5, <1>6, <1>7 DEF SessionInv

LEMMA LoginKeeps ==
  ASSUME SessionInv, Login
  PROVE  SessionInv'
<1> USE SessionAssumption, Records DEF DiskIs, StoreIs, FlowIs, RefreshIs, CallIs
<1>0. SessionTypeOK /\ FlowInv /\ WipeInv /\ LoginInv /\ OutInv /\ OwnerInv
  BY DEF SessionInv
<1>1. /\ (FlowIs("idle", NoUser, "none") /\ out' = out) \/ (FlowIs("access", flow.user, flow.why) /\ out' = "no")
      /\ flow.at = "login"
      /\ UNCHANGED <<disk, store, socket, refresh, call, crossed, torn, kills>>
  BY <1>0, FlowEdits DEF SessionTypeOK, Login, Place
<1>2. SessionTypeOK'
  BY <1>0, <1>1 DEF SessionTypeOK
<1>3. FlowInv'
  BY <1>0, <1>1 DEF FlowInv, Boots, Leaving, Wiping, Starting
<1>4. WipeInv'
  BY <1>1 DEF WipeInv, Wiping, Leaving, Authenticated
<1>5. LoginInv'
  BY <1>0, <1>1 DEF LoginInv, SigningIn, Authenticated
<1>6. OutInv'
  BY <1>0, <1>1 DEF OutInv, Wiping
<1>7. OwnerInv'
  <2>1. ASSUME NEW u \in Someone, Owns(u) PROVE Owns(u)'
    BY <1>1, <2>1 DEF Owns, Starting
  <2> QED BY <1>0, <1>1, <2>1 DEF OwnerInv
<1> QED BY <1>2, <1>3, <1>4, <1>5, <1>6, <1>7 DEF SessionInv

LEMMA LoggedInKeeps ==
  ASSUME SessionInv, LoggedIn
  PROVE  SessionInv'
<1> USE SessionAssumption, Records DEF DiskIs, StoreIs, FlowIs, RefreshIs, CallIs
<1>0. SessionTypeOK /\ FlowInv /\ WipeInv /\ LoginInv /\ OutInv /\ OwnerInv
  BY DEF SessionInv
<1>1. /\ DiskIs(disk.access, disk.refresh, flow.user)
      /\ StoreIs(flow.user, flow.user, flow.user, store.ready)
      /\ FlowIs("idle", NoUser, "none")
      /\ flow.at = "snapshot"
      /\ socket' = flow.user /\ torn' = FALSE
      /\ UNCHANGED <<refresh, call, out, kills>>
      /\ crossed' = (crossed /\ ~(refresh = Quiet /\ disk.access = flow.user /\ disk.refresh = flow.user))
  BY <1>0, DiskEdits DEF SessionTypeOK, LoggedIn, Flow, AuthStore
<1>2. SessionTypeOK'
  BY <1>0, <1>1 DEF SessionTypeOK, Flow
<1>3. FlowInv'
  BY <1>0, <1>1 DEF FlowInv, Boots, Leaving, Wiping, Starting
<1>4. WipeInv'
  BY <1>1 DEF WipeInv, Wiping, Leaving, Authenticated
<1>5. LoginInv'
  BY <1>0, <1>1 DEF LoginInv, SigningIn, Authenticated
<1>6. OutInv'
  BY <1>0, <1>1 DEF FlowInv, OutInv, Wiping
<1>7. OwnerInv'
  <2> SUFFICES ASSUME ~crossed', NEW u \in Someone, u = flow.user PROVE Owns(u)'
    BY <1>0 DEF OwnerInv, SessionTypeOK, Flow
  <2>1. refresh = Quiet /\ disk.access = flow.user /\ disk.refresh = flow.user
    BY <1>0, <1>1 DEF LoginInv, SigningIn
  <2> QED BY <1>1, <2>1 DEF Owns
<1> QED BY <1>2, <1>3, <1>4, <1>5, <1>6, <1>7 DEF SessionInv

LEMMA SignOutKeeps ==
  ASSUME SessionInv, SignOut
  PROVE  SessionInv'
<1> USE SessionAssumption, Records DEF DiskIs, StoreIs, FlowIs, RefreshIs, CallIs
<1>0. SessionTypeOK /\ FlowInv /\ WipeInv /\ LoginInv /\ OutInv /\ OwnerInv
  BY DEF SessionInv
<1>1. /\ FlowIs("wipe access", NoUser, "sign out")
      /\ flow.at = "idle" /\ store.ready /\ Authenticated
      /\ socket' = NoUser /\ crossed' = (crossed \/ refresh # Quiet)
      /\ UNCHANGED <<disk, store, refresh, call, out, torn, kills>>
  BY DEF SignOut, Clear, Place, Flow, Reason
<1>2. SessionTypeOK'
  BY <1>0, <1>1 DEF SessionTypeOK
<1>3. FlowInv'
  BY <1>0, <1>1 DEF FlowInv, Boots, Leaving, Wiping, Starting
<1>4. WipeInv'
  BY <1>1 DEF WipeInv, Leaving, Authenticated
<1>5. LoginInv'
  BY <1>1 DEF LoginInv, SigningIn
<1>6. OutInv'
  BY <1>0, <1>1 DEF OutInv, Authenticated, Wiping
<1>7. OwnerInv'
  BY <1>0, <1>1 DEF OwnerInv, Owns
<1> QED BY <1>2, <1>3, <1>4, <1>5, <1>6, <1>7 DEF SessionInv

LEMMA RefreshAnswersKeeps ==
  ASSUME SessionInv, RefreshAnswers
  PROVE  SessionInv'
<1> USE SessionAssumption, Records DEF DiskIs, StoreIs, FlowIs, RefreshIs, CallIs
<1>0. SessionTypeOK /\ FlowInv /\ WipeInv /\ LoginInv /\ OutInv /\ OwnerInv
  BY DEF SessionInv
<1>1. /\ RefreshIs("access", refresh.user)
      /\ refresh # Quiet /\ refresh' # Quiet
      /\ UNCHANGED <<disk, store, socket, flow, call, out, crossed, torn, kills>>
  BY <1>0, RefreshEdits DEF SessionTypeOK, RefreshAnswers
<1>2. SessionTypeOK'
  BY <1>0, <1>1 DEF SessionTypeOK
<1>3. FlowInv'
  BY <1>0, <1>1 DEF FlowInv, Boots, Leaving
<1>4. WipeInv'
  BY <1>0, <1>1 DEF WipeInv, Leaving, Authenticated
<1>5. LoginInv'
  BY <1>0, <1>1 DEF LoginInv, Authenticated
<1>6. OutInv'
  BY <1>0, <1>1 DEF OutInv, Wiping
<1>7. OwnerInv'
  <2>1. ASSUME NEW u \in Someone, Owns(u) PROVE Owns(u)'
    BY <1>1, <2>1 DEF Owns
  <2> QED BY <1>0, <1>1, <2>1 DEF OwnerInv
<1> QED BY <1>2, <1>3, <1>4, <1>5, <1>6, <1>7 DEF SessionInv

LEMMA KillKeeps ==
  ASSUME SessionInv, Kill
  PROVE  SessionInv'
<1> USE SessionAssumption, Records DEF DiskIs, StoreIs, FlowIs, RefreshIs, CallIs
<1>0. SessionTypeOK /\ FlowInv /\ WipeInv /\ LoginInv /\ OutInv /\ OwnerInv
  BY DEF SessionInv
<1>1. /\ StoreIs(NoUser, NoUser, NoUser, FALSE)
      /\ FlowIs("load", NoUser, "none")
      /\ socket' = NoUser /\ refresh' = Quiet
      /\ torn' = (torn \/ flow.at \in {"refresh token", "snapshot"})
      /\ kills < MaxKills /\ kills' = kills + 1
      /\ \A k \in Call : call'[k] = NoRequest
      /\ call' \in [Call -> Request]
      /\ UNCHANGED <<disk, out, crossed>>
  BY DEF Kill, Place, Flow
<1>2. SessionTypeOK'
  <2>1. kills' \in 0 .. MaxKills
    <3>1. kills \in 0 .. MaxKills /\ MaxKills \in Nat /\ kills < MaxKills /\ kills' = kills + 1
      BY <1>0, <1>1 DEF SessionTypeOK
    <3> QED BY <3>1
  <2>2. torn' \in BOOLEAN
    BY <1>0, <1>1 DEF SessionTypeOK
  <2> QED BY <1>0, <1>1, <2>1, <2>2 DEF SessionTypeOK
<1>3. FlowInv'
  BY <1>1 DEF FlowInv, Boots, Leaving, Starting
<1>4. WipeInv'
  BY <1>1 DEF WipeInv, Wiping, Leaving, Authenticated
<1>5. LoginInv'
  BY <1>1 DEF LoginInv, Authenticated
<1>6. OutInv'
  BY <1>0, <1>1 DEF OutInv, Wiping
<1>7. OwnerInv'
  BY <1>0, <1>1 DEF OwnerInv, Owns
<1> QED BY <1>2, <1>3, <1>4, <1>5, <1>6, <1>7 DEF SessionInv

LEMMA GivesUpKeeps ==
  ASSUME SessionInv, GivesUp
  PROVE  SessionInv'
<1> USE SessionAssumption, Records DEF DiskIs, StoreIs, FlowIs, RefreshIs, CallIs
<1>0. SessionTypeOK /\ FlowInv /\ WipeInv /\ LoginInv /\ OutInv /\ OwnerInv
  BY DEF SessionInv
<1>a. PICK why \in {"refused", "failed"} : Clear(why)
  BY DEF GivesUp
<1>1. /\ FlowIs("wipe access", NoUser, why) /\ why # "sign out"
      /\ Boots /\ socket' = NoUser /\ refresh' = Quiet
      /\ call' \in [Call -> Request] /\ \A k \in Call : call'[k].at = "none"
      /\ UNCHANGED <<disk, store, out, crossed, torn, kills>>
  BY <1>a DEF GivesUp, Clear, Place, Reason, Flow
<1>2. SessionTypeOK'
  BY <1>0, <1>1 DEF SessionTypeOK
<1>3. FlowInv'
  BY <1>0, <1>1 DEF FlowInv, Boots, Leaving, Wiping, Starting
<1>4. WipeInv'
  BY <1>1 DEF WipeInv, Leaving
<1>5. LoginInv'
  BY <1>1 DEF LoginInv, SigningIn
<1>6. OutInv'
  BY <1>0, <1>1 DEF OutInv, Wiping
<1>7. OwnerInv'
  BY <1>0, <1>1 DEF OwnerInv, Owns, Boots, Starting, Wiping
<1> QED BY <1>2, <1>3, <1>4, <1>5, <1>6, <1>7 DEF SessionInv

\* The storage fails to delete a token, or to read or write what the start asks of it, or to
\* write what a login has brought.
LEMMA WipeFailsKeeps ==
  ASSUME SessionInv, WipeFails
  PROVE  SessionInv'
<1> USE SessionAssumption, Records DEF DiskIs, StoreIs, FlowIs, RefreshIs, CallIs
<1>0. /\ SessionTypeOK /\ FlowInv /\ WipeInv /\ LoginInv /\ OutInv /\ OwnerInv
      /\ flow.at \in {"wipe access", "wipe refresh"}
      /\ UNCHANGED <<disk, store, refresh, call, out, crossed, torn, kills>>
  BY DEF SessionInv, WipeFails
<1>1. CASE Leaving /\ flow' = Idle /\ UNCHANGED socket
  <2>1. FlowIs("idle", NoUser, "none")
    BY <1>1
  <2>2. SessionTypeOK'
    BY <1>0, <1>1, <2>1 DEF SessionTypeOK
  <2>3. FlowInv'
    <3>1. store.ready /\ call[Me].at = "none"
      BY <1>0, <1>1 DEF FlowInv, Boots, Starting
    <3> QED BY <1>0, <2>1, <3>1 DEF FlowInv, Boots, Leaving, Wiping, Starting
  <2>4. WipeInv'
    BY <2>1 DEF WipeInv, Wiping
  <2>5. LoginInv'
    BY <1>0, <1>1, <2>1 DEF WipeInv, LoginInv, Wiping, SigningIn, Authenticated
  <2>6. OutInv'
    BY <1>0, <1>1, <2>1 DEF OutInv
  <2>7. OwnerInv'
    BY <1>0, <1>1, <2>1 DEF OwnerInv, Owns, Starting
  <2> QED BY <2>2, <2>3, <2>4, <2>5, <2>6, <2>7 DEF SessionInv
<1>2. CASE flow.why = "refused" /\ Clear("failed")
  <2>1. Boots /\ flow.at # "me"
    BY <1>0, <1>2 DEF Boots, Wiping, Leaving
  <2>2. refresh = Quiet /\ \A k \in Call : call[k].at = "none"
    BY <1>0, <2>1 DEF FlowInv
  <2>3. GivesUp
    BY <1>0, <1>2, <2>1, <2>2 DEF GivesUp, SessionTypeOK
  <2> QED BY <2>3, GivesUpKeeps
<1>3. CASE flow.why = "failed" /\ flow' = [flow EXCEPT !.at = "rejected"] /\ UNCHANGED socket
  <2>1. FlowIs("rejected", flow.user, "failed") /\ Boots
    BY <1>0, <1>3, FlowEdits DEF SessionTypeOK, Place, Boots, Wiping, Leaving
  <2>2. SessionTypeOK'
    BY <1>0, <1>3, <2>1 DEF SessionTypeOK
  <2>3. FlowInv'
    BY <1>0, <2>1 DEF FlowInv, Boots, Leaving, Wiping, Starting
  <2>4. WipeInv' /\ LoginInv'
    BY <2>1 DEF WipeInv, LoginInv, Wiping, SigningIn
  <2>5. OutInv'
    BY <1>0, <1>3, <2>1 DEF OutInv
  <2>6. OwnerInv'
    BY <1>0, <1>3, <2>1 DEF OwnerInv, Owns, Starting
  <2> QED BY <2>2, <2>3, <2>4, <2>5, <2>6 DEF SessionInv
<1> QED BY <1>1, <1>2, <1>3 DEF WipeFails

LEMMA StartFailsKeeps ==
  ASSUME SessionInv, StartFails
  PROVE  SessionInv'
<1> USE SessionAssumption, Records DEF DiskIs, StoreIs, FlowIs, RefreshIs, CallIs
<1>0. /\ SessionTypeOK /\ FlowInv /\ WipeInv /\ LoginInv /\ OutInv /\ OwnerInv
      /\ UNCHANGED <<disk, refresh, call, out, crossed, torn, kills>>
  BY DEF SessionInv, StartFails
<1>1. flow.at \in {"load", "renewed access", "renewed refresh", "profile"} /\ Boots
  BY DEF StartFails, Boots, Starting
<1>2. refresh = Quiet /\ \A k \in Call : call[k].at = "none"
  BY <1>0, <1>1 DEF FlowInv
<1>3. CASE Clear("failed") /\ UNCHANGED store
  <2>1. GivesUp
    BY <1>0, <1>1, <1>2, <1>3 DEF GivesUp, SessionTypeOK
  <2> QED BY <2>1, GivesUpKeeps
<1>4. CASE flow' = Idle /\ store' = [store EXCEPT !.ready = TRUE] /\ UNCHANGED socket
  <2>1. FlowIs("idle", NoUser, "none")
    BY <1>4
  <2>2. StoreIs(store.access, store.refresh, store.user, TRUE)
    BY <1>0, <1>4, StoreEdits DEF SessionTypeOK
  <2>3. SessionTypeOK'
    BY <1>0, <1>4, <2>1, <2>2 DEF SessionTypeOK
  <2>4. FlowInv'
    BY <1>0, <1>2, <2>1, <2>2 DEF FlowInv, Boots, Leaving, Wiping, Starting
  <2>5. WipeInv'
    BY <2>1 DEF WipeInv, Wiping
  <2>6. LoginInv'
    BY <1>0, <1>2, <2>1 DEF LoginInv, SigningIn
  <2>7. OutInv'
    BY <1>0, <1>4, <2>1, <2>2 DEF OutInv
  <2>8. OwnerInv'
    BY <1>0, <1>1, <1>4, <2>1, <2>2 DEF OwnerInv, Owns, Starting
  <2> QED BY <2>3, <2>4, <2>5, <2>6, <2>7, <2>8 DEF SessionInv
<1> QED BY <1>3, <1>4 DEF StartFails

LEMMA LoginFailsKeeps ==
  ASSUME SessionInv, LoginFails
  PROVE  SessionInv'
<1> USE SessionAssumption, Records DEF DiskIs, StoreIs, FlowIs, RefreshIs, CallIs
<1>0. SessionTypeOK /\ FlowInv /\ WipeInv /\ LoginInv /\ OutInv /\ OwnerInv
  BY DEF SessionInv
<1>1. /\ FlowIs("idle", NoUser, "none")
      /\ flow.at \in {"access", "refresh token", "snapshot"}
      /\ torn' = (torn \/ flow.at # "access")
      /\ UNCHANGED <<disk, store, socket, refresh, call, out, crossed, kills>>
  BY DEF LoginFails
<1>2. SessionTypeOK'
  BY <1>0, <1>1 DEF SessionTypeOK
<1>3. FlowInv'
  BY <1>0, <1>1 DEF FlowInv, Boots, Leaving, Wiping, Starting
<1>4. WipeInv'
  BY <1>1 DEF WipeInv, Wiping
<1>5. LoginInv'
  BY <1>0, <1>1 DEF LoginInv, SigningIn, Authenticated
<1>6. OutInv'
  BY <1>0, <1>1 DEF FlowInv, OutInv
<1>7. OwnerInv'
  BY <1>0, <1>1 DEF OwnerInv, Owns, Starting
<1> QED BY <1>2, <1>3, <1>4, <1>5, <1>6, <1>7 DEF SessionInv

LEMMA LoadKeeps ==
  ASSUME SessionInv, Load
  PROVE  SessionInv'
<1> USE SessionAssumption, Records DEF DiskIs, StoreIs, FlowIs, RefreshIs, CallIs
<1>0. SessionTypeOK /\ FlowInv /\ WipeInv /\ LoginInv /\ OutInv /\ OwnerInv
  BY DEF SessionInv
<1>1. CASE disk.access # NoUser
  <2>1. /\ flow.at = "load"
        /\ FlowIs("me", flow.user, flow.why)
        /\ StoreIs(disk.access, disk.refresh, disk.snapshot, FALSE)
        /\ CallIs(Me, "sent", disk.access)
        /\ UNCHANGED <<disk, socket, refresh, out, crossed, torn, kills>>
    <3>1. flow.at = "load"
      BY DEF Load
    <3>2. FlowIs("me", flow.user, flow.why)
      BY <1>0, <1>1, FlowEdits DEF SessionTypeOK, Load, Place
    <3>3. StoreIs(disk.access, disk.refresh, disk.snapshot, FALSE)
      <4>1. store' = [access |-> disk.access, refresh |-> disk.refresh, user |-> disk.snapshot, ready |-> FALSE]
        BY <1>1 DEF Load
      <4>2. store \in AuthStore /\ disk.access \in Someone /\ disk.refresh \in Someone /\ disk.snapshot \in Someone /\ FALSE \in BOOLEAN
        BY <1>0 DEF SessionTypeOK, Disk
      <4> QED BY <4>1, <4>2, StoreEdits
    <3>4. CallIs(Me, "sent", disk.access)
      <4>1. call' = [call EXCEPT ![Me] = [at |-> "sent", as |-> disk.access]]
        BY <1>1 DEF Load
      <4> QED BY <1>0, <4>1, CallEdits DEF SessionTypeOK, Disk
    <3>5. UNCHANGED <<disk, socket, refresh, out, crossed, torn, kills>>
      BY <1>1 DEF Load
    <3> QED BY <3>1, <3>2, <3>3, <3>4, <3>5
  <2>2. SessionTypeOK'
    BY <1>0, <2>1 DEF SessionTypeOK
  <2>3. FlowInv'
    BY <1>0, <2>1 DEF FlowInv, Boots, Leaving, Wiping, Starting
  <2>4. WipeInv'
    BY <2>1 DEF WipeInv, Wiping, Leaving, Authenticated
  <2>5. LoginInv'
    BY <2>1 DEF LoginInv, SigningIn
  <2>6. OutInv'
    BY <1>0, <1>1, <2>1 DEF OutInv, Wiping
  <2>7. OwnerInv'
    BY <1>0, <2>1 DEF OwnerInv, Owns, Starting
  <2> QED BY <2>2, <2>3, <2>4, <2>5, <2>6, <2>7 DEF SessionInv
<1>2. CASE disk.access = NoUser /\ disk.refresh # NoUser
  <2>1. /\ flow.at = "load"
        /\ FlowIs("refresh", disk.refresh, flow.why)
        /\ StoreIs(disk.access, disk.refresh, disk.snapshot, FALSE)
        /\ UNCHANGED <<disk, socket, refresh, call, out, crossed, torn, kills>>
    <3>1. flow.at = "load"
      BY DEF Load
    <3>2. FlowIs("refresh", disk.refresh, flow.why)
      <4>1. flow' = [flow EXCEPT !.at = "refresh", !.user = disk.refresh]
        BY <1>2 DEF Load
      <4> QED BY <1>0, <4>1, FlowEdits DEF SessionTypeOK, Place, Disk
    <3>3. StoreIs(disk.access, disk.refresh, disk.snapshot, FALSE)
      <4>1. store' = [access |-> disk.access, refresh |-> disk.refresh, user |-> disk.snapshot, ready |-> FALSE]
        BY <1>2 DEF Load
      <4>2. store \in AuthStore /\ disk.access \in Someone /\ disk.refresh \in Someone /\ disk.snapshot \in Someone /\ FALSE \in BOOLEAN
        BY <1>0 DEF SessionTypeOK, Disk
      <4> QED BY <4>1, <4>2, StoreEdits
    <3>4. UNCHANGED <<disk, socket, refresh, call, out, crossed, torn, kills>>
      BY <1>2 DEF Load
    <3> QED BY <3>1, <3>2, <3>3, <3>4
  <2>2. SessionTypeOK'
    BY <1>0, <2>1 DEF SessionTypeOK
  <2>3. FlowInv'
    BY <1>0, <2>1 DEF FlowInv, Boots, Leaving, Wiping, Starting
  <2>4. WipeInv'
    BY <2>1 DEF WipeInv, Wiping, Leaving, Authenticated
  <2>5. LoginInv'
    BY <2>1 DEF LoginInv, SigningIn
  <2>6. OutInv'
    BY <1>0, <1>2, <2>1 DEF OutInv, Wiping
  <2>7. OwnerInv'
    BY <1>0, <2>1 DEF OwnerInv, Owns
  <2> QED BY <2>2, <2>3, <2>4, <2>5, <2>6, <2>7 DEF SessionInv
<1>3. CASE disk.access = NoUser /\ disk.refresh = NoUser
  <2>1. /\ flow.at = "load"
        /\ FlowIs("idle", NoUser, "none")
        /\ StoreIs(disk.access, disk.refresh, disk.snapshot, TRUE)
        /\ UNCHANGED <<disk, socket, refresh, call, out, crossed, torn, kills>>
    <3>1. flow.at = "load"
      BY DEF Load
    <3>2. FlowIs("idle", NoUser, "none")
      BY <1>3 DEF Load, Place
    <3>3. StoreIs(disk.access, disk.refresh, disk.snapshot, TRUE)
      BY <1>0, <1>3, StoreEdits DEF SessionTypeOK, Load, Disk
    <3>4. UNCHANGED <<disk, socket, refresh, call, out, crossed, torn, kills>>
      BY <1>3 DEF Load
    <3> QED BY <3>1, <3>2, <3>3, <3>4
  <2>2. SessionTypeOK'
    BY <1>0, <2>1 DEF SessionTypeOK
  <2>3. FlowInv'
    BY <1>0, <2>1 DEF FlowInv, Boots, Leaving, Wiping, Starting
  <2>4. WipeInv'
    BY <2>1 DEF WipeInv, Wiping, Leaving, Authenticated
  <2>5. LoginInv'
    BY <1>0, <1>3, <2>1 DEF FlowInv, LoginInv, Boots, Starting, Authenticated
  <2>6. OutInv'
    BY <1>0, <2>1 DEF OutInv, Wiping
  <2>7. OwnerInv'
    BY <1>0, <2>1 DEF OwnerInv, Owns
  <2> QED BY <2>2, <2>3, <2>4, <2>5, <2>6, <2>7 DEF SessionInv
<1> QED BY <1>1, <1>2, <1>3

LEMMA PersistRenewedKeeps ==
  ASSUME SessionInv, PersistRenewed
  PROVE  SessionInv'
<1> USE SessionAssumption, Records DEF DiskIs, StoreIs, FlowIs, RefreshIs, CallIs
<1>0. SessionTypeOK /\ FlowInv /\ WipeInv /\ LoginInv /\ OutInv /\ OwnerInv
  BY DEF SessionInv
<1>1. CASE flow.at = "renewed access"
  <2>1. /\ FlowIs("renewed refresh", flow.user, flow.why)
        /\ DiskIs(flow.user, disk.refresh, disk.snapshot)
        /\ UNCHANGED <<store, socket, refresh, call, out, crossed, torn, kills>>
    <3>1. FlowIs("renewed refresh", flow.user, flow.why)
      BY <1>0, <1>1, FlowEdits DEF SessionTypeOK, PersistRenewed, Place
    <3>2. DiskIs(flow.user, disk.refresh, disk.snapshot)
      BY <1>0, <1>1, DiskEdits DEF SessionTypeOK, PersistRenewed, Flow
    <3>3. UNCHANGED <<store, socket, refresh, call, out, crossed, torn, kills>>
      BY <1>1 DEF PersistRenewed
    <3> QED BY <3>1, <3>2, <3>3
  <2>2. SessionTypeOK'
    BY <1>0, <2>1 DEF SessionTypeOK
  <2>3. FlowInv'
    BY <1>0, <1>1, <2>1 DEF FlowInv, Boots, Leaving, Wiping, Starting
  <2>4. WipeInv'
    BY <2>1 DEF WipeInv, Wiping, Leaving, Authenticated
  <2>5. LoginInv'
    BY <2>1 DEF LoginInv, SigningIn
  <2>6. OutInv'
    BY <1>0, <1>1, <2>1 DEF OutInv, Wiping
  <2>7. OwnerInv'
    BY <1>0, <1>1, <2>1 DEF OwnerInv, Owns, Starting
  <2> QED BY <2>2, <2>3, <2>4, <2>5, <2>6, <2>7 DEF SessionInv
<1>2. CASE flow.at = "renewed refresh"
  <2>1. /\ FlowIs("me", flow.user, flow.why)
        /\ DiskIs(disk.access, flow.user, disk.snapshot)
        /\ StoreIs(flow.user, flow.user, store.user, store.ready)
        /\ CallIs(Me, "sent", flow.user)
        /\ UNCHANGED <<socket, refresh, out, crossed, torn, kills>>
    <3>0. /\ flow' = [flow EXCEPT !.at = "me"] /\ disk' = [disk EXCEPT !.refresh = flow.user]
          /\ store' = [store EXCEPT !.access = flow.user, !.refresh = flow.user]
          /\ call' = [call EXCEPT ![Me] = [at |-> "sent", as |-> flow.user]]
      BY <1>2 DEF PersistRenewed
    <3>1. FlowIs("me", flow.user, flow.why)
      BY <1>0, <3>0, FlowEdits DEF SessionTypeOK, Place
    <3>2. DiskIs(disk.access, flow.user, disk.snapshot)
      BY <1>0, <3>0, DiskEdits DEF SessionTypeOK, Flow
    <3>3. StoreIs(flow.user, flow.user, store.user, store.ready)
      BY <1>0, <3>0, StoreEdits DEF SessionTypeOK, Flow
    <3>4. CallIs(Me, "sent", flow.user)
      BY <1>0, <3>0, CallEdits DEF SessionTypeOK, Flow
    <3>5. UNCHANGED <<socket, refresh, out, crossed, torn, kills>>
      BY DEF PersistRenewed
    <3> QED BY <3>1, <3>2, <3>3, <3>4, <3>5
  <2>2. SessionTypeOK'
    BY <1>0, <2>1 DEF SessionTypeOK
  <2>3. FlowInv'
    BY <1>0, <1>2, <2>1 DEF FlowInv, Boots, Leaving, Wiping, Starting
  <2>4. WipeInv'
    BY <2>1 DEF WipeInv, Wiping, Leaving, Authenticated
  <2>5. LoginInv'
    BY <2>1 DEF LoginInv, SigningIn
  <2>6. OutInv'
    BY <1>0, <1>2, <2>1 DEF OutInv, Wiping
  <2>7. OwnerInv'
    BY <1>0, <1>2, <2>1 DEF OwnerInv, Owns, Starting
  <2> QED BY <2>2, <2>3, <2>4, <2>5, <2>6, <2>7 DEF SessionInv
<1> QED BY <1>1, <1>2 DEF PersistRenewed

LEMMA PersistLoginKeeps ==
  ASSUME SessionInv, PersistLogin
  PROVE  SessionInv'
<1> USE SessionAssumption, Records DEF DiskIs, StoreIs, FlowIs, RefreshIs, CallIs
<1>0. SessionTypeOK /\ FlowInv /\ WipeInv /\ LoginInv /\ OutInv /\ OwnerInv
  BY DEF SessionInv
<1>1. CASE flow.at = "access"
  <2>1. /\ FlowIs("refresh token", flow.user, flow.why)
        /\ DiskIs(flow.user, disk.refresh, disk.snapshot)
        /\ UNCHANGED <<store, socket, refresh, call, out, crossed, torn, kills>>
    <3>1. FlowIs("refresh token", flow.user, flow.why)
      BY <1>0, <1>1, FlowEdits DEF SessionTypeOK, PersistLogin, Place
    <3>2. DiskIs(flow.user, disk.refresh, disk.snapshot)
      BY <1>0, <1>1, DiskEdits DEF SessionTypeOK, PersistLogin, Flow
    <3>3. UNCHANGED <<store, socket, refresh, call, out, crossed, torn, kills>>
      BY DEF PersistLogin
    <3> QED BY <3>1, <3>2, <3>3
  <2>2. SessionTypeOK'
    BY <1>0, <2>1 DEF SessionTypeOK
  <2>3. FlowInv'
    BY <1>0, <1>1, <2>1 DEF FlowInv, Boots, Leaving, Wiping, Starting
  <2>4. WipeInv'
    BY <2>1 DEF WipeInv, Wiping, Leaving, Authenticated
  <2>5. LoginInv'
    BY <1>0, <1>1, <2>1 DEF LoginInv, SigningIn, Authenticated
  <2>6. OutInv'
    BY <1>0, <1>1, <2>1 DEF OutInv, Wiping
  <2>7. OwnerInv'
    BY <2>1 DEF OwnerInv
  <2> QED BY <2>2, <2>3, <2>4, <2>5, <2>6, <2>7 DEF SessionInv
<1>2. CASE flow.at = "refresh token"
  <2>1. /\ FlowIs("snapshot", flow.user, flow.why)
        /\ DiskIs(disk.access, flow.user, disk.snapshot)
        /\ UNCHANGED <<store, socket, refresh, call, out, crossed, torn, kills>>
    <3>0. flow' = [flow EXCEPT !.at = "snapshot"] /\ disk' = [disk EXCEPT !.refresh = flow.user]
      BY <1>2 DEF PersistLogin
    <3>1. FlowIs("snapshot", flow.user, flow.why)
      BY <1>0, <3>0, FlowEdits DEF SessionTypeOK, Place
    <3>2. DiskIs(disk.access, flow.user, disk.snapshot)
      BY <1>0, <3>0, DiskEdits DEF SessionTypeOK, Flow
    <3>3. UNCHANGED <<store, socket, refresh, call, out, crossed, torn, kills>>
      BY DEF PersistLogin
    <3> QED BY <3>1, <3>2, <3>3
  <2>2. SessionTypeOK'
    BY <1>0, <2>1 DEF SessionTypeOK
  <2>3. FlowInv'
    BY <1>0, <1>2, <2>1 DEF FlowInv, Boots, Leaving, Wiping, Starting
  <2>4. WipeInv'
    BY <2>1 DEF WipeInv, Wiping, Leaving, Authenticated
  <2>5. LoginInv'
    BY <1>0, <1>2, <2>1 DEF LoginInv, SigningIn, Authenticated
  <2>6. OutInv'
    BY <1>0, <1>2, <2>1 DEF OutInv, Wiping
  <2>7. OwnerInv'
    BY <2>1 DEF OwnerInv
  <2> QED BY <2>2, <2>3, <2>4, <2>5, <2>6, <2>7 DEF SessionInv
<1> QED BY <1>1, <1>2 DEF PersistLogin

LEMMA SendCallKeeps ==
  ASSUME SessionInv, NEW k \in Call, SendCall(k)
  PROVE  SessionInv'
<1> USE SessionAssumption, Records DEF DiskIs, StoreIs, FlowIs, RefreshIs, CallIs
<1>0. SessionTypeOK /\ FlowInv /\ WipeInv /\ LoginInv /\ OutInv /\ OwnerInv
  BY DEF SessionInv
<1>1. /\ k # Me /\ store.ready /\ Authenticated
      /\ CallIs(k, "sent", store.access)
      /\ UNCHANGED <<disk, store, socket, flow, refresh, out, crossed, torn, kills>>
  BY <1>0, CallEdits DEF SessionTypeOK, SendCall, AuthStore
<1>2. SessionTypeOK'
  BY <1>0, <1>1 DEF SessionTypeOK
<1>3. FlowInv'
  BY <1>0, <1>1 DEF FlowInv, Boots, Leaving
<1>4. WipeInv'
  BY <1>0, <1>1 DEF WipeInv, Leaving, Authenticated
<1>5. LoginInv'
  BY <1>0, <1>1 DEF LoginInv, Authenticated
<1>6. OutInv'
  BY <1>0, <1>1 DEF OutInv, Wiping
<1>7. OwnerInv'
  BY <1>0, <1>1 DEF OwnerInv, Owns, Authenticated
<1> QED BY <1>2, <1>3, <1>4, <1>5, <1>6, <1>7 DEF SessionInv

LEMMA OtherKeeps ==
  ASSUME SessionInv, NEW k \in Call, Other(k)
  PROVE  SessionInv'
<1> USE SessionAssumption, Records DEF DiskIs, StoreIs, FlowIs, RefreshIs, CallIs
<1>0. SessionTypeOK /\ FlowInv /\ WipeInv /\ LoginInv /\ OutInv /\ OwnerInv
  BY DEF SessionInv
<1>1. /\ k # Me /\ call[k].at # "none"
      /\ CallIs(k, "none", NoUser)
      /\ UNCHANGED <<disk, store, socket, flow, refresh, out, crossed, torn, kills>>
  BY <1>0 DEF SessionTypeOK, Other
<1>2. SessionTypeOK'
  BY <1>0, <1>1 DEF SessionTypeOK
<1>3. FlowInv'
  BY <1>0, <1>1 DEF FlowInv, Boots, Leaving
<1>4. WipeInv'
  BY <1>0, <1>1 DEF WipeInv, Leaving, Authenticated
<1>5. LoginInv'
  BY <1>0, <1>1 DEF LoginInv, Authenticated
<1>6. OutInv'
  BY <1>0, <1>1 DEF OutInv, Wiping
<1>7. OwnerInv'
  <2>1. call'[Me] = call[Me]
    BY <1>1
  <2>2. ASSUME NEW u \in Someone, Owns(u) PROVE Owns(u)'
    BY <1>1, <2>1, <2>2 DEF Owns
  <2> QED BY <1>0, <1>1, <2>2 DEF OwnerInv
<1> QED BY <1>2, <1>3, <1>4, <1>5, <1>6, <1>7 DEF SessionInv

LEMMA WaitsKeeps ==
  ASSUME SessionInv, NEW k \in Call, Waits(k)
  PROVE  SessionInv'
<1> USE SessionAssumption, Records DEF DiskIs, StoreIs, FlowIs, RefreshIs, CallIs
<1>0. SessionTypeOK /\ FlowInv /\ WipeInv /\ LoginInv /\ OutInv /\ OwnerInv
  BY DEF SessionInv
<1>1. CASE refresh = Quiet
  <2>1. /\ call[k].at = "sent" /\ store.refresh # NoUser
        /\ RefreshIs("asked", store.refresh) /\ refresh' # Quiet
        /\ CallIs(k, "waiting", call[k].as)
        /\ crossed' = (crossed \/ flow.why = "sign out")
        /\ UNCHANGED <<disk, store, socket, flow, out, torn, kills>>
    BY <1>0, <1>1, CallEdits, RefreshEdits DEF SessionTypeOK, Waits, Leaving, AuthStore
  <2>2. SessionTypeOK'
    BY <1>0, <2>1 DEF SessionTypeOK
  <2>3. FlowInv'
    BY <1>0, <2>1 DEF FlowInv, Boots, Leaving
  <2>4. WipeInv'
    BY <1>0, <2>1 DEF FlowInv, WipeInv, Boots, Leaving, Wiping, Authenticated
  <2>5. LoginInv'
    BY <1>0, <2>1 DEF LoginInv, Authenticated
  <2>6. OutInv'
    BY <1>0, <2>1 DEF OutInv, Wiping
  <2>7. OwnerInv'
    BY <1>0, <2>1 DEF OwnerInv, Owns
  <2> QED BY <2>2, <2>3, <2>4, <2>5, <2>6, <2>7 DEF SessionInv
<1>2. CASE refresh # Quiet
  <2>1. /\ call[k].at = "sent" /\ store.refresh # NoUser
        /\ CallIs(k, "waiting", call[k].as)
        /\ crossed' = (crossed \/ flow.why = "sign out")
        /\ UNCHANGED <<disk, store, socket, flow, refresh, out, torn, kills>>
    BY <1>0, <1>2, CallEdits DEF SessionTypeOK, Waits, Leaving
  <2>2. SessionTypeOK'
    BY <1>0, <2>1 DEF SessionTypeOK
  <2>3. FlowInv'
    BY <1>0, <2>1 DEF FlowInv, Boots, Leaving
  <2>4. WipeInv'
    BY <1>0, <2>1 DEF WipeInv, Leaving, Authenticated
  <2>5. LoginInv'
    BY <1>0, <2>1 DEF LoginInv, Authenticated
  <2>6. OutInv'
    BY <1>0, <2>1 DEF OutInv, Wiping
  <2>7. OwnerInv'
    BY <1>0, <1>2, <2>1 DEF FlowInv, OwnerInv, Owns, Boots, Starting
  <2> QED BY <2>2, <2>3, <2>4, <2>5, <2>6, <2>7 DEF SessionInv
<1> QED BY <1>1, <1>2

LEMMA MeEndsKeeps ==
  ASSUME SessionInv, NEW outcome \in {"ok", "failed"}, MeEnds(outcome)
  PROVE  SessionInv'
<1> USE SessionAssumption, Records DEF DiskIs, StoreIs, FlowIs, RefreshIs, CallIs
<1>0. SessionTypeOK /\ FlowInv /\ WipeInv /\ LoginInv /\ OutInv /\ OwnerInv
  BY DEF SessionInv
<1>1. CASE outcome = "ok"
  <2>1. /\ call[Me].at \in {"sent", "again"}
        /\ FlowIs("profile", call[Me].as, flow.why)
        /\ CallIs(Me, "none", NoUser)
        /\ UNCHANGED <<disk, store, socket, refresh, out, crossed, torn, kills>>
    <3>1. call[Me].at \in {"sent", "again"}
      BY DEF MeEnds
    <3>2. FlowIs("profile", call[Me].as, flow.why)
      BY <1>0, <1>1, FlowEdits DEF SessionTypeOK, MeEnds, AnswerMe, Place, Flow, AuthStore, Disk, Someone, Request, Refresh
    <3>3. CallIs(Me, "none", NoUser)
      BY <1>0 DEF SessionTypeOK, MeEnds
    <3>4. UNCHANGED <<disk, store, socket, refresh, out, crossed, torn, kills>>
      BY <1>1 DEF MeEnds, AnswerMe
    <3> QED BY <3>1, <3>2, <3>3, <3>4
  <2>2. SessionTypeOK'
    BY <1>0, <2>1 DEF SessionTypeOK
  <2>3. FlowInv'
    BY <1>0, <2>1 DEF FlowInv, Boots, Leaving, Wiping, Starting
  <2>4. WipeInv'
    BY <2>1 DEF WipeInv, Wiping, Leaving, Authenticated
  <2>5. LoginInv'
    BY <2>1 DEF LoginInv, SigningIn
  <2>6. OutInv'
    BY <1>0, <2>1 DEF FlowInv, OutInv, Wiping
  <2>7. OwnerInv'
    BY <1>0, <2>1 DEF FlowInv, OwnerInv, Owns
  <2> QED BY <2>2, <2>3, <2>4, <2>5, <2>6, <2>7 DEF SessionInv
<1>2. CASE outcome = "failed"
  <2>1. /\ call[Me].at \in {"sent", "again"}
        /\ FlowIs("idle", NoUser, "none")
        /\ StoreIs(store.access, store.refresh, store.user, TRUE)
        /\ CallIs(Me, "none", NoUser)
        /\ UNCHANGED <<disk, socket, refresh, out, crossed, torn, kills>>
    <3>1. call[Me].at \in {"sent", "again"}
      BY DEF MeEnds
    <3>2. FlowIs("idle", NoUser, "none")
      BY <1>2 DEF MeEnds, AnswerMe
    <3>3. StoreIs(store.access, store.refresh, store.user, TRUE)
      BY <1>0, <1>2, StoreEdits DEF SessionTypeOK, MeEnds, AnswerMe
    <3>4. CallIs(Me, "none", NoUser)
      BY <1>0 DEF SessionTypeOK, MeEnds
    <3>5. UNCHANGED <<disk, socket, refresh, out, crossed, torn, kills>>
      BY DEF MeEnds, AnswerMe
    <3> QED BY <3>1, <3>2, <3>3, <3>4, <3>5
  <2>2. SessionTypeOK'
    BY <1>0, <2>1 DEF SessionTypeOK
  <2>3. FlowInv'
    BY <2>1 DEF FlowInv, Boots, Leaving, Wiping, Starting
  <2>4. WipeInv'
    BY <2>1 DEF WipeInv, Wiping, Leaving, Authenticated
  <2>5. LoginInv'
    BY <1>0, <2>1 DEF FlowInv, LoginInv, Boots, Starting, SigningIn
  <2>6. OutInv'
    BY <1>0, <2>1 DEF OutInv, Wiping
  <2>7. OwnerInv'
    BY <1>0, <2>1 DEF FlowInv, OwnerInv, Owns
  <2> QED BY <2>2, <2>3, <2>4, <2>5, <2>6, <2>7 DEF SessionInv
<1> QED BY <1>1, <1>2

LEMMA RefreshPersistsKeeps ==
  ASSUME SessionInv, RefreshPersists
  PROVE  SessionInv'
<1> USE SessionAssumption, Records DEF DiskIs, StoreIs, FlowIs, RefreshIs, CallIs
<1>0. SessionTypeOK /\ FlowInv /\ WipeInv /\ LoginInv /\ OutInv /\ OwnerInv
  BY DEF SessionInv
<1>1. CASE refresh.at = "access"
  <2>1. /\ refresh # Quiet /\ refresh' # Quiet
        /\ RefreshIs("refresh token", refresh.user)
        /\ DiskIs(refresh.user, disk.refresh, disk.snapshot)
        /\ UNCHANGED <<store, socket, flow, call, out, crossed, torn, kills>>
    <3>1. refresh # Quiet /\ refresh' # Quiet
      BY <1>0, <1>1, RefreshEdits DEF SessionTypeOK, RefreshPersists
    <3>2. RefreshIs("refresh token", refresh.user)
      BY <1>0, <1>1, RefreshEdits DEF SessionTypeOK, RefreshPersists
    <3>3. DiskIs(refresh.user, disk.refresh, disk.snapshot)
      BY <1>0, <1>1, DiskEdits DEF SessionTypeOK, RefreshPersists, Refresh
    <3>4. UNCHANGED <<store, socket, flow, call, out, crossed, torn, kills>>
      BY <1>1 DEF RefreshPersists
    <3> QED BY <3>1, <3>2, <3>3, <3>4
  <2>2. SessionTypeOK'
    BY <1>0, <2>1 DEF SessionTypeOK
  <2>3. FlowInv'
    BY <1>0, <2>1 DEF FlowInv, Boots, Leaving
  <2>4. WipeInv'
    BY <1>0, <2>1 DEF WipeInv, Leaving, Authenticated
  <2>5. LoginInv'
    BY <1>0, <2>1 DEF LoginInv, Authenticated
  <2>6. OutInv'
    BY <1>0, <2>1 DEF OutInv, Wiping
  <2>7. OwnerInv'
    BY <1>0, <2>1 DEF OwnerInv, Owns
  <2> QED BY <2>2, <2>3, <2>4, <2>5, <2>6, <2>7 DEF SessionInv
<1>2. CASE refresh.at = "refresh token"
  <2>1. /\ refresh # Quiet /\ refresh' = Quiet
        /\ DiskIs(disk.access, refresh.user, disk.snapshot)
        /\ StoreIs(refresh.user, refresh.user, store.user, store.ready)
        /\ socket' = refresh.user
        /\ call' \in [Call -> Request]
        /\ \A k \in Call : call[k].at # "waiting" => call'[k] = call[k]
        /\ call[Me].at = "waiting" => call'[Me].as = refresh.user
        /\ UNCHANGED <<flow, out, crossed, torn, kills>>
    <3>0. /\ disk' = [disk EXCEPT !.refresh = refresh.user] /\ refresh' = Quiet
          /\ store' = [store EXCEPT !.access = refresh.user, !.refresh = refresh.user]
          /\ socket' = refresh.user
          /\ call' = [k \in Call |-> IF call[k].at = "waiting" THEN [at |-> "again", as |-> refresh.user] ELSE call[k]]
      BY <1>2 DEF RefreshPersists
    <3>1. refresh # Quiet /\ refresh' = Quiet
      BY <1>2, <3>0
    <3>2. DiskIs(disk.access, refresh.user, disk.snapshot)
      BY <1>0, <3>0, DiskEdits DEF SessionTypeOK, Refresh
    <3>3. StoreIs(refresh.user, refresh.user, store.user, store.ready)
      BY <1>0, <3>0, StoreEdits DEF SessionTypeOK, Refresh
    <3>4. socket' = refresh.user
      BY <3>0
    <3>5. call' \in [Call -> Request]
      BY <1>0, <3>0 DEF SessionTypeOK, Request, Refresh
    <3>6. \A k \in Call : call[k].at # "waiting" => call'[k] = call[k]
      BY <3>0
    <3>7. call[Me].at = "waiting" => call'[Me].as = refresh.user
      BY <3>0
    <3>8. UNCHANGED <<flow, out, crossed, torn, kills>>
      BY DEF RefreshPersists
    <3> QED BY <3>1, <3>2, <3>3, <3>4, <3>5, <3>6, <3>7, <3>8
  <2>2. SessionTypeOK'
    BY <1>0, <2>1 DEF SessionTypeOK, AuthStore
  <2>3. FlowInv'
    BY <1>0, <2>1 DEF FlowInv, Boots, Leaving
  <2>4. WipeInv'
    BY <1>0, <2>1 DEF WipeInv, Leaving, Authenticated
  <2>5. LoginInv'
    BY <1>0, <2>1 DEF LoginInv, Authenticated
  <2>6. OutInv'
    BY <1>0, <2>1 DEF OutInv, Wiping
  <2>7. OwnerInv'
    BY <1>0, <2>1 DEF OwnerInv, Owns
  <2> QED BY <2>2, <2>3, <2>4, <2>5, <2>6, <2>7 DEF SessionInv
<1> QED BY <1>1, <1>2 DEF RefreshPersists

LEMMA RefreshGoneKeeps ==
  ASSUME SessionInv, RefreshGone
  PROVE  SessionInv'
<1> USE SessionAssumption, Records DEF DiskIs, StoreIs, FlowIs, RefreshIs, CallIs
<1>0. SessionTypeOK /\ FlowInv /\ WipeInv /\ LoginInv /\ OutInv /\ OwnerInv
  BY DEF SessionInv
<1>1. /\ refresh # Quiet /\ refresh' = Quiet
      /\ call[Me].at # "waiting"
      /\ call' \in [Call -> Request]
      /\ \A k \in Call : call'[k].at = "none" \/ call'[k] = call[k]
      /\ UNCHANGED <<disk, store, socket, flow, out, crossed, torn, kills>>
  BY <1>0 DEF SessionTypeOK, RefreshGone
<1>2. SessionTypeOK'
  BY <1>0, <1>1 DEF SessionTypeOK
<1>3. FlowInv'
  BY <1>0, <1>1 DEF FlowInv, Boots, Leaving
<1>4. WipeInv'
  BY <1>0, <1>1 DEF WipeInv, Leaving, Authenticated
<1>5. LoginInv'
  BY <1>0, <1>1 DEF LoginInv, Authenticated
<1>6. OutInv'
  BY <1>0, <1>1 DEF OutInv, Wiping
<1>7. OwnerInv'
  BY <1>0, <1>1 DEF FlowInv, OwnerInv, Owns, Boots, Starting
<1> QED BY <1>2, <1>3, <1>4, <1>5, <1>6, <1>7 DEF SessionInv
LEMMA RenewKeeps ==
  ASSUME SessionInv, Renew
  PROVE  SessionInv'
<1> USE SessionAssumption, Records DEF DiskIs, StoreIs, FlowIs, RefreshIs, CallIs
<1>0. /\ SessionTypeOK /\ FlowInv /\ WipeInv /\ LoginInv /\ OutInv /\ OwnerInv
      /\ flow.at = "refresh" /\ UNCHANGED <<disk, store, refresh, call, out, crossed, torn, kills>>
  BY DEF SessionInv, Renew
<1>1. CASE flow' = [flow EXCEPT !.at = "renewed access"] /\ UNCHANGED socket
  <2>1. FlowIs("renewed access", flow.user, flow.why)
    BY <1>0, <1>1, FlowEdits DEF SessionTypeOK, Place
  <2>2. SessionTypeOK'
    BY <1>0, <1>1, <2>1 DEF SessionTypeOK
  <2>3. FlowInv'
    BY <1>0, <2>1 DEF FlowInv, Boots, Leaving, Wiping, Starting
  <2>4. WipeInv' /\ LoginInv'
    BY <2>1 DEF WipeInv, LoginInv, Wiping, SigningIn, Leaving, Authenticated
  <2>5. OutInv'
    BY <1>0 DEF OutInv, Wiping
  <2>6. OwnerInv'
    BY <1>0, <1>1, <2>1 DEF OwnerInv, Owns, Starting
  <2> QED BY <2>2, <2>3, <2>4, <2>5, <2>6 DEF SessionInv
<1>2. CASE Clear("failed")
  <2>1. refresh = Quiet /\ \A k \in Call : call[k].at = "none"
    BY <1>0 DEF FlowInv, Boots, Starting
  <2>2. Boots /\ call \in [Call -> Request]
    BY <1>0 DEF Boots, Starting, SessionTypeOK
  <2>3. GivesUp
    BY <1>0, <1>2, <2>1, <2>2 DEF GivesUp
  <2> QED BY <2>3, GivesUpKeeps
<1> QED BY <1>1, <1>2 DEF Renew

LEMMA FinishKeeps ==
  ASSUME SessionInv, NEW k \in Call, NEW outcome \in {"ok", "fatal", "failed"}, Finish(k, outcome)
  PROVE  SessionInv'
<1> USE SessionAssumption, Records
<1>0. /\ SessionTypeOK /\ FlowInv /\ call[k].at \in {"sent", "again"}
      /\ call' = [call EXCEPT ![k] = NoRequest]
      /\ UNCHANGED <<disk, refresh, out, crossed, torn, kills>>
  BY DEF SessionInv, Finish
<1>1. CASE k # Me
  <2>1. Other(k)
    BY <1>1 DEF Other, Finish, AnswerMe
  <2> QED BY <2>1, OtherKeeps
<1>2. CASE k = Me /\ outcome # "fatal"
  <2>1. MeEnds(outcome) /\ outcome \in {"ok", "failed"}
    BY <1>2 DEF MeEnds, Finish
  <2> QED BY <2>1, MeEndsKeeps
<1>3. CASE k = Me /\ outcome = "fatal"
  <2>1. flow.at = "me" /\ Boots
    BY <1>0, <1>3 DEF FlowInv, Boots, Starting
  <2>2. refresh' = Quiet
    BY <1>0, <2>1 DEF FlowInv
  <2>3. call' \in [Call -> Request] /\ \A j \in Call : call'[j].at = "none"
    BY <1>0, <2>1 DEF FlowInv, SessionTypeOK
  <2>4. Clear("refused") /\ UNCHANGED store
    BY <1>3 DEF Finish, AnswerMe
  <2>5. GivesUp
    BY <1>0, <2>1, <2>2, <2>3, <2>4 DEF GivesUp
  <2> QED BY <2>5, GivesUpKeeps
<1> QED BY <1>1, <1>2, <1>3

LEMMA UnauthorizedKeeps ==
  ASSUME SessionInv, NEW k \in Call, Unauthorized(k)
  PROVE  SessionInv'
<1> USE SessionAssumption, Records
<1>0. SessionTypeOK /\ FlowInv /\ call[k].at = "sent" /\ UNCHANGED <<disk, out, torn, kills>>
  BY DEF SessionInv, Unauthorized
<1>1. CASE store.refresh # NoUser
  <2>1. Waits(k)
    BY <1>1 DEF Waits, Unauthorized
  <2> QED BY <2>1, WaitsKeeps
<1>2. CASE store.refresh = NoUser /\ k # Me
  <2>1. Other(k)
    BY <1>2 DEF Other, Unauthorized, AnswerMe
  <2> QED BY <2>1, OtherKeeps
<1>3. CASE store.refresh = NoUser /\ k = Me
  <2>1. flow.at = "me" /\ Boots
    BY <1>0, <1>3 DEF FlowInv, Boots, Starting
  <2>2. /\ call' = [call EXCEPT ![Me] = NoRequest] /\ AnswerMe(Me, "fatal")
        /\ UNCHANGED <<refresh, crossed>>
    BY <1>3 DEF Unauthorized
  <2>3. refresh' = Quiet
    BY <1>0, <2>1, <2>2 DEF FlowInv
  <2>4. call' \in [Call -> Request] /\ \A j \in Call : call'[j].at = "none"
    BY <1>0, <2>1, <2>2 DEF FlowInv, SessionTypeOK
  <2>5. Clear("refused") /\ UNCHANGED store
    BY <2>2 DEF AnswerMe
  <2>6. GivesUp
    BY <1>0, <2>1, <2>2, <2>3, <2>4, <2>5 DEF GivesUp
  <2> QED BY <2>6, GivesUpKeeps
<1> QED BY <1>1, <1>2, <1>3

LEMMA RefreshFailsKeeps ==
  ASSUME SessionInv, RefreshFails
  PROVE  SessionInv'
<1> USE SessionAssumption, Records
<1>0. /\ SessionTypeOK /\ FlowInv /\ refresh # Quiet /\ refresh' = Quiet
      /\ call' = [k \in Call |-> IF call[k].at = "waiting" THEN NoRequest ELSE call[k]]
      /\ UNCHANGED <<disk, store, out, crossed, torn, kills>>
  BY DEF SessionInv, RefreshFails
<1>1. CASE call[Me].at # "waiting"
  <2>1. RefreshGone
    BY <1>1 DEF RefreshGone, RefreshFails
  <2> QED BY <2>1, RefreshGoneKeeps
<1>2. CASE call[Me].at = "waiting"
  <2>1. flow.at = "me" /\ Boots
    BY <1>0, <1>2 DEF FlowInv, Boots, Starting
  <2>2. call' \in [Call -> Request] /\ \A j \in Call : call'[j].at = "none"
    BY <1>0, <2>1 DEF FlowInv, SessionTypeOK
  <2>3. AnswerMe(Me, "fatal")
    BY <1>2 DEF RefreshFails
  <2>4. Clear("refused")
    BY <2>3 DEF AnswerMe
  <2>5. GivesUp
    BY <1>0, <2>1, <2>2, <2>4 DEF GivesUp
  <2> QED BY <2>5, GivesUpKeeps
<1> QED BY <1>1, <1>2

LEMMA SessionInitInv == SessionInit => SessionInv
<1> USE SessionAssumption, Records
<1> SUFFICES ASSUME SessionInit PROVE SessionInv
  OBVIOUS
<1>1. PICK u \in Someone : disk = [access |-> u, refresh |-> u, snapshot |-> u]
  BY DEF SessionInit, Empty, Someone
<1>2. /\ flow \in Flow /\ flow.at = "load" /\ flow.user = NoUser /\ flow.why = "none"
  <2>1. \A f \in Flow : /\ [f EXCEPT !.at = "load"] \in Flow /\ [f EXCEPT !.at = "load"].at = "load"
                        /\ [f EXCEPT !.at = "load"].user = f.user /\ [f EXCEPT !.at = "load"].why = f.why
    BY DEF Flow, Place
  <2> QED BY <2>1 DEF SessionInit
<1>3. SessionTypeOK
  <2>1. disk \in Disk
    BY <1>1 DEF Disk
  <2>2. call \in [Call -> Request]
    BY DEF SessionInit
  <2>3. store \in AuthStore /\ socket \in Someone /\ refresh \in Refresh
    BY DEF SessionInit
  <2>4. out \in {"no", "yes", "profile kept"} /\ crossed \in BOOLEAN /\ torn \in BOOLEAN
    BY DEF SessionInit
  <2>5. kills \in 0 .. MaxKills
    BY DEF SessionInit
  <2> QED BY <1>2, <2>1, <2>2, <2>3, <2>4, <2>5 DEF SessionTypeOK
<1>4. FlowInv /\ WipeInv /\ LoginInv /\ OutInv
  <2>1. /\ store.ready = FALSE /\ ~Authenticated /\ refresh = Quiet /\ out = "no"
        /\ \A k \in Call : call[k].at = "none"
    BY DEF SessionInit, Authenticated
  <2>2. Boots /\ ~Leaving /\ flow.at \notin Wiping
    BY <1>2 DEF Boots, Leaving, Starting, Wiping
  <2>3. FlowInv
    BY <1>2, <2>1, <2>2 DEF FlowInv
  <2> QED BY <1>2, <2>1, <2>2, <2>3 DEF WipeInv, LoginInv, OutInv, SigningIn
<1>5. Owns(u)
  BY <1>1 DEF SessionInit, Owns
<1> QED BY <1>3, <1>4, <1>5 DEF SessionInv, OwnerInv

LEMMA SessionStep == SessionInv /\ [SessionNext]_sessionVars => SessionInv'
<1> SUFFICES ASSUME SessionInv, [SessionNext]_sessionVars PROVE SessionInv'
  OBVIOUS
<1>1. CASE FlowStep \/ Renew \/ Login
  BY <1>1, WipeAccessKeeps, WipeRefreshKeeps, WipeSnapshotKeeps, WipeFailsKeeps, LoadKeeps, RenewKeeps,
     PersistRenewedKeeps, ProfileKeeps, StartFailsKeeps, LoginKeeps, PersistLoginKeeps, LoggedInKeeps,
     LoginFailsKeeps DEF FlowStep
<1>2. CASE RefreshStep
  BY <1>2, RefreshFailsKeeps, RefreshAnswersKeeps, RefreshPersistsKeeps DEF RefreshStep
<1>3. CASE SignOut \/ Kill \/ \E u \in User : SignIn(u)
  BY <1>3, SignOutKeeps, KillKeeps, SignInKeeps
<1>4. CASE \E k \in Call : SendCall(k) \/ Answered(k)
  BY <1>4, SendCallKeeps, UnauthorizedKeeps, FinishKeeps DEF Answered
<1>5. CASE UNCHANGED sessionVars
  <2>1. /\ disk' = disk /\ store' = store /\ socket' = socket /\ flow' = flow /\ refresh' = refresh
        /\ call' = call /\ out' = out /\ crossed' = crossed /\ torn' = torn /\ kills' = kills
    BY <1>5 DEF sessionVars
  <2>2. SessionTypeOK' /\ FlowInv'
    BY <2>1 DEF SessionInv, SessionTypeOK, FlowInv, Boots, Leaving
  <2>3. WipeInv' /\ LoginInv' /\ OutInv'
    BY <2>1 DEF SessionInv, WipeInv, LoginInv, OutInv, Authenticated, Wiping, Leaving
  <2>4. OwnerInv'
    <3>1. \A u : Owns(u)' <=> Owns(u)
      BY <2>1 DEF Owns
    <3> QED BY <2>1, <3>1 DEF SessionInv, OwnerInv
  <2> QED BY <2>2, <2>3, <2>4 DEF SessionInv
<1> QED BY <1>1, <1>2, <1>3, <1>4, <1>5 DEF SessionNext

\* SessionInv holds whatever the flows, the requests, the refresh and the kills do.
THEOREM SessionInvariance == SessionSpec => []SessionInv
BY SessionInitInv, SessionStep, PTL DEF SessionSpec

\* Who signs out is out for good: no answer that comes late and no kill brings a token back to the
\* store, the storage or the socket, as long as no refresh was in flight when he signed out.
THEOREM SignedOutIsOut == SessionSpec => []SignedOutStays
<1>1. SessionInv => SignedOutStays
  BY DEF SessionInv, OutInv, SignedOutStays
<1> QED BY <1>1, SessionInvariance, PTL

\* The profile, the tokens of the requests, those in the storage and the socket are one user's
\* whenever no sign in is being stored, for any number of users, requests and kills.
THEOREM OneUserAtATime == SessionSpec => []OneUser
<1>1. SessionInv => OneUser
  <2> SUFFICES ASSUME SessionInv, Authenticated, flow.at = "idle", ~crossed, ~torn
               PROVE  /\ store.access = store.user
                      /\ {store.refresh, disk.access, disk.refresh, socket} \subseteq {store.user, NoUser}
    BY DEF OneUser
  <2>1. PICK u \in Someone : Owns(u)
    BY DEF SessionInv, OwnerInv
  <2> QED BY <2>1 DEF Owns, Authenticated
<1> QED BY <1>1, SessionInvariance, PTL

-----------------------------------------------------------------------------
(* PushTokens, for any captains, tokens and notifications: SubmittedReaches. A            *)
(* registration is for the present token of the phone or for a dead one, so that a token  *)
(* the phone gets later is not one it registered before; and it is for the captain who is *)
(* signed in, or late is set.                                                             *)

InWay(g) == g.at \in {"sent", "answered"}

\* The phone's token is delivered to, and nothing is registered without one.
TokenInv ==
    /\ phone.token \notin dead
    /\ phone.user # NoCaptain => phone.token # NoToken
    /\ phone.token = NoToken => /\ phone.submitted = NoToken
                                /\ sync = NoRegistration /\ listening = NoRegistration
    /\ sync.at = "token" /\ ~sync.cancelled => phone.user # NoCaptain

\* A registration in flight is for the present token or a dead one, and for whoever is signed in.
RegistrationInv(g) ==
    InWay(g) => /\ g.token \in {phone.token} \cup dead
                /\ ~late => g.user = phone.user /\ phone.user # NoCaptain

SubmittedInv ==
    /\ phone.submitted \in {NoToken, phone.token} \cup dead
    /\ ~late /\ phone.submitted # NoToken => phone.user # NoCaptain

\* The present token is registered, as far as the phone knows or will know.
Claims(g) == g.at = "answered" /\ g.token = phone.token
Claimed == phone.submitted = phone.token \/ Claims(sync) \/ Claims(listening)

\* Then its row is the captain's and active, and no refusal is awaited for it.
RowInv ==
    /\ rows[phone.token] = [user |-> phone.user, active |-> TRUE]
    /\ \A p \in Push : phone.token \notin push[p].refused

ClaimedInv == ~late /\ phone.token # NoToken /\ Claimed => RowInv

PushInv ==
    /\ PushTypeOK /\ TokenInv
    /\ RegistrationInv(sync) /\ RegistrationInv(listening)
    /\ SubmittedInv /\ ClaimedInv

LEMMA PushTypeInit == PushInit => PushTypeOK
<1>1. NoRegistration \in Registration /\ NoNotification \in Notification
  BY DEF NoRegistration, Registration, NoNotification, Notification, SomeCaptain, SomeToken
<1> SUFFICES ASSUME PushInit PROVE PushTypeOK
  OBVIOUS
<1>2. phone \in Phone
  BY DEF PushInit, Phone, SomeCaptain, SomeToken
<1>3. rows \in [Token -> PushRow]
  BY DEF PushInit, PushRow, SomeCaptain
<1>4. QED
  BY <1>1, <1>2, <1>3 DEF PushInit, PushTypeOK

LEMMA PushInitInv == PushInit => PushInv
<1> SUFFICES ASSUME PushInit PROVE PushInv
  OBVIOUS
<1>1. PICK t \in Token : phone = [user |-> NoCaptain, token |-> t, submitted |-> NoToken]
  BY DEF PushInit
<1>2. NoRegistration.at = "idle"
  BY DEF NoRegistration
<1>3. QED
  BY <1>1, <1>2, PushTypeInit, PushAssumption
     DEF PushInit, PushInv, TokenInv, RegistrationInv, SubmittedInv, ClaimedInv, Claimed, Claims, InWay

LEMMA RegistrationTypes ==
  /\ NoRegistration \in Registration /\ NoRegistration.at = "idle"
  /\ \A u \in SomeCaptain : Start(u) \in Registration /\ Start(u).at = "token" /\ ~Start(u).cancelled
  /\ NoNotification \in Notification /\ NoNotification.refused = {}
  BY DEF NoRegistration, Registration, Start, NoNotification, Notification, SomeCaptain, SomeToken

\* Signing in: nothing is claimed, and what is in flight is late.
LEMMA SignedInKeepsInv ==
  ASSUME PushInv, NEW u \in Captain, SignedIn(u)
  PROVE  PushInv'
<1>1. /\ phone' = [phone EXCEPT !.user = u] /\ phone \in Phone
      /\ phone'.token = phone.token /\ phone'.submitted = phone.submitted /\ phone'.user = u
      /\ u # NoCaptain /\ phone.user = NoCaptain /\ phone.token # NoToken
  BY PushAssumption DEF SignedIn, PushInv, PushTypeOK, Phone
<1>2. sync' = sync \/ (sync'.at = "token" /\ ~sync'.cancelled /\ sync' \in Registration)
  BY RegistrationTypes DEF SignedIn, SomeCaptain
<1>3. PushTypeOK'
  BY <1>1, <1>2 DEF SignedIn, PushInv, PushTypeOK, Phone, SomeCaptain
<1>4. ~late => ~InWay(sync) /\ ~InWay(listening) /\ phone.submitted = NoToken
  BY <1>1 DEF PushInv, RegistrationInv, SubmittedInv
<1>5. TokenInv'
  BY <1>1, <1>2 DEF SignedIn, PushInv, TokenInv
<1>6. RegistrationInv(sync)' /\ RegistrationInv(listening)'
  BY <1>1, <1>2, <1>4 DEF SignedIn, PushInv, RegistrationInv, InWay
<1>7. SubmittedInv' /\ ClaimedInv'
  BY <1>1, <1>2, <1>4 DEF SignedIn, PushInv, SubmittedInv, ClaimedInv, Claimed, Claims, InWay
<1>8. QED
  BY <1>3, <1>5, <1>6, <1>7 DEF PushInv

LEMMA SignedOutKeepsInv ==
  ASSUME PushInv, SignedOut
  PROVE  PushInv'
<1>1. /\ phone' = [phone EXCEPT !.user = NoCaptain, !.submitted = NoToken] /\ phone \in Phone
      /\ phone'.token = phone.token /\ phone'.submitted = NoToken /\ phone'.user = NoCaptain
      /\ phone.token # NoToken
  BY DEF SignedOut, PushInv, PushTypeOK, TokenInv, Phone
<1>2. /\ sync' \in Registration /\ sync'.at = sync.at /\ sync'.token = sync.token
      /\ sync.at # "idle" => sync'.cancelled
  BY DEF SignedOut, PushInv, PushTypeOK, Registration
<1>3. PushTypeOK'
  BY <1>1, <1>2 DEF SignedOut, PushInv, PushTypeOK, Phone, SomeCaptain, SomeToken
<1>4. ~late' => ~InWay(sync)' /\ ~InWay(listening)'
  BY <1>2, RegistrationTypes DEF SignedOut, InWay
<1>5. TokenInv'
  BY <1>1, <1>2 DEF SignedOut, PushInv, TokenInv
<1>6. RegistrationInv(sync)' /\ RegistrationInv(listening)'
  BY <1>1, <1>2, <1>4 DEF SignedOut, PushInv, RegistrationInv, InWay
<1>7. SubmittedInv' /\ ClaimedInv'
  BY <1>1, <1>4 DEF SubmittedInv, ClaimedInv, Claimed, Claims, InWay
<1>8. QED
  BY <1>3, <1>5, <1>6, <1>7 DEF PushInv

LEMMA SyncStartsKeepsInv ==
  ASSUME PushInv, SyncStarts
  PROVE  PushInv'
<1>1. sync' \in Registration /\ sync'.at = "token" /\ ~sync'.cancelled
  BY RegistrationTypes DEF SyncStarts, PushInv, PushTypeOK, Phone
<1>2. PushTypeOK' /\ TokenInv'
  BY <1>1 DEF SyncStarts, PushInv, PushTypeOK, TokenInv
<1>3. QED
  BY <1>1, <1>2 DEF SyncStarts, PushInv, RegistrationInv, InWay, SubmittedInv, ClaimedInv, Claimed, Claims, RowInv

LEMMA TokenReadKeepsInv ==
  ASSUME PushInv, TokenRead
  PROVE  PushInv'
<1>1. phone \in Phone /\ phone.token # NoToken
  BY RegistrationTypes DEF TokenRead, PushInv, PushTypeOK, TokenInv
<1>2. \/ sync' = NoRegistration
      \/ /\ sync' \in Registration /\ sync'.at = "sent" /\ sync'.token = phone.token /\ sync'.user = phone.user
         /\ phone.user # NoCaptain
  BY <1>1 DEF TokenRead, PushInv, PushTypeOK, TokenInv, Registration, Phone
<1>3. PushTypeOK' /\ TokenInv'
  BY <1>1, <1>2, RegistrationTypes DEF TokenRead, PushInv, PushTypeOK, TokenInv
<1>4. RegistrationInv(sync)' /\ RegistrationInv(listening)'
  BY <1>2, RegistrationTypes DEF TokenRead, PushInv, RegistrationInv, InWay
<1>5. Claimed' => Claimed
  BY <1>2, RegistrationTypes DEF TokenRead, Claimed, Claims
<1>6. SubmittedInv' /\ ClaimedInv'
  BY <1>5 DEF TokenRead, PushInv, SubmittedInv, ClaimedInv, RowInv
<1>7. QED
  BY <1>3, <1>4, <1>6 DEF PushInv

\* A registration commits: the row becomes that of the signed-in captain, or late is set.
LEMMA CommitKeepsInv ==
  ASSUME PushInv, NEW g, g \in {sync, listening}, g.at = "sent",
         \/ /\ sync = g /\ listening' = listening
            /\ \/ sync' = NoRegistration /\ UNCHANGED <<rows, late>>
               \/ sync' = [sync EXCEPT !.at = "answered"] /\ Upsert(g.token, g.user)
         \/ /\ listening = g /\ sync' = sync
            /\ \/ listening' = NoRegistration /\ UNCHANGED <<rows, late>>
               \/ listening' = [listening EXCEPT !.at = "answered"] /\ Upsert(g.token, g.user),
         UNCHANGED <<phone, push, dead>>
  PROVE  PushInv'
<1>1. sync \in Registration /\ listening \in Registration /\ phone \in Phone /\ phone.token # NoToken
  BY RegistrationTypes DEF PushInv, PushTypeOK, TokenInv
<1>2. g.token \in SomeToken /\ g.user \in SomeCaptain
  BY <1>1 DEF Registration
<1>3. \A h \in {sync', listening'} :
        \/ h = NoRegistration
        \/ h \in {sync, listening}
        \/ h \in Registration /\ h.at = "answered" /\ h.token = g.token /\ h.user = g.user
  BY <1>1 DEF Registration
<1>4. /\ sync' = NoRegistration \/ sync' = sync \/ sync' = [sync EXCEPT !.at = "answered"]
      /\ listening' = NoRegistration \/ listening' = listening \/ listening' = [listening EXCEPT !.at = "answered"]
  OBVIOUS
<1>5. sync' \in Registration /\ listening' \in Registration
  BY <1>1, <1>3, RegistrationTypes
<1>6. /\ UNCHANGED <<rows, late>> \/ Upsert(g.token, g.user)
      /\ late' \in BOOLEAN /\ (late => late')
  BY DEF Upsert, PushInv, PushTypeOK
<1>7. PushTypeOK'
  <2>1. rows' \in [Token -> PushRow]
    <3>1. CASE UNCHANGED rows
      BY <3>1 DEF PushInv, PushTypeOK
    <3>2. CASE Upsert(g.token, g.user)
      BY <1>2, <3>2 DEF Upsert, PushInv, PushTypeOK, PushRow
    <3>3. QED
      BY <1>6, <3>1, <3>2
  <2>2. QED
    BY <1>5, <1>6, <2>1 DEF PushInv, PushTypeOK
<1>8. sync'.at = "token" => sync' = sync
  BY <1>1, <1>4, RegistrationTypes DEF Registration
<1>9. TokenInv'
  BY <1>1, <1>8 DEF PushInv, TokenInv
<1>10. RegistrationInv(g)
  BY DEF PushInv
<1>11. RegistrationInv(sync)' /\ RegistrationInv(listening)'
  BY <1>3, <1>6, <1>10, RegistrationTypes DEF PushInv, RegistrationInv, InWay
<1>12. SubmittedInv'
  BY <1>6 DEF PushInv, SubmittedInv
<1>13. ClaimedInv'
  <2> SUFFICES ASSUME ~late', Claimed' PROVE RowInv'
    BY DEF ClaimedInv
  <2>1. CASE Upsert(g.token, g.user) /\ g.token = phone.token
    <3>1. phone.token \in Token /\ g.user = phone.user
      BY <1>1, <1>6, <1>10, <2>1 DEF Phone, SomeToken, RegistrationInv, InWay
    <3>2. rows'[phone.token] = [user |-> phone.user, active |-> TRUE]
      BY <2>1, <3>1 DEF Upsert, PushInv, PushTypeOK
    <3>3. \A p \in Push : phone.token \notin push[p].refused
      BY <2>1 DEF Upsert
    <3>4. QED
      BY <3>2, <3>3 DEF RowInv
  <2>2. CASE Upsert(g.token, g.user) /\ g.token # phone.token
    <3>1. Claimed
      BY <1>3, <2>2, RegistrationTypes DEF Claimed, Claims
    <3>2. rows'[phone.token] = rows[phone.token]
      BY <1>1, <2>2 DEF Upsert, PushInv, PushTypeOK, Phone, SomeToken
    <3>3. QED
      BY <1>1, <1>6, <3>1, <3>2 DEF PushInv, ClaimedInv, RowInv
  <2>3. CASE UNCHANGED <<rows, late>> /\ ~Upsert(g.token, g.user)
    <3>1. Claimed
      BY <2>3, RegistrationTypes DEF Claimed, Claims
    <3>2. QED
      BY <1>1, <2>3, <3>1 DEF PushInv, ClaimedInv, RowInv
  <2>4. QED
    BY <1>6, <2>1, <2>2, <2>3
<1>14. QED
  BY <1>7, <1>9, <1>11, <1>12, <1>13 DEF PushInv

\* The answer comes: what was claimed for the token in flight is claimed by submitted.
LEMMA AnswerKeepsInv ==
  ASSUME PushInv, NEW g, g \in {sync, listening}, g.at = "answered",
         \/ g = sync /\ sync' = NoRegistration /\ listening' = listening
         \/ g = listening /\ listening' = NoRegistration /\ sync' = sync,
         phone' \in {phone, [phone EXCEPT !.submitted = g.token]},
         UNCHANGED <<rows, push, dead, late>>
  PROVE  PushInv'
<1>1. g \in Registration /\ phone \in Phone /\ phone.token # NoToken
  BY RegistrationTypes DEF PushInv, PushTypeOK, TokenInv
<1>2. phone'.user = phone.user /\ phone'.token = phone.token /\ phone'.submitted \in {phone.submitted, g.token}
  BY <1>1 DEF Phone
<1>3. PushTypeOK'
  <2>1. phone' \in Phone
    BY <1>1 DEF Phone, Registration
  <2>2. QED
    BY <2>1, RegistrationTypes DEF PushInv, PushTypeOK
<1>4. TokenInv'
  BY <1>1, <1>2, RegistrationTypes DEF PushInv, TokenInv
<1>5. RegistrationInv(g)
  BY DEF PushInv
<1>6. RegistrationInv(sync)' /\ RegistrationInv(listening)'
  BY <1>2, RegistrationTypes DEF PushInv, RegistrationInv, InWay
<1>7. SubmittedInv'
  BY <1>2, <1>5 DEF PushInv, SubmittedInv, RegistrationInv, InWay
<1>8. Claimed' => Claimed
  BY <1>2, RegistrationTypes DEF Claimed, Claims
<1>9. ClaimedInv'
  BY <1>2, <1>8 DEF PushInv, ClaimedInv, RowInv
<1>10. QED
  BY <1>3, <1>4, <1>6, <1>7, <1>9 DEF PushInv

\* The new token is one that nothing has been registered for since it was last dead.
LEMMA TokenChangesKeepsInv ==
  ASSUME PushInv, TokenChanges
  PROVE  PushInv'
<1>1. PICK t \in Token \ (dead \cup {phone.token}) :
        /\ phone' = [phone EXCEPT !.token = t]
        /\ dead' = dead \cup {phone.token}
        /\ listening' = IF phone.user # NoCaptain /\ phone.submitted # t
                          THEN [at |-> "sent", token |-> t, user |-> phone.user, cancelled |-> FALSE]
                          ELSE NoRegistration
  BY DEF TokenChanges
<1>2. phone \in Phone /\ phone.token \in Token /\ t # NoToken
  BY PushAssumption DEF TokenChanges, PushInv, PushTypeOK, Phone, SomeToken
<1>3. phone'.user = phone.user /\ phone'.token = t /\ phone'.submitted = phone.submitted /\ phone' \in Phone
  BY <1>1, <1>2 DEF Phone, SomeToken
<1>4. \/ listening' = NoRegistration
      \/ /\ listening' \in Registration /\ listening'.at = "sent" /\ listening'.token = t
         /\ listening'.user = phone.user /\ phone.user # NoCaptain
  BY <1>1, <1>2 DEF Registration, Phone, SomeToken
<1>5. PushTypeOK'
  BY <1>1, <1>2, <1>3, <1>4, RegistrationTypes DEF TokenChanges, PushInv, PushTypeOK
<1>6. TokenInv'
  BY <1>1, <1>2, <1>3 DEF TokenChanges, PushInv, TokenInv
<1>7. RegistrationInv(sync)' /\ RegistrationInv(listening)'
  BY <1>1, <1>3, <1>4, RegistrationTypes DEF TokenChanges, PushInv, RegistrationInv, InWay
<1>8. SubmittedInv'
  BY <1>1, <1>2, <1>3 DEF TokenChanges, PushInv, SubmittedInv
<1>9. ~Claimed'
  <2>1. phone.submitted # t
    BY <1>1, <1>2 DEF PushInv, SubmittedInv
  <2>2. ~Claims(sync)'
    BY <1>1, <1>3 DEF TokenChanges, PushInv, RegistrationInv, InWay, Claims
  <2>3. ~Claims(listening)'
    BY <1>4, RegistrationTypes DEF Claims
  <2>4. QED
    BY <1>3, <2>1, <2>2, <2>3 DEF Claimed
<1>10. QED
  BY <1>5, <1>6, <1>7, <1>8, <1>9 DEF PushInv, ClaimedInv

LEMMA RemovedKeepsInv ==
  ASSUME PushInv, Removed \/ Installed
  PROVE  PushInv'
<1>1. CASE Removed
  <2>1. phone'.user = NoCaptain /\ phone'.token = NoToken /\ phone'.submitted = NoToken /\ phone' \in Phone
    BY <1>1 DEF Removed, Phone, SomeCaptain, SomeToken
  <2>2. phone.token \in Token
    BY <1>1 DEF Removed, PushInv, PushTypeOK, Phone, SomeToken
  <2>3. PushTypeOK'
    BY <1>1, <2>1, <2>2, RegistrationTypes DEF Removed, PushInv, PushTypeOK
  <2>4. NoToken \notin dead'
    BY <1>1, <2>2, PushAssumption DEF Removed, PushInv, PushTypeOK
  <2>5. TokenInv'
    BY <1>1, <2>1, <2>4, RegistrationTypes DEF Removed, TokenInv
  <2>6. RegistrationInv(sync)' /\ RegistrationInv(listening)' /\ SubmittedInv' /\ ClaimedInv'
    BY <1>1, <2>1, RegistrationTypes DEF Removed, RegistrationInv, InWay, SubmittedInv, ClaimedInv
  <2>7. QED
    BY <2>3, <2>5, <2>6 DEF PushInv
<1>2. CASE Installed
  <2>1. PICK t \in Token : phone' = [phone EXCEPT !.token = t] /\ dead' = dead \ {t}
    BY <1>2 DEF Installed
  <2>2. /\ phone'.user = NoCaptain /\ phone'.token = t /\ phone'.submitted = NoToken /\ phone' \in Phone
        /\ t # NoToken /\ sync = NoRegistration /\ listening = NoRegistration
    BY <1>2, <2>1, PushAssumption DEF Installed, PushInv, PushTypeOK, TokenInv, Phone, SomeToken
  <2>3. PushTypeOK'
    BY <1>2, <2>1, <2>2 DEF Installed, PushInv, PushTypeOK
  <2>4. TokenInv'
    BY <1>2, <2>1, <2>2, RegistrationTypes DEF Installed, TokenInv
  <2>5. RegistrationInv(sync)' /\ RegistrationInv(listening)' /\ SubmittedInv'
    BY <1>2, <2>2, RegistrationTypes DEF Installed, RegistrationInv, InWay, SubmittedInv
  <2>6. ~Claimed'
    BY <1>2, <2>2, RegistrationTypes DEF Installed, Claimed, Claims
  <2>7. QED
    BY <2>3, <2>4, <2>5, <2>6 DEF PushInv, ClaimedInv
<1>3. QED
  BY <1>1, <1>2

\* A notification never awaits the refusal of the phone's present token.
LEMMA NotificationKeepsInv ==
  ASSUME PushInv, NEW p \in Push,
         (\E u \in Captain : Send(p, u)) \/ Tickets(p) \/ Refusals(p) \/ ExpoFails(p)
  PROVE  PushInv'
<1>1. UNCHANGED <<phone, sync, listening, dead, late>>
  BY DEF Send, Tickets, Refusals, ExpoFails
<1>2. rows \in [Token -> PushRow] /\ push \in [Push -> Notification] /\ push[p] \in Notification
  BY DEF PushInv, PushTypeOK
<1>3. /\ push' \in [Push -> Notification]
      /\ \A q \in Push : push'[q].refused \subseteq push[q].refused \cup dead
  <2>1. CASE \E u \in Captain : Send(p, u)
    <3>1. PICK u \in Captain : Send(p, u)
      BY <2>1
    <3>2. [at |-> "sent", rows |-> ActiveRows(u), refused |-> {}] \in Notification
      BY DEF Notification, ActiveRows
    <3>3. QED
      BY <1>2, <3>1, <3>2 DEF Send
  <2>2. CASE Tickets(p)
    <3> DEFINE n == [push[p] EXCEPT !.at = "receipts", !.refused = push[p].rows \cap dead]
    <3>1. n \in Notification /\ n.refused \subseteq dead
      BY <1>2 DEF Notification
    <3>2. push' = [push EXCEPT ![p] = n]
      BY <2>2 DEF Tickets
    <3>3. QED
      BY <1>2, <3>1, <3>2
  <2>3. CASE Refusals(p)
    <3>1. PICK ts \in SUBSET push[p].refused : push' = [push EXCEPT ![p] = AfterRefusals(push[p], ts)]
      BY <2>3 DEF Refusals
    <3>2. AfterRefusals(push[p], ts) \in Notification /\ AfterRefusals(push[p], ts).refused \subseteq push[p].refused
      <4>1. CASE ts = push[p].refused
        BY <4>1, RegistrationTypes DEF AfterRefusals
      <4>2. CASE ts # push[p].refused
        BY <1>2, <4>2 DEF AfterRefusals, Notification
      <4>3. QED
        BY <4>1, <4>2
    <3>3. QED
      BY <1>2, <3>1, <3>2
  <2>4. CASE ExpoFails(p)
    BY <1>2, <2>4, RegistrationTypes DEF ExpoFails
  <2>5. QED
    BY <2>1, <2>2, <2>3, <2>4
<1>4. /\ rows' \in [Token -> PushRow]
      /\ \A t \in Token : (\A q \in Push : t \notin push[q].refused) => rows'[t] = rows[t]
  <2>1. CASE rows' = rows
    BY <1>2, <2>1
  <2>2. CASE Refusals(p)
    <3>1. PICK ts \in SUBSET push[p].refused : rows' = Close(ts)
      BY <2>2 DEF Refusals
    <3>2. \A t \in Token : [rows[t] EXCEPT !.active = FALSE] \in PushRow
      BY <1>2 DEF PushRow
    <3>3. QED
      BY <1>2, <3>1, <3>2 DEF Close
  <2>3. QED
    BY <2>1, <2>2 DEF Send, Tickets, ExpoFails
<1>5. PushTypeOK'
  BY <1>1, <1>3, <1>4 DEF PushInv, PushTypeOK
<1>6. ClaimedInv'
  <2> SUFFICES ASSUME ~late, phone.token # NoToken, Claimed PROVE RowInv'
    BY <1>1 DEF ClaimedInv, Claimed, Claims
  <2>1. RowInv /\ phone.token \in Token /\ phone.token \notin dead
    BY DEF PushInv, PushTypeOK, Phone, SomeToken, TokenInv, ClaimedInv
  <2>2. QED
    BY <1>1, <1>3, <1>4, <2>1 DEF RowInv
<1>7. QED
  BY <1>1, <1>5, <1>6 DEF PushInv, TokenInv, RegistrationInv, InWay, SubmittedInv

LEMMA PushStepInv == PushInv /\ [PushNext]_pushVars => PushInv'
<1> SUFFICES ASSUME PushInv, [PushNext]_pushVars PROVE PushInv'
  OBVIOUS
<1>1. ASSUME NEW u \in Captain, SignedIn(u) PROVE PushInv'
  BY <1>1, SignedInKeepsInv
<1>2. CASE SignedOut
  BY <1>2, SignedOutKeepsInv
<1>3. CASE SyncStarts
  BY <1>3, SyncStartsKeepsInv
<1>4. CASE TokenRead
  BY <1>4, TokenReadKeepsInv
<1>5. CASE SyncCommits
  BY <1>5, CommitKeepsInv DEF SyncCommits
<1>6. CASE SyncAnswered
  BY <1>6, AnswerKeepsInv DEF SyncAnswered
<1>7. CASE TokenChanges
  BY <1>7, TokenChangesKeepsInv
<1>8. CASE ListenerCommits
  BY <1>8, CommitKeepsInv DEF ListenerCommits
<1>9. CASE ListenerAnswered
  BY <1>9, AnswerKeepsInv DEF ListenerAnswered
<1>10. CASE Removed \/ Installed
  BY <1>10, RemovedKeepsInv
<1>11. ASSUME NEW p \in Push, (\E u \in Captain : Send(p, u)) \/ Tickets(p) \/ Refusals(p) \/ ExpoFails(p)
       PROVE  PushInv'
  BY <1>11, NotificationKeepsInv
<1>12. CASE UNCHANGED pushVars
  BY <1>12 DEF pushVars, PushInv, PushTypeOK, TokenInv, RegistrationInv, InWay, SubmittedInv, ClaimedInv, Claimed, Claims, RowInv
<1>13. QED
  BY <1>1, <1>2, <1>3, <1>4, <1>5, <1>6, <1>7, <1>8, <1>9, <1>10, <1>11, <1>12 DEF PushNext

LEMMA PushInvAlways == PushSpec => []PushInv
  BY PushInitInv, PushStepInv, PTL DEF PushSpec

\* Every variable keeps its type.
THEOREM PushTypeSafe == PushSpec => []PushTypeOK
<1>1. PushInv => PushTypeOK
  BY DEF PushInv
<1>2. QED
  BY <1>1, PushInvAlways, PTL

\* A captain whose phone takes its token for registered is reached, unless a registration was
\* under way at a sign-out, or a refusal of its token at its registration.
THEOREM RegisteredIsReached == PushSpec => []SubmittedReaches
<1>1. PushInv => SubmittedReaches
  BY DEF PushInv, SubmittedReaches, ClaimedInv, Claimed, RowInv
<1>2. QED
  BY <1>1, PushInvAlways, PTL

-----------------------------------------------------------------------------
(* CaptainScreen, for any orders and number of changes. Each answer is followed from its *)
(* first query to the cache: what it has read since the last change is as the server has *)
(* it, and both choices of the primary order are the same one.                           *)

\* An order leaves a list that has it once.
LEMMA TakenOut ==
  ASSUME NEW q \in Seq(Order), IsInjective(q), NEW o
  PROVE  /\ RemoveFirst(q, o) \in Seq(Order) /\ IsInjective(RemoveFirst(q, o))
         /\ ToSet(RemoveFirst(q, o)) = ToSet(q) \ {o}
  <1>1. /\ Len(q) \in Nat /\ DOMAIN q = 1 .. Len(q) /\ \A i \in 1 .. Len(q) : q[i] \in Order
        /\ \A i, j \in 1 .. Len(q) : q[i] = q[j] => i = j
        /\ ToSet(q) = {q[i] : i \in 1 .. Len(q)}
    BY DEF IsInjective, ToSet
  <1>2. CASE \A i \in 1 .. Len(q) : q[i] # o
    BY <1>1, <1>2 DEF RemoveFirst
  <1>3. CASE \E i \in 1 .. Len(q) : q[i] = o
    <2>1. PICK i \in 1 .. Len(q) : q[i] = o
      BY <1>3
    <2>2. {j \in 1 .. Len(q) : q[j] = o} = {i}
      BY <1>1, <2>1
    <2>3. Min({i}) = i
      BY <1>1, <2>1 DEF Min
    <2>4. SelectInSeq(q, LAMBDA v : v = o) = i
      BY <2>2, <2>3 DEF SelectInSeq
    <2>5. RemoveFirst(q, o) = SubSeq(q, 1, i - 1) \o SubSeq(q, i + 1, Len(q))
      BY <1>3, <2>4 DEF RemoveFirst, RemoveAt
    <2>6. PICK a : a = SubSeq(q, 1, i - 1)
      OBVIOUS
    <2>7. PICK b : b = SubSeq(q, i + 1, Len(q))
      OBVIOUS
    <2>8. a \in Seq(Order) /\ Len(a) = i - 1 /\ \A j \in 1 .. i - 1 : a[j] = q[j]
      <3>1. 1 \in Int /\ i - 1 \in Int /\ \A j \in 1 .. i - 1 : q[j] \in Order
        BY <1>1, <2>1
      <3>2. /\ SubSeq(q, 1, i - 1) \in Seq(Order)
            /\ Len(SubSeq(q, 1, i - 1)) = IF 1 <= i - 1 THEN i - 1 - 1 + 1 ELSE 0
            /\ \A j \in 1 .. i - 1 - 1 + 1 : SubSeq(q, 1, i - 1)[j] = q[1 + j - 1]
        BY <3>1, SubSeqProperties
      <3> QED
        BY <1>1, <2>1, <2>6, <3>2
    <2>9. b \in Seq(Order) /\ Len(b) = Len(q) - i /\ \A j \in 1 .. Len(q) - i : b[j] = q[i + j]
      <3>1. i + 1 \in Int /\ Len(q) \in Int /\ \A j \in i + 1 .. Len(q) : q[j] \in Order
        BY <1>1, <2>1
      <3>2. /\ SubSeq(q, i + 1, Len(q)) \in Seq(Order)
            /\ Len(SubSeq(q, i + 1, Len(q))) = IF i + 1 <= Len(q) THEN Len(q) - (i + 1) + 1 ELSE 0
            /\ \A j \in 1 .. Len(q) - (i + 1) + 1 : SubSeq(q, i + 1, Len(q))[j] = q[i + 1 + j - 1]
        BY <3>1, SubSeqProperties
      <3>3. Len(q) - (i + 1) + 1 = Len(q) - i /\ (i + 1 <= Len(q) \/ Len(q) - i = 0)
        <4>1. \A n \in Nat : \A k \in 1 .. n : n - (k + 1) + 1 = n - k /\ (k + 1 <= n \/ n - k = 0)
          OBVIOUS
        <4> QED
          BY <1>1, <2>1, <4>1
      <3>4. ASSUME NEW j \in 1 .. Len(q) - i PROVE i + 1 + j - 1 = i + j
        BY <1>1, <2>1
      <3> QED
        BY <2>7, <3>2, <3>3, <3>4
    <2>10. PICK r : r = a \o b
      OBVIOUS
    <2>11. /\ r \in Seq(Order) /\ Len(r) = Len(a) + Len(b)
           /\ \A j \in 1 .. Len(a) + Len(b) : r[j] = IF j <= Len(a) THEN a[j] ELSE b[j - Len(a)]
      BY <2>8, <2>9, <2>10, ConcatProperties
    <2>12. /\ Len(r) = Len(q) - 1 /\ DOMAIN r = 1 .. Len(r)
           /\ \A j \in 1 .. Len(r) : r[j] = IF j < i THEN q[j] ELSE q[j + 1]
      BY <1>1, <2>1, <2>8, <2>9, <2>11
    <2>13. IsInjective(r)
      <3> DEFINE from(j) == IF j < i THEN j ELSE j + 1
      <3>1. ASSUME NEW j \in 1 .. Len(r) PROVE from(j) \in 1 .. Len(q) /\ r[j] = q[from(j)]
        BY <1>1, <2>1, <2>12
      <3>2. ASSUME NEW j \in 1 .. Len(r), NEW k \in 1 .. Len(r), from(j) = from(k) PROVE j = k
        BY <1>1, <2>1, <2>12, <3>2
      <3> HIDE DEF from
      <3> QED
        BY <1>1, <2>12, <3>1, <3>2 DEF IsInjective
    <2>14. ToSet(r) = {q[j] : j \in (1 .. Len(q)) \ {i}}
      <3>1. ASSUME NEW j \in (1 .. Len(q)) \ {i} PROVE \E k \in 1 .. Len(r) : r[k] = q[j]
        <4>1. CASE j < i
          BY <1>1, <2>1, <2>12, <4>1
        <4>2. CASE j > i
          <5>1. j - 1 \in 1 .. Len(r) /\ ~(j - 1 < i) /\ j - 1 + 1 = j
            BY <1>1, <2>1, <2>12, <4>2
          <5> QED
            BY <2>12, <5>1
        <4> QED
          BY <1>1, <2>1, <4>1, <4>2
      <3>2. ASSUME NEW k \in 1 .. Len(r) PROVE \E j \in (1 .. Len(q)) \ {i} : r[k] = q[j]
        <4>1. CASE k < i
          BY <1>1, <2>1, <2>12, <4>1
        <4>2. CASE k >= i
          <5>1. k + 1 \in (1 .. Len(q)) \ {i}
            BY <1>1, <2>1, <2>12, <4>2
          <5> QED
            BY <1>1, <2>1, <2>12, <4>2, <5>1
        <4> QED
          BY <1>1, <2>1, <2>12, <4>1, <4>2
      <3>3. ToSet(r) = {r[k] : k \in 1 .. Len(r)}
        BY <2>12 DEF ToSet
      <3>4. {q[j] : j \in (1 .. Len(q)) \ {i}} \subseteq {r[k] : k \in 1 .. Len(r)}
        BY <3>1
      <3>5. {r[k] : k \in 1 .. Len(r)} \subseteq {q[j] : j \in (1 .. Len(q)) \ {i}}
        BY <3>2
      <3> QED
        BY <3>3, <3>4, <3>5
    <2>15. {q[j] : j \in (1 .. Len(q)) \ {i}} = ToSet(q) \ {o}
      BY <1>1, <2>1
    <2> QED
      BY <2>5, <2>6, <2>7, <2>10, <2>11, <2>13, <2>14, <2>15
  <1> QED
    BY <1>2, <1>3

\* An order is put before the others of a list that has it not, or after them.
LEMMA PutIn ==
  ASSUME NEW q \in Seq(Order), IsInjective(q), NEW o \in Order, o \notin ToSet(q)
  PROVE  /\ <<o>> \o q \in Seq(Order) /\ IsInjective(<<o>> \o q) /\ ToSet(<<o>> \o q) = ToSet(q) \cup {o}
         /\ Append(q, o) \in Seq(Order) /\ IsInjective(Append(q, o)) /\ ToSet(Append(q, o)) = ToSet(q) \cup {o}
  <1>1. /\ Len(q) \in Nat /\ DOMAIN q = 1 .. Len(q) /\ \A i \in 1 .. Len(q) : q[i] # o
        /\ \A i, j \in 1 .. Len(q) : q[i] = q[j] => i = j
        /\ ToSet(q) = {q[i] : i \in 1 .. Len(q)}
    BY DEF IsInjective, ToSet
  <1>2. PICK r : r = <<o>> \o q
    OBVIOUS
  <1>3. /\ r \in Seq(Order) /\ DOMAIN r = 1 .. Len(q) + 1
        /\ \A j \in 1 .. Len(q) + 1 : r[j] = IF j = 1 THEN o ELSE q[j - 1]
    <2>1. /\ r \in Seq(Order) /\ Len(r) = Len(q) + 1
          /\ \A j \in 1 .. Len(q) + 1 : r[j] = IF j <= 1 THEN <<o>>[j] ELSE q[j - 1]
      <3>1. <<o>> \in Seq(Order) /\ Len(<<o>>) = 1
        OBVIOUS
      <3> QED
        BY <1>1, <1>2, <3>1, ConcatProperties
    <2> QED
      BY <1>1, <2>1
  <1>4. IsInjective(r) /\ ToSet(r) = ToSet(q) \cup {o}
    <2>1. IsInjective(r)
      BY <1>1, <1>3 DEF IsInjective
    <2>2. ToSet(r) = {r[j] : j \in 1 .. Len(q) + 1}
      BY <1>3 DEF ToSet
    <2>3. ASSUME NEW j \in 1 .. Len(q) PROVE j + 1 \in 1 .. Len(q) + 1 /\ r[j + 1] = q[j]
      BY <1>1, <1>3
    <2>4. 1 \in 1 .. Len(q) + 1 /\ r[1] = o
      BY <1>1, <1>3
    <2>5. ASSUME NEW j \in 1 .. Len(q) + 1 PROVE r[j] = o \/ \E k \in 1 .. Len(q) : r[j] = q[k]
      BY <1>1, <1>3
    <2> QED
      BY <1>1, <2>1, <2>2, <2>3, <2>4, <2>5
  <1>5. PICK s : s = Append(q, o)
    OBVIOUS
  <1>6. /\ s \in Seq(Order) /\ DOMAIN s = 1 .. Len(q) + 1
        /\ \A j \in 1 .. Len(q) + 1 : s[j] = IF j <= Len(q) THEN q[j] ELSE o
    BY <1>1, <1>5
  <1>7. IsInjective(s) /\ ToSet(s) = ToSet(q) \cup {o}
    <2>1. IsInjective(s)
      BY <1>1, <1>6 DEF IsInjective
    <2>2. ToSet(s) = {s[j] : j \in 1 .. Len(q) + 1}
      BY <1>6 DEF ToSet
    <2>3. ASSUME NEW j \in 1 .. Len(q) PROVE j \in 1 .. Len(q) + 1 /\ s[j] = q[j]
      BY <1>1, <1>6
    <2>4. Len(q) + 1 \in 1 .. Len(q) + 1 /\ s[Len(q) + 1] = o
      BY <1>1, <1>6
    <2>5. ASSUME NEW j \in 1 .. Len(q) + 1 PROVE s[j] = o \/ \E k \in 1 .. Len(q) : s[j] = q[k]
      BY <1>1, <1>6
    <2> QED
      BY <1>1, <2>1, <2>2, <2>3, <2>4, <2>5
  <1> QED
    BY <1>2, <1>3, <1>4, <1>5, <1>6, <1>7

Lists == [offers : Seq(Order), active : Seq(Order)]
FetchOf == [at : {"none", "asked", "lists", "read"}, answer : Assignment, current : BOOLEAN,
            primary : Order \cup {NoOrder}, offers : Seq(Order), active : Seq(Order),
            left : SUBSET {"offers", "active"}]

\* No order is in a list twice, or both on offer and worked on.
Apart(both) ==
    /\ both \in Lists /\ IsInjective(both.offers) /\ IsInjective(both.active)
    /\ ToSet(both.offers) \cap ToSet(both.active) = {}

\* What an answer says that was read whole since the last change.
Rest == {c \in Mine : c.order # PrimaryOrder}

\* What was read since the last change is as the server has it.
ReadingOf(q, f) ==
    /\ f.at = "read" => f.left = {}
    /\ f.current /\ f.at \in {"lists", "read"} =>
         IF q = "assignment" THEN f.answer = CurrentAssignment
         ELSE /\ f.primary = PrimaryOrder
              /\ "offers" \in f.left \/ f.offers = mine.offers
              /\ "active" \in f.left \/ f.active = mine.active

CachedAs(c) ==
    /\ "assignment" \in fresh => c.assignment = CurrentAssignment
    /\ "overflow" \in fresh => c.overflow = Rest

WholeInv ==
    /\ Apart(mine)
    /\ cache \in [assignment : Assignment, overflow : SUBSET Card]
    /\ fetch \in [Query -> FetchOf]
    /\ fresh \subseteq Query
    /\ \A q \in Query : ReadingOf(q, fetch[q])
    /\ CachedAs(cache)

LEMMA Fetches ==
  /\ Asked \in FetchOf /\ Asked.at = "asked"
  /\ NoFetch \in FetchOf /\ NoFetch.at = "none"
<1>1. <<>> \in Seq(Order) /\ None \in Assignment /\ {} \in SUBSET {"offers", "active"}
  BY DEF None, Assignment
<1>2. NoFetch \in FetchOf /\ NoFetch.at = "none"
  BY <1>1 DEF NoFetch, FetchOf
<1>3. Asked \in FetchOf /\ Asked.at = "asked"
  BY <1>2 DEF Asked, FetchOf
<1> QED
  BY <1>2, <1>3

LEMMA AnswerRead ==
  ASSUME NEW f \in FetchOf, NEW a \in Assignment
  PROVE  LET d == [f EXCEPT !.at = "read", !.answer = a]
         IN  d \in FetchOf /\ d.at = "read" /\ d.answer = a /\ d.left = f.left
  BY DEF FetchOf

LEMMA PrimaryRead ==
  ASSUME NEW f \in FetchOf, NEW p \in Order \cup {NoOrder}
  PROVE  LET d == [f EXCEPT !.at = "lists", !.primary = p, !.left = {"offers", "active"}]
         IN  d \in FetchOf /\ d.at = "lists" /\ d.primary = p /\ d.left = {"offers", "active"}
  BY DEF FetchOf

LEMMA OutOfDate ==
  ASSUME NEW f \in FetchOf
  PROVE  LET d == [f EXCEPT !.current = f.at \in {"none", "asked"}]
         IN  /\ d \in FetchOf /\ d.at = f.at /\ d.left = f.left
             /\ d.current => d.at \in {"none", "asked"}
<1>1. CASE f.at \in {"none", "asked"}
  <2>1. (f.at \in {"none", "asked"}) = TRUE
    BY <1>1
  <2> QED
    BY <1>1, <2>1 DEF FetchOf
<1>2. CASE f.at \notin {"none", "asked"}
  <2>1. (f.at \in {"none", "asked"}) = FALSE
    BY <1>2
  <2> QED
    BY <1>2, <2>1 DEF FetchOf
<1> QED
  BY <1>1, <1>2

LEMMA Firsts ==
  ASSUME Apart(mine)
  PROVE  /\ CurrentAssignment \in Assignment /\ PrimaryOrder \in Order \cup {NoOrder}
         /\ CurrentAssignment.order = PrimaryOrder
         /\ CurrentAssignment = None => Mine = {}
         /\ CurrentAssignment # None => CurrentAssignment \in Mine
         /\ \A c \in Mine : c \in Card /\ (c.order = PrimaryOrder => c = CurrentAssignment)
  <1>1. PICK p : p = mine.offers
    OBVIOUS
  <1>2. PICK a : a = mine.active
    OBVIOUS
  <1>3. /\ p \in Seq(Order) /\ a \in Seq(Order) /\ ToSet(p) \cap ToSet(a) = {}
        /\ ToSet(p) = {p[i] : i \in 1 .. Len(p)} /\ ToSet(a) = {a[i] : i \in 1 .. Len(a)}
    BY <1>1, <1>2 DEF Apart, Lists, ToSet
  <1>4. /\ p # <<>> => Head(p) \in ToSet(p) /\ ToSet(p) \subseteq Order
        /\ p = <<>> => ToSet(p) = {}
        /\ a # <<>> => Head(a) \in ToSet(a) /\ ToSet(a) \subseteq Order
        /\ a = <<>> => ToSet(a) = {}
    BY <1>3
  <1>5. Mine = {[order |-> o, kind |-> "OFFER"] : o \in ToSet(p)}
               \cup {[order |-> o, kind |-> "ACTIVE"] : o \in ToSet(a)}
    BY <1>1, <1>2 DEF Mine, Cards
  <1>6. CurrentAssignment = IF p # <<>> THEN [order |-> Head(p), kind |-> "OFFER"]
                            ELSE IF a # <<>> THEN [order |-> Head(a), kind |-> "ACTIVE"] ELSE None
    BY <1>1, <1>2 DEF CurrentAssignment
  <1>7. PrimaryOrder = IF p # <<>> THEN Head(p) ELSE IF a # <<>> THEN Head(a) ELSE NoOrder
    BY <1>1, <1>2 DEF PrimaryOrder
  <1>8. \A o \in Order : o # NoOrder
    BY ScreenAssumption
  <1>9. CASE p # <<>>
    <2>1. PICK o \in ToSet(p) : o = Head(p)
      BY <1>4, <1>9
    <2>2. CurrentAssignment = [order |-> o, kind |-> "OFFER"] /\ PrimaryOrder = o
      BY <1>6, <1>7, <1>9, <2>1
    <2>3. o \in Order /\ o \notin ToSet(a) /\ ToSet(p) \subseteq Order /\ ToSet(a) \subseteq Order
      BY <1>3, <1>4, <1>9, <2>1
    <2> QED
      BY <1>5, <1>8, <2>1, <2>2, <2>3 DEF Assignment, Card, None
  <1>10. CASE p = <<>> /\ a # <<>>
    <2>1. PICK o \in ToSet(a) : o = Head(a)
      BY <1>4, <1>10
    <2>2. CurrentAssignment = [order |-> o, kind |-> "ACTIVE"] /\ PrimaryOrder = o
      BY <1>6, <1>7, <1>10, <2>1
    <2>3. o \in Order /\ ToSet(p) = {} /\ ToSet(a) \subseteq Order
      BY <1>4, <1>10, <2>1
    <2> QED
      BY <1>5, <1>8, <2>1, <2>2, <2>3 DEF Assignment, Card, None
  <1>11. CASE p = <<>> /\ a = <<>>
    BY <1>4, <1>5, <1>6, <1>7, <1>11 DEF Assignment, None
  <1> QED
    BY <1>9, <1>10, <1>11

\* Whatever changes the orders overtakes what was read.
LEMMA OrdersChangeKeeps ==
  ASSUME WholeInv, Apart(mine'), cache' = cache, fresh' = {},
         fetch' = Overtaken \/ Ask(Query)
  PROVE  WholeInv'
  <1> USE DEF WholeInv
  <1>1. \A q \in Query : /\ fetch'[q] \in FetchOf
                         /\ fetch'[q].at = "read" => fetch'[q].left = {}
                         /\ fetch'[q].current => fetch'[q].at \in {"none", "asked"}
    <2> SUFFICES ASSUME NEW q \in Query
                 PROVE  /\ fetch'[q] \in FetchOf
                        /\ fetch'[q].at = "read" => fetch'[q].left = {}
                        /\ fetch'[q].current => fetch'[q].at \in {"none", "asked"}
      OBVIOUS
    <2>1. CASE fetch' = Overtaken
      <3>1. fetch'[q] = [fetch[q] EXCEPT !.current = fetch[q].at \in {"none", "asked"}]
        BY <2>1 DEF Overtaken
      <3>2. fetch[q] \in FetchOf
        OBVIOUS
      <3> QED
        BY <3>1, <3>2, OutOfDate DEF ReadingOf
    <2>2. CASE Ask(Query)
      <3>1. fetch'[q] = Asked
        BY <2>2 DEF Ask
      <3> QED
        BY <3>1, Fetches DEF FetchOf
    <2> QED
      BY <2>1, <2>2
  <1>2. fetch' \in [Query -> FetchOf]
    <2>1. fetch' = [q \in Query |-> fetch'[q]]
      BY DEF Overtaken, Ask
    <2> QED
      BY <1>1, <2>1
  <1>3. \A q \in Query : ReadingOf(q, fetch[q])'
    BY <1>1 DEF ReadingOf
  <1>4. CachedAs(cache)'
    BY DEF CachedAs
  <1> QED
    BY <1>2, <1>3, <1>4

\* A fetch that starts anew has read nothing.
LEMMA AskKeeps ==
  ASSUME WholeInv, NEW qs, Ask(qs), UNCHANGED <<mine, cache, fresh>>
  PROVE  WholeInv'
  <1>1. \A q \in Query : fetch'[q] = Asked \/ fetch'[q] = fetch[q]
    BY DEF Ask
  <1>2. Asked \in FetchOf /\ Asked.at = "asked"
    BY Fetches
  <1>3. fetch' = [q \in Query |-> fetch'[q]]
    BY DEF Ask
  <1>4. fetch' \in [Query -> FetchOf]
    BY <1>1, <1>2, <1>3 DEF WholeInv
  <1>5. CurrentAssignment' = CurrentAssignment /\ PrimaryOrder' = PrimaryOrder /\ Rest' = Rest
    BY DEF CurrentAssignment, PrimaryOrder, Rest, Mine
  <1>6. \A q \in Query : ReadingOf(q, fetch[q])'
    BY <1>1, <1>2, <1>5 DEF WholeInv, ReadingOf
  <1>7. CachedAs(cache)'
    BY <1>5 DEF WholeInv, CachedAs
  <1> QED
    BY <1>4, <1>6, <1>7 DEF WholeInv

\* A step of one fetch.
LEMMA FetchKeeps ==
  ASSUME WholeInv, NEW q \in Query, NEW f \in FetchOf, ReadingOf(q, f),
         fetch' = [fetch EXCEPT ![q] = f], UNCHANGED <<mine, cache, fresh>>
  PROVE  WholeInv'
  <1>1. CurrentAssignment' = CurrentAssignment /\ PrimaryOrder' = PrimaryOrder /\ Rest' = Rest
    BY DEF CurrentAssignment, PrimaryOrder, Rest, Mine
  <1>2. \A p \in Query : fetch'[p] = IF p = q THEN f ELSE fetch[p]
    BY DEF WholeInv
  <1>3. \A p \in Query : ReadingOf(p, fetch[p])'
    BY <1>1, <1>2 DEF WholeInv, ReadingOf
  <1> QED
    BY <1>1, <1>3 DEF WholeInv, CachedAs

LEMMA ReadPrimaryKeeps ==
  ASSUME WholeInv, NEW q \in Query, ReadPrimary(q)
  PROVE  WholeInv'
  <1>1. CurrentAssignment \in Assignment /\ PrimaryOrder \in Order \cup {NoOrder}
    BY Firsts DEF WholeInv
  <1>4. NoFetch \in FetchOf /\ NoFetch.left = {}
    BY Fetches DEF NoFetch
  <1>2. CASE q = "assignment"
    <2>1. PICK f : f = [NoFetch EXCEPT !.at = "read", !.answer = CurrentAssignment]
      OBVIOUS
    <2>2. f \in FetchOf /\ f.at = "read" /\ f.answer = CurrentAssignment /\ f.left = {}
      BY <1>1, <2>1, <1>4, AnswerRead
    <2>3. fetch' = [fetch EXCEPT ![q] = f]
      BY <1>2, <2>1 DEF ReadPrimary
    <2>4. ReadingOf(q, f)
      BY <1>2, <2>2 DEF ReadingOf
    <2> QED
      BY <2>2, <2>3, <2>4, FetchKeeps DEF ReadPrimary
  <1>3. CASE q # "assignment"
    <2>1. PICK f : f = [NoFetch EXCEPT !.at = "lists", !.primary = PrimaryOrder, !.left = {"offers", "active"}]
      OBVIOUS
    <2>2. f \in FetchOf /\ f.at = "lists" /\ f.primary = PrimaryOrder /\ f.left = {"offers", "active"}
      BY <1>1, <2>1, <1>4, PrimaryRead
    <2>3. fetch' = [fetch EXCEPT ![q] = f]
      BY <1>3, <2>1 DEF ReadPrimary
    <2>4. ReadingOf(q, f)
      BY <1>3, <2>2 DEF ReadingOf
    <2> QED
      BY <2>2, <2>3, <2>4, FetchKeeps DEF ReadPrimary
  <1> QED
    BY <1>2, <1>3

LEMMA ListRead ==
  ASSUME NEW g \in FetchOf, NEW l \in g.left, mine \in Lists
  PROVE  LET f == [g EXCEPT !.left = @ \ {l}, !.at = IF g.left = {l} THEN "read" ELSE "lists",
                            !.offers = IF l = "offers" THEN mine.offers ELSE @,
                            !.active = IF l = "active" THEN mine.active ELSE @]
         IN  /\ f \in FetchOf /\ f.left = g.left \ {l} /\ f.primary = g.primary /\ f.current = g.current
             /\ f.at = IF g.left = {l} THEN "read" ELSE "lists"
             /\ f.offers = IF l = "offers" THEN mine.offers ELSE g.offers
             /\ f.active = IF l = "active" THEN mine.active ELSE g.active
  BY DEF FetchOf, Lists

LEMMA ReadListKeeps ==
  ASSUME WholeInv, ReadList
  PROVE  WholeInv'
  <1> DEFINE g == fetch["overflow"]
  <1>1. g \in FetchOf /\ mine \in Lists /\ "overflow" \in Query /\ ReadingOf("overflow", g) /\ g.at = "lists"
    BY DEF WholeInv, Query, Apart, ReadList
  <1>2. PICK l \in g.left :
          fetch' = [fetch EXCEPT !["overflow"] =
            [g EXCEPT !.left = @ \ {l}, !.at = IF g.left = {l} THEN "read" ELSE "lists",
                      !.offers = IF l = "offers" THEN mine.offers ELSE @,
                      !.active = IF l = "active" THEN mine.active ELSE @]]
    BY DEF ReadList
  <1>3. PICK f : f = [g EXCEPT !.left = @ \ {l}, !.at = IF g.left = {l} THEN "read" ELSE "lists",
                               !.offers = IF l = "offers" THEN mine.offers ELSE @,
                               !.active = IF l = "active" THEN mine.active ELSE @]
    OBVIOUS
  <1>4. fetch' = [fetch EXCEPT !["overflow"] = f]
    BY <1>2, <1>3, Zenon
  <1>5. /\ f \in FetchOf /\ f.left = g.left \ {l} /\ f.primary = g.primary /\ f.current = g.current
        /\ f.at = IF g.left = {l} THEN "read" ELSE "lists"
        /\ f.offers = IF l = "offers" THEN mine.offers ELSE g.offers
        /\ f.active = IF l = "active" THEN mine.active ELSE g.active
    BY <1>1, <1>3, ListRead
  <1>6. ReadingOf("overflow", f)
    <2> HIDE DEF g
    <2> QED
      BY <1>1, <1>5 DEF ReadingOf
  <1> QED
    BY <1>1, <1>4, <1>5, <1>6, FetchKeeps DEF ReadList

\* What is cached of a fetch that is current is what the server has.
LEMMA ArrivesKeeps ==
  ASSUME WholeInv, NEW q \in Query, Arrives(q)
  PROVE  WholeInv'
  <1> DEFINE f == fetch[q]
  <1>1. f \in FetchOf /\ f.at = "read" /\ ReadingOf(q, f) /\ f.left = {}
    BY DEF WholeInv, Arrives, ReadingOf
  <1>2. /\ CurrentAssignment' = CurrentAssignment /\ PrimaryOrder' = PrimaryOrder /\ Rest' = Rest
        /\ mine' = mine
    BY DEF CurrentAssignment, PrimaryOrder, Rest, Mine, Arrives
  <1>3. /\ f.current => Answer(q) = IF q = "assignment" THEN CurrentAssignment ELSE Rest
        /\ Answer(q) \in IF q = "assignment" THEN Assignment ELSE SUBSET Card
    <2>1. CASE q = "assignment"
      BY <1>1, <2>1 DEF Answer, ReadingOf, FetchOf
    <2>2. CASE q = "overflow"
      <3>1. Answer(q) = OverflowItems(f)
        BY <2>2 DEF Answer
      <3>2. OverflowItems(f) \subseteq Card
        <4>1. ToSet(f.offers) \subseteq Order /\ ToSet(f.active) \subseteq Order
          BY <1>1 DEF FetchOf, ToSet
        <4> HIDE DEF f
        <4> QED
          BY <4>1 DEF OverflowItems, Cards, Card
      <3>3. ASSUME f.current PROVE OverflowItems(f) = Rest
        <4>1. f.offers = mine.offers /\ f.active = mine.active /\ f.primary = PrimaryOrder
          BY <1>1, <2>2, <3>3 DEF ReadingOf
        <4>2. ToSet(mine.offers) \cap ToSet(mine.active) = {}
          BY DEF WholeInv, Apart
        <4> HIDE DEF f
        <4> QED
          BY <4>1, <4>2 DEF OverflowItems, Rest, Mine, Cards
      <3> QED
        BY <2>2, <3>1, <3>2, <3>3
    <2> QED
      BY <2>1, <2>2 DEF Query
  <1>4. /\ cache' \in [assignment : Assignment, overflow : SUBSET Card]
        /\ q = "assignment" => cache'.assignment = Answer(q) /\ cache'.overflow = cache.overflow
        /\ q = "overflow" => cache'.overflow = Answer(q) /\ cache'.assignment = cache.assignment
    <2>1. PICK a : a = Answer(q)
      OBVIOUS
    <2>2. cache' = [cache EXCEPT ![q] = a] /\ cache \in [assignment : Assignment, overflow : SUBSET Card]
      BY <2>1 DEF Arrives, WholeInv
    <2>3. CASE q = "assignment"
      <3>1. cache' = [cache EXCEPT !.assignment = a] /\ a \in Assignment
        BY <1>3, <2>1, <2>2, <2>3
      <3> QED
        BY <2>1, <2>2, <2>3, <3>1
    <2>4. CASE q = "overflow"
      <3>1. cache' = [cache EXCEPT !.overflow = a] /\ a \in SUBSET Card
        BY <1>3, <2>1, <2>2, <2>4
      <3> QED
        BY <2>1, <2>2, <2>4, <3>1
    <2> QED
      BY <2>3, <2>4 DEF Query
  <1>5. fresh' = IF f.current THEN fresh \cup {q} ELSE fresh \ {q}
    BY DEF Arrives
  <1>6. CachedAs(cache)' /\ fresh' \subseteq Query
    <2>1. CachedAs(cache) /\ fresh \subseteq Query
      BY DEF WholeInv
    <2> HIDE DEF f
    <2> QED
      BY <1>2, <1>3, <1>4, <1>5, <2>1 DEF CachedAs, Query
  <1>7. fetch' \in [Query -> FetchOf] /\ \A p \in Query : fetch'[p] \in {Asked, NoFetch, fetch[p]}
    <2>1. Asked \in FetchOf /\ NoFetch \in FetchOf
      BY Fetches
    <2>2. fetch' = [p \in Query |-> Asked] \/ fetch' = [fetch EXCEPT ![q] = NoFetch]
      BY DEF Arrives, Ask
    <2> QED
      BY <2>1, <2>2 DEF WholeInv
  <1>8. \A p \in Query : ReadingOf(p, fetch[p])'
    <2>1. Asked.at = "asked" /\ NoFetch.at = "none"
      BY Fetches
    <2> QED
      BY <1>2, <1>7, <2>1 DEF WholeInv, ReadingOf
  <1> QED
    BY <1>2, <1>4, <1>6, <1>7, <1>8 DEF WholeInv

LEMMA OffersKeep ==
  ASSUME WholeInv, NEW o \in Order, Offered(o) \/ Gone(o) \/ Updated(o)
  PROVE  WholeInv'
  <1>1. PICK p : p = mine.offers
    OBVIOUS
  <1>2. PICK a : a = mine.active
    OBVIOUS
  <1>3. /\ p \in Seq(Order) /\ a \in Seq(Order) /\ IsInjective(p) /\ IsInjective(a)
        /\ ToSet(p) \cap ToSet(a) = {} /\ mine = [offers |-> p, active |-> a]
    BY <1>1, <1>2 DEF WholeInv, Apart, Lists
  <1>4. /\ RemoveFirst(p, o) \in Seq(Order) /\ IsInjective(RemoveFirst(p, o))
        /\ ToSet(RemoveFirst(p, o)) = ToSet(p) \ {o}
        /\ RemoveFirst(a, o) \in Seq(Order) /\ IsInjective(RemoveFirst(a, o))
        /\ ToSet(RemoveFirst(a, o)) = ToSet(a) \ {o}
    BY <1>3, TakenOut
  <1>5. Apart(mine')
    <2>1. CASE Offered(o)
      <3>1. mine' = [offers |-> Append(p, o), active |-> a] /\ o \notin ToSet(p) \cup ToSet(a)
        BY <1>1, <1>2, <1>3, <2>1 DEF Offered, ChangeOf
      <3>2. /\ Append(p, o) \in Seq(Order) /\ IsInjective(Append(p, o))
            /\ ToSet(Append(p, o)) = ToSet(p) \cup {o}
        BY <1>3, <3>1, PutIn
      <3> QED
        BY <1>3, <3>1, <3>2 DEF Apart, Lists
    <2>2. CASE Gone(o)
      <3>1. mine' = [offers |-> RemoveFirst(p, o), active |-> RemoveFirst(a, o)]
        BY <1>1, <1>2, <2>2 DEF Gone, ChangeOf
      <3> QED
        BY <1>3, <1>4, <3>1 DEF Apart, Lists
    <2>3. CASE Updated(o)
      <3>1. mine' = [offers |-> p, active |-> <<o>> \o RemoveFirst(a, o)] /\ o \in ToSet(a)
        BY <1>1, <1>2, <1>3, <2>3 DEF Updated, ChangeOf
      <3>2. PICK b : b = RemoveFirst(a, o)
        OBVIOUS
      <3>3. /\ <<o>> \o b \in Seq(Order) /\ IsInjective(<<o>> \o b) /\ ToSet(<<o>> \o b) = ToSet(b) \cup {o}
        BY <1>4, <3>2, PutIn
      <3> QED
        BY <1>3, <1>4, <3>1, <3>2, <3>3 DEF Apart, Lists
    <2> QED
      BY <2>1, <2>2, <2>3
  <1>6. cache' = cache /\ fresh' = {} /\ fetch' = Overtaken
    BY DEF Offered, Gone, Updated, ChangeOf
  <1> QED
    BY <1>5, <1>6, OrdersChangeKeeps

LEMMA AcceptPostedKeeps ==
  ASSUME WholeInv, NEW o \in Order, AcceptPosted(o), o \in ToSet(mine.offers),
         mine' = [offers |-> RemoveFirst(mine.offers, o), active |-> <<o>> \o mine.active],
         fresh' = {}, Ask(Query) \/ fetch' = Overtaken
  PROVE  WholeInv'
  <1>1. PICK p : p = mine.offers
    OBVIOUS
  <1>2. PICK a : a = mine.active
    OBVIOUS
  <1>3. /\ p \in Seq(Order) /\ a \in Seq(Order) /\ IsInjective(p) /\ IsInjective(a)
        /\ ToSet(p) \cap ToSet(a) = {} /\ o \in ToSet(p)
    BY <1>1, <1>2 DEF WholeInv, Apart, Lists
  <1>4. /\ RemoveFirst(p, o) \in Seq(Order) /\ IsInjective(RemoveFirst(p, o))
        /\ ToSet(RemoveFirst(p, o)) = ToSet(p) \ {o}
    BY <1>3, TakenOut
  <1>5. /\ <<o>> \o a \in Seq(Order) /\ IsInjective(<<o>> \o a) /\ ToSet(<<o>> \o a) = ToSet(a) \cup {o}
    BY <1>3, PutIn
  <1>6. Apart(mine')
    BY <1>1, <1>2, <1>3, <1>4, <1>5 DEF Apart, Lists
  <1>7. cache' = cache
    BY DEF AcceptPosted
  <1> QED
    BY <1>6, <1>7, OrdersChangeKeeps

LEMMA ScreenStutters ==
  ASSUME WholeInv, UNCHANGED <<mine, cache, fetch, fresh>>
  PROVE  WholeInv'
  <1>1. CurrentAssignment' = CurrentAssignment /\ PrimaryOrder' = PrimaryOrder /\ Rest' = Rest
    BY DEF CurrentAssignment, PrimaryOrder, Rest, Mine
  <1> QED
    BY <1>1 DEF WholeInv, ReadingOf, CachedAs

\* WholeInv holds always.
THEOREM ScreenInvariance == ScreenSpec => []WholeInv
<1>1. ScreenInit => WholeInv
  <2> SUFFICES ASSUME ScreenInit PROVE WholeInv
    OBVIOUS
  <2>1. Asked \in FetchOf /\ Asked.at = "asked"
    BY Fetches
  <2>2. Apart(mine)
    <3>1. <<>> \in Seq(Order) /\ IsInjective(<<>>) /\ ToSet(<<>>) = {}
      BY DEF IsInjective, ToSet
    <3> QED
      BY <3>1 DEF ScreenInit, Apart, Lists
  <2>3. None \in Assignment
    BY DEF None, Assignment
  <2> QED
    BY <2>1, <2>2, <2>3 DEF ScreenInit, WholeInv, ReadingOf, CachedAs
<1>2. WholeInv /\ [ScreenNext]_screenVars => WholeInv'
  <2> SUFFICES ASSUME WholeInv, [ScreenNext]_screenVars PROVE WholeInv'
    OBVIOUS
  <2>1. ASSUME NEW o \in Order, Offered(o) \/ Gone(o) \/ Updated(o) PROVE WholeInv'
    BY <2>1, OffersKeep
  <2>2. ASSUME NEW o \in Order, Tap(o) PROVE WholeInv'
    BY <2>2, AskKeeps DEF Tap
  <2>3. ASSUME NEW o \in Order, Refetched(o) PROVE WholeInv'
    <3>1. UNCHANGED <<mine, cache, fresh>> /\ (Ask({"overflow"}) \/ UNCHANGED fetch)
      BY <2>3 DEF Refetched
    <3> QED
      BY <3>1, AskKeeps, ScreenStutters
  <2>4. ASSUME NEW o \in Order, AcceptPosted(o) PROVE WholeInv'
    <3>1. CASE UNCHANGED <<mine, fetch, fresh>>
      BY <2>4, <3>1, ScreenStutters DEF AcceptPosted
    <3>2. CASE ~UNCHANGED <<mine, fetch, fresh>>
      BY <2>4, <3>2, AcceptPostedKeeps DEF AcceptPosted
    <3> QED
      BY <3>1, <3>2
  <2>5. ASSUME NEW q \in Query, Poll(q) PROVE WholeInv'
    BY <2>5, AskKeeps DEF Poll
  <2>6. ASSUME NEW q \in Query, ReadPrimary(q) PROVE WholeInv'
    BY <2>6, ReadPrimaryKeeps
  <2>7. ASSUME NEW q \in Query, Arrives(q) PROVE WholeInv'
    BY <2>7, ArrivesKeeps
  <2>8. ASSUME NEW q \in Query, FetchFails(q) PROVE WholeInv'
    BY <2>8, Fetches, FetchKeeps DEF FetchFails, ReadingOf
  <2>9. CASE ReadList
    BY <2>9, ReadListKeeps
  <2>10. CASE EventArrives
    BY <2>10, AskKeeps DEF EventArrives
  <2>11. CASE FrontOrBack
    <3>1. UNCHANGED <<mine, cache, fresh>> /\ (Ask({"assignment"}) \/ UNCHANGED fetch)
      BY <2>11 DEF FrontOrBack
    <3> QED
      BY <3>1, AskKeeps, ScreenStutters
  <2>12. CASE UNCHANGED screenVars
    BY <2>12, ScreenStutters DEF screenVars
  <2> QED
    BY <2>1, <2>2, <2>3, <2>4, <2>5, <2>6, <2>7, <2>8, <2>9, <2>10, <2>11, <2>12 DEF ScreenNext
<1> QED
  BY <1>1, <1>2, PTL DEF ScreenSpec

\* When both answers were read after the last change, the list on the screen is the captain's offers
\* and orders, none missing and none twice, for any number of orders and of changes.
THEOREM ScreenShowsAll == ScreenSpec => []ScreenIsWhole
<1>1. WholeInv => ScreenIsWhole
  <2> SUFFICES ASSUME WholeInv, fresh = Query PROVE Screen = Mine
    BY DEF ScreenIsWhole
  <2>1. cache.assignment = CurrentAssignment /\ cache.overflow = Rest
    BY DEF WholeInv, CachedAs, Query
  <2>2. Apart(mine)
    BY DEF WholeInv
  <2> QED
    BY <2>1, <2>2, Firsts DEF Screen, Rest
<1> QED
  BY <1>1, ScreenInvariance, PTL

-----------------------------------------------------------------------------
(* CaptainTaps, for any captains and taps. Unless a step was overtaken, whoever works on  *)
(* an order has accepted it, and a live offer is of an assigned order: without that the   *)
(* page and the card part. A step that has passed its check is of the captain who still   *)
(* has the order, and the steps before it are taken.                                      *)

Working == {"ACCEPTED", "PICKED_UP", "IN_TRANSIT"}

\* A live offer is of an assigned order, and whoever works on an order has accepted it.
OrderRowInv ==
    /\ row.live => row.status = "ASSIGNED"
    /\ row.status \in Working => row.carrier \in row.accepted

\* The steps before s, and those an order of status s has behind it.
Behind(s) ==
    IF s \in {"IN_TRANSIT", "DELIVERED"} THEN IF s = "IN_TRANSIT" THEN {"PICKED_UP"} ELSE {"PICKED_UP", "IN_TRANSIT"}
    ELSE {}
StepsInv ==
    /\ \A t \in Passed : /\ row.carrier = t.by /\ t.by \in row.accepted
                         /\ ~row.live /\ row.status \in Working \cup {"DELIVERED"} /\ Behind(t.as) \subseteq taken
    /\ row.status \in {"PICKED_UP", "IN_TRANSIT"} => Behind(row.status) \cup {row.status} \subseteq taken

TapsInv == TapsTypeOK /\ (\A t \in Passed : t.as \in Step) /\ (~overtaken => OrderRowInv /\ StepsInv)

LEMMA Steps ==
  /\ Chain[1] = "ACCEPTED" /\ Chain[2] = "PICKED_UP" /\ Chain[3] = "IN_TRANSIT" /\ Chain[4] = "DELIVERED"
  /\ \A s, n : Follows(s, n) <=> \/ s = "ACCEPTED" /\ n = "PICKED_UP"
                                 \/ s = "PICKED_UP" /\ n = "IN_TRANSIT"
                                 \/ s = "IN_TRANSIT" /\ n = "DELIVERED"
  <1>1. Chain[1] = "ACCEPTED" /\ Chain[2] = "PICKED_UP" /\ Chain[3] = "IN_TRANSIT" /\ Chain[4] = "DELIVERED"
    BY DEF Chain
  <1>2. 1 .. 3 = {1, 2, 3}
    OBVIOUS
  <1> QED
    BY <1>1, <1>2 DEF Follows

LEMMA Statuses ==
  Row = [status : {"PENDING", "ASSIGNED", "CANCELLED", "ACCEPTED", "PICKED_UP", "IN_TRANSIT", "DELIVERED"},
         carrier : Carrier \cup {NoCarrier}, live : BOOLEAN, due : BOOLEAN, accepted : SUBSET Carrier]
  <1>1. DOMAIN Chain = {1, 2, 3, 4}
    BY DEF Chain
  <1>2. {Chain[i] : i \in DOMAIN Chain} = {"ACCEPTED", "PICKED_UP", "IN_TRANSIT", "DELIVERED"}
    BY <1>1, Steps
  <1>3. {"PENDING", "ASSIGNED", "CANCELLED"} \cup {Chain[i] : i \in DOMAIN Chain}
          = {"PENDING", "ASSIGNED", "CANCELLED", "ACCEPTED", "PICKED_UP", "IN_TRANSIT", "DELIVERED"}
    BY <1>2
  <1> QED
    BY <1>3 DEF Row

LEMMA NextSteps ==
  /\ StepFrom("ACCEPTED") = "PICKED_UP" /\ StepFrom("PICKED_UP") = "IN_TRANSIT" /\ StepFrom("IN_TRANSIT") = "DELIVERED"
  /\ \A s : s \notin {"ACCEPTED", "PICKED_UP", "IN_TRANSIT"} => StepFrom(s) = "none"
  BY Steps DEF StepFrom, Button

LEMMA Marks ==
  /\ CurrentStep("ACCEPTED") = 1 /\ CurrentStep("PICKED_UP") = 2 /\ CurrentStep("IN_TRANSIT") = 3
  /\ \A s : s \notin {"ACCEPTED", "PICKED_UP", "IN_TRANSIT"} => CurrentStep(s) = 0
  <1>1. 1 .. 3 = {1, 2, 3}
    OBVIOUS
  <1> QED
    BY <1>1, Steps DEF CurrentStep

LEMMA Agreement == TapsInv => SurfacesAgree
  <1> SUFFICES ASSUME TapsInv, ~overtaken PROVE SurfacesAgree
    BY DEF SurfacesAgree
  <1>1. row \in Row /\ OrderRowInv
    BY DEF TapsInv, TapsTypeOK
  <1>2. Self \in Carrier /\ NoCarrier \notin Carrier
    BY TapsAssumption
  <1>3. \A s : StepFrom(s) # "accept"
    BY NextSteps
  <1>4. ListButton(Self) = "accept" <=> CanAnswer(Self)
    BY <1>1, <1>3 DEF ListButton, CanAnswer, OrderRowInv
  <1>5. \A n \in Step : ListButton(Self) = n <=> CanStep(Self, n)
    BY NextSteps, Steps DEF ListButton, CanStep, Step
  <1>6. PageButton(Self) = ListButton(Self) \/ (row.carrier # Self /\ Self \in row.accepted /\ ListButton(Self) = "none")
    BY <1>1, NextSteps DEF PageButton, ListButton, OrderRowInv, CanAnswer, Working
  <1>7. CurrentStep(row.status) # 0 /\ row.carrier = Self => PageButton(Self) = Chain[CurrentStep(row.status) + 1]
    <2> SUFFICES ASSUME CurrentStep(row.status) # 0, row.carrier = Self
                 PROVE  PageButton(Self) = Chain[CurrentStep(row.status) + 1]
      OBVIOUS
    <2>1. row.status \in {"ACCEPTED", "PICKED_UP", "IN_TRANSIT"}
      BY Marks
    <2>2. PageButton(Self) = StepFrom(row.status)
      BY <2>1, <1>1 DEF PageButton, OrderRowInv, Working
    <2> QED
      BY <2>1, <2>2, NextSteps, Marks, Steps
  <1> QED
    BY <1>4, <1>5, <1>6, <1>7 DEF SurfacesAgree

LEMMA ButtonsAre ==
  /\ Button = {"none", "accept", "PICKED_UP", "IN_TRANSIT", "DELIVERED"}
  /\ \A s \in Screens : Fetched(s) \in Button
  <1>1. 2 .. 4 = {2, 3, 4}
    OBVIOUS
  <1>2. Button = {"none", "accept", "PICKED_UP", "IN_TRANSIT", "DELIVERED"}
    BY <1>1, Steps DEF Button
  <1>3. ASSUME NEW st PROVE StepFrom(st) \in Button
    BY <1>2, NextSteps
  <1> QED
    BY <1>2, <1>3 DEF Fetched, ListButton, PageButton

\* Whatever the desk makes of the order, it leaves no step under way that it has not overtaken.
LEMMA DispatchedKeeps ==
  ASSUME TapsInv, NEW r, Dispatched(r), r \in Row, r.live => r.status = "ASSIGNED",
         r.status \notin Working
  PROVE  TapsInv'
  <1>1. row' = r /\ taps' = taps /\ button' = button /\ taken' = {} /\ overtaken' = (Passed # {})
    BY DEF Dispatched, RowMoves
  <1>2. Passed' = Passed
    BY <1>1 DEF Passed
  <1>3. TapsTypeOK' /\ \A t \in Passed' : t.as \in Step
    BY <1>1, <1>2 DEF TapsInv, TapsTypeOK
  <1>4. ASSUME ~overtaken' PROVE OrderRowInv' /\ StepsInv'
    <2>1. Passed' = {}
      BY <1>1, <1>2, <1>4
    <2> QED
      BY <1>1, <2>1 DEF OrderRowInv, StepsInv, Working
  <1> QED
    BY <1>3, <1>4 DEF TapsInv

LEMMA DeskKeeps ==
  ASSUME TapsInv, (\E c \in Carrier : OfferTo(c)) \/ TakenBack \/ ClosedByDesk
  PROVE  TapsInv'
  <1>1. row \in Row
    BY DEF TapsInv, TapsTypeOK
  <1>2. ASSUME NEW c \in Carrier, OfferTo(c) PROVE TapsInv'
    <2> DEFINE r == [row EXCEPT !.status = "ASSIGNED", !.carrier = c, !.live = TRUE, !.due = FALSE]
    <2>1. r \in Row /\ r.status = "ASSIGNED" /\ Dispatched(r)
      BY <1>1, <1>2, Statuses DEF OfferTo
    <2> HIDE DEF r
    <2> QED
      BY <2>1, DispatchedKeeps DEF Working
  <1>3. CASE TakenBack
    <2> DEFINE r == [row EXCEPT !.status = "PENDING", !.carrier = NoCarrier, !.live = FALSE, !.due = FALSE]
    <2>1. r \in Row /\ r.status = "PENDING" /\ r.live = FALSE /\ Dispatched(r)
      BY <1>1, <1>3, Statuses DEF TakenBack
    <2> HIDE DEF r
    <2> QED
      BY <2>1, DispatchedKeeps DEF Working
  <1>4. CASE ClosedByDesk
    <2>1. PICK s \in {"DELIVERED", "CANCELLED"} :
            Dispatched([row EXCEPT !.status = s, !.carrier = IF s = "CANCELLED" THEN NoCarrier ELSE @,
                                   !.live = FALSE, !.due = FALSE])
      BY <1>4 DEF ClosedByDesk
    <2> DEFINE r == [row EXCEPT !.status = s, !.carrier = IF s = "CANCELLED" THEN NoCarrier ELSE @,
                                !.live = FALSE, !.due = FALSE]
    <2>2. r \in Row /\ r.status = s /\ r.live = FALSE
      BY <1>1, Statuses
    <2>3. Dispatched(r)
      BY <2>1
    <2> HIDE DEF r
    <2> QED
      BY <2>2, <2>3, DispatchedKeeps DEF Working
  <1> QED
    BY <1>2, <1>3, <1>4

\* An answer to an offer; nothing is under way then that is not overtaken.
LEMMA AnswersKeep ==
  ASSUME TapsInv, NEW c \in Carrier, CanAnswer(c), button' = button, taps' \subseteq taps,
         taken' = taken, overtaken' = overtaken,
         \/ row' = AcceptedBy(c)
         \/ row' = [row EXCEPT !.status = "PENDING", !.carrier = NoCarrier, !.live = FALSE]
         \/ \E d \in Carrier : row' = [row EXCEPT !.status = "ASSIGNED", !.carrier = d]
  PROVE  TapsInv'
  <1>1. row \in Row /\ row.live /\ row.carrier = c
    BY DEF TapsInv, TapsTypeOK, CanAnswer
  <1>2. /\ row' \in Row
        /\ row'.live => row'.status = "ASSIGNED"
        /\ row'.status = "ACCEPTED" => row'.carrier \in row'.accepted
        /\ row'.status \in {"ACCEPTED", "PENDING", "ASSIGNED"}
    <2>1. CASE row' = AcceptedBy(c)
      BY <2>1, <1>1, Statuses DEF AcceptedBy
    <2>2. CASE row' = [row EXCEPT !.status = "PENDING", !.carrier = NoCarrier, !.live = FALSE]
      BY <2>2, <1>1, Statuses
    <2>3. ASSUME NEW d \in Carrier, row' = [row EXCEPT !.status = "ASSIGNED", !.carrier = d]
          PROVE  row' \in Row /\ row'.status = "ASSIGNED"
      BY <2>3, <1>1, Statuses
    <2> QED
      BY <2>1, <2>2, <2>3
  <1>3. TapsTypeOK' /\ \A t \in Passed' : t.as \in Step
    BY <1>2 DEF TapsInv, TapsTypeOK, Passed
  <1>4. ASSUME ~overtaken PROVE OrderRowInv' /\ StepsInv'
    <2>1. \A t \in Passed : ~row.live
      BY <1>4 DEF TapsInv, StepsInv
    <2>2. Passed' = {}
      BY <2>1, <1>1 DEF Passed
    <2> QED
      BY <1>2, <2>2 DEF OrderRowInv, StepsInv, Working
  <1> QED
    BY <1>3, <1>4 DEF TapsInv

LEMMA CanStepIs ==
  ASSUME TapsInv, NEW c \in Carrier, NEW n, CanStep(c, n)
  PROVE  n \in Step /\ row.carrier = c /\ row.status \in Working
         /\ (~overtaken => c \in row.accepted /\ ~row.live /\ Behind(n) \subseteq taken)
  <1>1. /\ row.carrier = c
        /\ \/ row.status = "ACCEPTED" /\ n = "PICKED_UP"
           \/ row.status = "PICKED_UP" /\ n = "IN_TRANSIT"
           \/ row.status = "IN_TRANSIT" /\ n = "DELIVERED"
    BY Steps DEF CanStep
  <1>2. row \in Row
    BY DEF TapsInv, TapsTypeOK
  <1>3. ASSUME ~overtaken PROVE c \in row.accepted /\ ~row.live /\ Behind(n) \subseteq taken
    <2>1. OrderRowInv /\ StepsInv
      BY <1>3 DEF TapsInv
    <2>2. c \in row.accepted /\ ~row.live
      BY <1>1, <2>1 DEF OrderRowInv, Working
    <2>3. row.status \in {"PICKED_UP", "IN_TRANSIT"} => Behind(row.status) \cup {row.status} \subseteq taken
      BY <2>1 DEF StepsInv
    <2>4. Behind(n) \subseteq taken
      BY <1>1, <2>3 DEF Behind
    <2> QED
      BY <2>2, <2>4
  <1> QED
    BY <1>1, <1>3 DEF Step, Working

\* A tap is put among the others; one that has passed its check leaves what it was checked against.
LEMMA TapAdded ==
  ASSUME TapsInv, NEW u, u \in Taps, taps' \subseteq taps \cup {u}, row' = row, button' \in [Screens -> Button],
         taken' = taken, overtaken' = overtaken, u.at = "write" => CanStep(u.by, u.as)
  PROVE  TapsInv'
  <1>1. TapsTypeOK'
    BY DEF TapsInv, TapsTypeOK
  <1>2. ASSUME u.at = "write"
        PROVE  /\ u.as \in Step /\ row.carrier = u.by /\ row.status \in Working
               /\ ~overtaken => u.by \in row.accepted /\ ~row.live /\ Behind(u.as) \subseteq taken
    <2>1. u.by \in Carrier
      BY DEF Taps
    <2> QED
      BY <1>2, <2>1, CanStepIs
  <1>3. ASSUME NEW t \in Passed' PROVE t \in Passed \/ (t = u /\ u.at = "write")
    BY <1>3 DEF Passed
  <1>4. \A t \in Passed' : t.as \in Step
    BY <1>2, <1>3 DEF TapsInv
  <1>5. ASSUME ~overtaken PROVE OrderRowInv' /\ StepsInv'
    <2>1. OrderRowInv /\ StepsInv
      BY <1>5 DEF TapsInv
    <2>2. OrderRowInv'
      BY <2>1 DEF OrderRowInv
    <2>3. ASSUME NEW t \in Passed'
          PROVE  /\ row.carrier = t.by /\ t.by \in row.accepted
                 /\ ~row.live /\ row.status \in Working \cup {"DELIVERED"} /\ Behind(t.as) \subseteq taken
      BY <1>2, <1>3, <1>5, <2>1 DEF StepsInv
    <2>4. StepsInv'
      BY <2>1, <2>3 DEF StepsInv
    <2> QED
      BY <2>2, <2>4
  <1> QED
    BY <1>1, <1>4, <1>5 DEF TapsInv

LEMMA JoinIs ==
  ASSUME NEW others, NEW t \in Taps, Join(others, t)
  PROVE  \E u \in Taps : u.by = t.by /\ u.as = t.as /\ u.at = t.at /\ taps' = others \cup {u}
  <1>1. PICK n \in 1 .. MaxTaps : taps' = others \cup {[t EXCEPT !.no = n]}
    BY DEF Join
  <1> DEFINE u == [t EXCEPT !.no = n]
  <1>2. u \in Taps /\ u.by = t.by /\ u.as = t.as /\ u.at = t.at
    BY DEF Taps
  <1>3. taps' = others \cup {u}
    BY <1>1
  <1> HIDE DEF u
  <1> QED
    BY <1>2, <1>3

LEMMA PutIs ==
  ASSUME NEW c \in Carrier, NEW s \in Screens, NEW as \in Reply \cup Step, NEW at \in {"check", "post", "write"},
         Put(c, s, as, at)
  PROVE  \E u \in Taps : u.by = c /\ u.as = as /\ u.at = at /\ taps' = taps \cup {u}
  <1> DEFINE t == [no |-> 1, by |-> c, on |-> s, as |-> as, at |-> at]
  <1>1. 1 \in 1 .. MaxTaps
    BY TapsAssumption
  <1>2. t \in Taps /\ t.by = c /\ t.as = as /\ t.at = at
    BY <1>1 DEF Taps
  <1>3. Join(taps, t)
    BY DEF Put
  <1> HIDE DEF t
  <1> QED
    BY <1>2, <1>3, JoinIs

LEMMA TappedIs ==
  ASSUME NEW s \in Screens, NEW as \in Reply \cup Step, Tapped(s, as)
  PROVE  \E u \in Taps : u.at # "write" /\ taps' = taps \cup {u}
  <1> DEFINE at == IF as \in Reply THEN "check" ELSE "post"
             t == [no |-> 1, by |-> Self, on |-> s, as |-> as, at |-> at]
  <1>1. 1 \in 1 .. MaxTaps /\ Self \in Carrier
    BY TapsAssumption
  <1>2. at \in {"check", "post", "write"} /\ at # "write"
    OBVIOUS
  <1>3. Join(taps, t)
    BY DEF Tapped, Put
  <1> HIDE DEF at
  <1>4. t \in Taps /\ t.at # "write"
    BY <1>1, <1>2 DEF Taps
  <1> HIDE DEF t
  <1> QED
    BY <1>3, <1>4, JoinIs

LEMMA StepWrittenKeeps ==
  ASSUME TapsInv, NEW t \in taps, StepWritten(t)
  PROVE  TapsInv'
  <1>1. t \in Passed /\ t.as \in {"PICKED_UP", "IN_TRANSIT", "DELIVERED"} /\ row \in Row
    BY DEF StepWritten, TapsInv, TapsTypeOK, Step
  <1>2. /\ row' \in Row /\ row'.status = t.as /\ row'.carrier = row.carrier /\ row'.live = row.live
        /\ row'.accepted = row.accepted
    BY <1>1, Statuses DEF StepWritten
  <1>3. taps' = taps \ {t} /\ taken' = taken \cup {t.as} /\ overtaken' = overtaken /\ button' = button
    BY DEF StepWritten
  <1>4. TapsTypeOK'
    BY <1>1, <1>2, <1>3 DEF TapsInv, TapsTypeOK, Step
  <1>5. \A u \in Passed' : u \in Passed
    BY <1>3 DEF Passed
  <1>6. ASSUME ~overtaken PROVE OrderRowInv' /\ StepsInv'
    <2>1. StepsInv
      BY <1>6 DEF TapsInv
    <2>2. row.carrier = t.by /\ t.by \in row.accepted /\ ~row.live /\ Behind(t.as) \subseteq taken
      BY <1>1, <2>1 DEF StepsInv
    <2>3. OrderRowInv'
      BY <1>2, <2>2 DEF OrderRowInv
    <2>4. Behind(t.as) \cup {t.as} \subseteq taken'
      BY <1>3, <2>2
    <2>5. t.as \in Working \cup {"DELIVERED"}
      BY <1>1 DEF Working
    <2>6. \A u \in Passed : /\ row.carrier = u.by /\ u.by \in row.accepted /\ Behind(u.as) \subseteq taken
      BY <2>1 DEF StepsInv
    <2>7. StepsInv'
      BY <1>2, <1>3, <1>5, <2>2, <2>4, <2>5, <2>6 DEF StepsInv
    <2> QED
      BY <2>3, <2>7
  <1> QED
    BY <1>3, <1>4, <1>5, <1>6 DEF TapsInv

\* TapsInv holds always.
THEOREM TapsInvariance == TapsSpec => []TapsInv
  <1>1. TapsInit => TapsInv
    <2> SUFFICES ASSUME TapsInit PROVE TapsInv
      OBVIOUS
    <2>1. /\ row \in Row /\ row.status = "PENDING" /\ row.live = FALSE
          /\ taps = {} /\ taken = {} /\ overtaken = FALSE
      BY Statuses DEF TapsInit
    <2>2. button \in [Screens -> Button]
      BY ButtonsAre DEF TapsInit
    <2>3. Passed = {}
      BY <2>1 DEF Passed
    <2> QED
      BY <2>1, <2>2, <2>3 DEF TapsInv, TapsTypeOK, OrderRowInv, StepsInv, Working
  <1>2. TapsInv /\ [TapsNext]_tapVars => TapsInv'
    <2> SUFFICES ASSUME TapsInv, [TapsNext]_tapVars PROVE TapsInv'
      OBVIOUS
    <2>0. button \in [Screens -> Button] /\ taps \subseteq Taps /\ Self \in Carrier
      BY TapsAssumption DEF TapsInv, TapsTypeOK
    <2>1. ASSUME NEW c \in Carrier, OtherAccepts(c) PROVE TapsInv'
      BY <2>1, AnswersKeep DEF OtherAccepts, RowMoves
    <2>2. ASSUME NEW c \in Carrier, OtherSteps(c) PROVE TapsInv'
      <3>1. PICK n \in Step : CanStep(c, n) /\ Put(c, "page", n, "write")
        BY <2>2 DEF OtherSteps
      <3>2. PICK u \in Taps : u.by = c /\ u.as = n /\ u.at = "write" /\ taps' = taps \cup {u}
        BY <3>1, PutIs DEF Screens
      <3> QED
        BY <2>0, <2>2, <3>1, <3>2, TapAdded DEF OtherSteps
    <2>3. CASE (\E c \in Carrier : OfferTo(c)) \/ TakenBack \/ ClosedByDesk
      BY <2>3, DeskKeeps
    <2>4. CASE WindowOver
      <3>1. row \in Row /\ row' = [row EXCEPT !.due = TRUE] /\ UNCHANGED <<button, taps, taken, overtaken>>
        BY <2>4 DEF WindowOver, RowMoves, TapsInv, TapsTypeOK
      <3>2. /\ row' \in Row /\ row'.status = row.status /\ row'.carrier = row.carrier /\ row'.live = row.live
            /\ row'.accepted = row.accepted
        BY <3>1, Statuses
      <3> QED
        BY <3>1, <3>2 DEF TapsInv, TapsTypeOK, OrderRowInv, StepsInv, Passed
    <2>5. ASSUME NEW s \in Screens, ScreenFetches(s) PROVE TapsInv'
      <3>1. button' \in [Screens -> Button]
        BY <2>0, <2>5, ButtonsAre DEF ScreenFetches
      <3> QED
        BY <2>5, <3>1 DEF ScreenFetches, TapsInv, TapsTypeOK, OrderRowInv, StepsInv, Passed
    <2>6. ASSUME NEW s \in Screens, NEW as \in Reply \cup Step, Tapped(s, as) PROVE TapsInv'
      <3>2. PICK u \in Taps : u.at # "write" /\ taps' = taps \cup {u}
        BY <2>6, TappedIs
      <3>3. UNCHANGED <<row, button, taken, overtaken>>
        BY <2>6 DEF Tapped
      <3>4. taps' \subseteq taps \cup {u} /\ button' \in [Screens -> Button]
        BY <2>0, <3>2, <3>3
      <3> QED
        BY <3>2, <3>3, <3>4, TapAdded
    <2>7. ASSUME NEW t \in taps, Checked(t) PROVE TapsInv'
      <3>1. [t EXCEPT !.at = "post"] \in Taps /\ [t EXCEPT !.at = "post"].at = "post"
        BY <2>0 DEF Taps
      <3>2. taps' = taps \ {t} \/ Join(taps \ {t}, [t EXCEPT !.at = "post"])
        BY <2>7 DEF Checked
      <3>3. PICK u \in Taps : u.at = "post" /\ taps' \subseteq taps \cup {u}
        <4> DEFINE w == [t EXCEPT !.at = "post"]
        <4>1. w \in Taps /\ w.at = "post" /\ (taps' = taps \ {t} \/ Join(taps \ {t}, w))
          BY <3>1, <3>2
        <4> HIDE DEF w
        <4>2. CASE taps' = taps \ {t}
          BY <4>1, <4>2
        <4>3. CASE Join(taps \ {t}, w)
          BY <4>1, <4>3, JoinIs
        <4> QED
          BY <4>1, <4>2, <4>3
      <3>4. button' \in [Screens -> Button]
        BY <2>7, ButtonsAre DEF Checked
      <3> QED
        BY <2>7, <3>3, <3>4, TapAdded DEF Checked
    <2>8. ASSUME NEW t \in taps, OfferAnswered(t) PROVE TapsInv'
      <3>1. t.by \in Carrier
        BY <2>0 DEF Taps
      <3> QED
        BY <2>8, <3>1, AnswersKeep DEF OfferAnswered
    <2>9. ASSUME NEW t \in taps, StepChecked(t) PROVE TapsInv'
      <3>0. /\ [t EXCEPT !.at = "write"] \in Taps
            /\ [t EXCEPT !.at = "write"].by = t.by /\ [t EXCEPT !.at = "write"].as = t.as
            /\ [t EXCEPT !.at = "write"].at = "write"
        BY <2>0 DEF Taps
      <3>1. PICK u \in Taps : u.by = t.by /\ u.as = t.as /\ u.at = "write" /\ taps' = (taps \ {t}) \cup {u}
        <4> DEFINE w == [t EXCEPT !.at = "write"]
        <4>1. w \in Taps /\ w.by = t.by /\ w.as = t.as /\ w.at = "write" /\ Join(taps \ {t}, w)
          BY <2>9, <3>0 DEF StepChecked
        <4> HIDE DEF w
        <4> QED
          BY <4>1, JoinIs
      <3>2. taps' \subseteq taps \cup {u} /\ CanStep(u.by, u.as)
        BY <2>9, <3>1 DEF StepChecked
      <3> QED
        BY <2>0, <2>9, <3>1, <3>2, TapAdded DEF StepChecked
    <2>10. ASSUME NEW t \in taps, StepWritten(t) PROVE TapsInv'
      BY <2>10, StepWrittenKeeps
    <2>11. ASSUME NEW t \in taps, Fails(t) PROVE TapsInv'
      <3>1. taps' \subseteq taps /\ UNCHANGED <<row, button, taken, overtaken>>
        BY <2>11 DEF Fails
      <3> QED
        BY <3>1 DEF TapsInv, TapsTypeOK, OrderRowInv, StepsInv, Passed
    <2>12. CASE UNCHANGED tapVars
      BY <2>12 DEF tapVars, TapsInv, TapsTypeOK, OrderRowInv, StepsInv, Passed
    <2> QED
      BY <2>1, <2>2, <2>3, <2>4, <2>5, <2>6, <2>7, <2>8, <2>9, <2>10, <2>11, <2>12 DEF TapsNext
  <1> QED
    BY <1>1, <1>2, PTL DEF TapsSpec

\* The card, the page and its bar offer what the API would take, and nothing else, for any captains and
\* taps and in every state of the order in which no late write has landed on another captain's order, but
\* on the page of an order another captain works on now.
THEOREM SurfacesAlwaysAgree == TapsSpec => []SurfacesAgree
  BY TapsInvariance, Agreement, PTL

\* Whatever step the API has let pass, the captain has taken those before it, though his taps overlap,
\* the screens are old and every step is checked some time before it is written.
THEOREM NoStepSkipped == TapsSpec => []StepByStep
  <1>1. ASSUME TapsInv PROVE StepByStep
    <2> SUFFICES ASSUME ~overtaken, NEW t \in Passed
                 PROVE  /\ row.carrier = t.by /\ t.by \in row.accepted
                        /\ \A i \in 3 .. 4 : t.as = Chain[i] => {Chain[j] : j \in 2 .. i - 1} \subseteq taken
      BY DEF StepByStep
    <2>1. row.carrier = t.by /\ t.by \in row.accepted /\ Behind(t.as) \subseteq taken
      BY <1>1 DEF TapsInv, StepsInv
    <2>2. ASSUME NEW i \in 3 .. 4, t.as = Chain[i] PROVE {Chain[j] : j \in 2 .. i - 1} \subseteq taken
      <3>1. CASE i = 3
        <4>1. t.as = "IN_TRANSIT" /\ 2 .. i - 1 = {2}
          BY <2>2, <3>1, Steps
        <4> QED
          BY <4>1, <2>1, Steps DEF Behind
      <3>2. CASE i = 4
        <4>1. t.as = "DELIVERED" /\ 2 .. i - 1 = {2, 3}
          BY <2>2, <3>2, Steps
        <4> QED
          BY <4>1, <2>1, Steps DEF Behind
      <3> QED
        BY <3>1, <3>2
    <2> QED
      BY <2>1, <2>2
  <1> QED
    BY <1>1, TapsInvariance, PTL

-----------------------------------------------------------------------------
(* AvailabilitySwitch. While a tap is under way, either the API has carried it out or the *)
(* row is as the screens showed it before the tap, which is what a failure puts back.     *)

\* What the screens showed before the tap of s.
Before(s) == IF change[s].cached = Nothing THEN change[s].storeCopy ELSE change[s].cached

\* A tap under way: the API has carried it out, or the row is as the screens showed it before.
TapInv(s) ==
    /\ change[s].at = "done" => rowNow = change[s].to
    /\ change[s].at \in {"sent", "lost"} =>
         Before(s) = rowNow /\ (cached = Nothing <=> change[s].cached = Nothing)

UndoubtedInv ==
    /\ \A s, r \in Changing : s = r
    /\ \A s \in Changing : TapInv(s)
    /\ meFetch.at # "none" => Changing = {}
    /\ meFetch.at = "read" => meFetch.value = rowNow
    /\ SwitchIsTrue

SwitchInv == SwitchTypeOK /\ (~doubted => UndoubtedInv)

LEMMA Changes ==
  /\ NoChange \in Change /\ NoChange.at = "none"
  /\ \A c \in Change : c.at # "none" =>
       /\ c.at \in {"sent", "done", "lost"} /\ c.to \in Switchable
       /\ c.cached \in Availability \cup {Nothing} /\ c.storeCopy \in Availability
  /\ NoMeFetch \in MeFetch /\ NoMeFetch.at = "none"
  /\ \A f \in MeFetch : f.at = "read" => f.value \in Availability
  BY DEF NoChange, Change, NoMeFetch, MeFetch

LEMMA Outcomes ==
  ASSUME NEW c \in Change, c.at # "none", NEW at \in {"done", "lost"}
  PROVE  LET d == [c EXCEPT !.at = at]
         IN  d \in Change /\ d.at = at /\ d.to = c.to /\ d.cached = c.cached /\ d.storeCopy = c.storeCopy
  BY DEF Change, NoChange

LEMMA TapKeeps ==
  ASSUME SwitchInv, NEW s \in Surface, NEW next \in Switchable, TapSwitch(s, next)
  PROVE  SwitchInv'
  <1>1. /\ cached \in Availability \cup {Nothing} /\ storeCopy \in Availability /\ rowNow \in Availability
        /\ change \in [Surface -> Change] /\ meFetch \in MeFetch /\ doubted \in BOOLEAN
    BY DEF SwitchInv, SwitchTypeOK
  <1>2. next \in Availability /\ next # Nothing
    BY SwitchAssumption DEF Switchable, Availability
  <1> DEFINE d == [at |-> "sent", to |-> next, cached |-> cached, storeCopy |-> storeCopy]
  <1>3. d \in Change
    BY <1>1 DEF Change
  <1>4. change[s].at = "none" /\ change' = [change EXCEPT ![s] = d] /\ change'[s] = d
        /\ \A r \in Surface : r # s => change'[r] = change[r]
    BY <1>1 DEF TapSwitch, Optimistic
  <1>5. SwitchTypeOK'
    BY <1>1, <1>2, <1>3, <1>4, Changes DEF SwitchTypeOK, TapSwitch, Optimistic
  <1>6. ASSUME ~doubted' PROVE UndoubtedInv'
    <2>1. ~doubted /\ Changing = {} /\ Source = rowNow
      BY <1>6 DEF TapSwitch, Optimistic, SwitchInv, UndoubtedInv, SwitchIsTrue
    <2>2. Changing' = {s}
      BY <2>1, <1>4 DEF Changing
    <2>3. TapInv(s)'
      BY <1>4, <1>2, <2>1 DEF TapInv, Before, Source, TapSwitch, Optimistic
    <2> QED
      BY <2>2, <2>3, Changes DEF UndoubtedInv, SwitchIsTrue, TapSwitch
  <1> QED
    BY <1>5, <1>6 DEF SwitchInv

LEMMA PatchedKeeps ==
  ASSUME SwitchInv, NEW s \in Surface, Patched(s) \/ PatchRefused(s)
  PROVE  SwitchInv'
  <1>1. /\ cached \in Availability \cup {Nothing} /\ storeCopy \in Availability /\ rowNow \in Availability
        /\ change \in [Surface -> Change] /\ meFetch \in MeFetch /\ doubted \in BOOLEAN
    BY DEF SwitchInv, SwitchTypeOK
  <1>2. PICK at \in {"done", "lost"} : change' = [change EXCEPT ![s].at = at]
                      /\ (at = "done" => rowNow' = change[s].to)
                      /\ (at = "lost" /\ ~doubted' => rowNow' = rowNow)
                      /\ (doubted => doubted')
    <2>1. CASE PatchRefused(s)
      BY <2>1, Zenon DEF PatchRefused
    <2>2. CASE Patched(s)
      <3>1. PICK at \in {"done", "lost"} : change' = [change EXCEPT ![s].at = at]
                                         /\ doubted' = (doubted \/ at = "lost")
        BY <2>2 DEF Patched
      <3>2. rowNow' = change[s].to
        BY <2>2 DEF Patched
      <3> QED
        BY <3>1, <3>2, Zenon
    <2> QED
      BY <2>1, <2>2
  <1> DEFINE d == [change[s] EXCEPT !.at = at]
  <1>3. change[s].at = "sent" /\ rowNow' \in {rowNow, change[s].to} /\ doubted' \in BOOLEAN
        /\ cached' = cached /\ storeCopy' = storeCopy /\ meFetch' = meFetch
    BY <1>1 DEF Patched, PatchRefused
  <1>4. d \in Change /\ d.at = at /\ d.to = change[s].to /\ d.cached = change[s].cached /\ d.storeCopy = change[s].storeCopy
        /\ change[s].to \in Switchable
    <2>1. change[s] \in Change /\ change[s].at # "none"
      BY <1>1, <1>3
    <2>2. change[s].to \in Switchable
      BY <2>1, Changes
    <2> QED
      BY <2>1, <2>2, Outcomes
  <1>5. change' = [change EXCEPT ![s] = d] /\ change'[s] = d /\ \A r \in Surface : r # s => change'[r] = change[r]
    BY <1>1, <1>2
  <1>6. SwitchTypeOK'
    BY <1>1, <1>3, <1>4, <1>5 DEF SwitchTypeOK, Switchable, Availability
  <1>7. ASSUME ~doubted' PROVE UndoubtedInv'
    <2>1. ~doubted /\ s \in Changing /\ TapInv(s) /\ (\A r \in Changing : r = s) /\ meFetch.at = "none"
      BY <1>7, <1>2, <1>3 DEF SwitchInv, UndoubtedInv, Changing
    <2>2. Changing' = Changing
      BY <1>4, <1>5, <1>3 DEF Changing
    <2>3. TapInv(s)'
      BY <1>7, <2>1, <1>2, <1>3, <1>4, <1>5 DEF TapInv, Before
    <2> QED
      BY <2>1, <2>2, <2>3, <1>3 DEF UndoubtedInv, SwitchIsTrue
  <1> QED
    BY <1>6, <1>7 DEF SwitchInv

LEMMA SettledKeeps ==
  ASSUME SwitchInv, NEW s \in Surface, PatchSucceeds(s) \/ PatchFails(s)
  PROVE  SwitchInv'
  <1>1. /\ cached \in Availability \cup {Nothing} /\ storeCopy \in Availability /\ rowNow \in Availability
        /\ change \in [Surface -> Change] /\ meFetch \in MeFetch /\ doubted \in BOOLEAN
    BY DEF SwitchInv, SwitchTypeOK
  <1>2. change[s].at \in {"done", "lost"} /\ change' = [change EXCEPT ![s] = NoChange]
        /\ rowNow' = rowNow /\ meFetch' = meFetch /\ doubted' = doubted
    BY DEF PatchSucceeds, PatchFails
  <1>3. /\ change[s].to \in Switchable /\ change[s].to \in Availability
        /\ change[s].cached \in Availability \cup {Nothing} /\ change[s].storeCopy \in Availability
    <2>1. change[s] \in Change /\ change[s].at # "none"
      BY <1>1, <1>2
    <2> QED
      BY <2>1, Changes DEF Switchable, Availability
  <1>4. change'[s] = NoChange /\ \A r \in Surface : r # s => change'[r] = change[r]
    BY <1>1, <1>2
  <1>5. SwitchTypeOK'
    BY <1>1, <1>2, <1>3, Changes DEF SwitchTypeOK, PatchSucceeds, PatchFails
  <1>6. ASSUME ~doubted' PROVE UndoubtedInv'
    <2>1. s \in Changing /\ TapInv(s) /\ (\A r \in Changing : r = s) /\ meFetch.at = "none"
      BY <1>6, <1>2 DEF SwitchInv, UndoubtedInv, Changing
    <2>2. Changing' = {}
      BY <2>1, <1>4, Changes DEF Changing
    <2>3. Source' = rowNow'
      <3>1. CASE PatchSucceeds(s)
        <4>1. change[s].at = "done" /\ rowNow' = change[s].to
          BY <3>1, <2>1, <1>2 DEF PatchSucceeds, TapInv
        <4> QED
          BY <4>1, <3>1, <1>3, SwitchAssumption DEF PatchSucceeds, Source
      <3>2. CASE PatchFails(s)
        <4>1. change[s].at = "lost" /\ Before(s) = rowNow' /\ (cached = Nothing <=> change[s].cached = Nothing)
          BY <3>2, <2>1, <1>2 DEF PatchFails, TapInv
        <4> QED
          BY <4>1, <3>2, <1>3, SwitchAssumption DEF PatchFails, Source, Before
      <3> QED
        BY <3>1, <3>2
    <2> QED
      BY <2>1, <2>2, <2>3, <1>2 DEF UndoubtedInv, SwitchIsTrue
  <1> QED
    BY <1>5, <1>6 DEF SwitchInv

LEMMA MeFetchKeeps ==
  ASSUME SwitchInv, MeFetched \/ MeRead \/ MeAnswered \/ MeFails
  PROVE  SwitchInv'
  <1>1. /\ cached \in Availability \cup {Nothing} /\ storeCopy \in Availability /\ rowNow \in Availability
        /\ change \in [Surface -> Change] /\ meFetch \in MeFetch /\ doubted \in BOOLEAN
    BY DEF SwitchInv, SwitchTypeOK
  <1>2. change' = change /\ Changing' = Changing /\ rowNow' = rowNow /\ storeCopy' = storeCopy
    BY DEF MeFetched, MeRead, MeAnswered, MeFails, Changing
  <1>3. SwitchTypeOK'
    <2>1. meFetch' \in MeFetch /\ cached' \in Availability \cup {Nothing}
      BY <1>1, Changes DEF MeFetched, MeRead, MeAnswered, MeFails, MeFetch
    <2>2. doubted' \in BOOLEAN
      BY <1>1, Zenon DEF MeFetched, MeRead, MeAnswered, MeFails
    <2> QED
      BY <1>1, <1>2, <2>1, <2>2 DEF SwitchTypeOK
  <1>4. ASSUME ~doubted', ~MeAnswered PROVE UndoubtedInv'
    <2>1. UndoubtedInv /\ cached' = cached
      BY <1>4 DEF MeFetched, MeRead, MeFails, SwitchInv
    <2>2. \A s \in Surface : TapInv(s) => TapInv(s)'
      BY <2>1, <1>2 DEF TapInv, Before
    <2>3. \A s \in Changing : TapInv(s)'
      BY <2>1, <2>2 DEF UndoubtedInv, Changing
    <2>4. SwitchIsTrue'
      BY <2>1, <1>2, <1>4 DEF UndoubtedInv, SwitchIsTrue, Source, MeFetched, MeRead, MeFails
    <2>5. (meFetch.at # "none")' => Changing = {}
      BY <2>1, <1>4 DEF UndoubtedInv, MeFetched, MeRead, MeFails, NoMeFetch
    <2>6. (meFetch.at = "read" => meFetch.value = rowNow)'
      BY <2>1, <1>2, <1>4 DEF UndoubtedInv, MeFetched, MeRead, MeFails, NoMeFetch
    <2> QED
      BY <2>1, <2>3, <2>4, <2>5, <2>6, <1>2 DEF UndoubtedInv
  <1>5. ASSUME ~doubted', MeAnswered PROVE UndoubtedInv'
    <2>1. Changing = {} /\ cached' = rowNow
      BY <1>5, <1>2 DEF MeAnswered, SwitchInv, UndoubtedInv
    <2>2. SwitchIsTrue'
      BY <2>1, <1>1, <1>2, SwitchAssumption DEF SwitchIsTrue, Source
    <2> QED
      BY <2>1, <2>2, <1>2, <1>5, Changes DEF UndoubtedInv, MeAnswered
  <1> QED
    BY <1>3, <1>4, <1>5 DEF SwitchInv

\* SwitchInv holds always.
THEOREM SwitchInvariance == SwitchSpec => []SwitchInv
  <1>1. SwitchInit => SwitchInv
    <2> SUFFICES ASSUME SwitchInit PROVE SwitchInv
      OBVIOUS
    <2>1. SwitchTypeOK
      BY Changes DEF SwitchInit, SwitchTypeOK
    <2>2. Changing = {} /\ Source = rowNow /\ meFetch.at = "none"
      BY Changes DEF SwitchInit, Changing, Source
    <2> QED
      BY <2>1, <2>2 DEF SwitchInv, UndoubtedInv, SwitchIsTrue
  <1>2. SwitchInv /\ [SwitchNext]_switchVars => SwitchInv'
    <2> SUFFICES ASSUME SwitchInv, [SwitchNext]_switchVars PROVE SwitchInv'
      OBVIOUS
    <2>1. CASE \E next \in Availability : SetElsewhere(next)
      BY <2>1 DEF SetElsewhere, SwitchInv, SwitchTypeOK
    <2>2. CASE UNCHANGED switchVars
      BY <2>2 DEF switchVars, SwitchInv, SwitchTypeOK, UndoubtedInv, TapInv, Before, Changing, SwitchIsTrue, Source
    <2> QED
      BY <2>1, <2>2, TapKeeps, PatchedKeeps, SettledKeeps, MeFetchKeeps DEF SwitchNext
  <1> QED
    BY <1>1, <1>2, PTL DEF SwitchSpec

\* When no tap is under way the switch shows the captain's row, unless a counted doubt crossed it,
\* whatever /me is read in between and however the two screens take turns.
THEOREM SwitchTellsTheTruth == SwitchSpec => []SwitchIsTrue
  <1>1. SwitchInv => SwitchIsTrue
    BY DEF SwitchInv, UndoubtedInv, SwitchIsTrue
  <1> QED
    BY <1>1, SwitchInvariance, PTL

-----------------------------------------------------------------------------
(* TrackingOutbox, for any positions, any length of the outbox and any effects. What a *)
(* flush takes from the queue when it is answered is the point it sent, because it is  *)
(* still the head: the points are in the order they were read, and one flush at a time *)
(* waits.                                                                              *)

\* The queue holds points in the order they were read, and the tick's own is younger.
OrderedInv ==
    /\ \A i, j \in 1 .. Len(queue) : i < j => queue[i].no < queue[j].no
    /\ \A i \in 1 .. Len(queue) : queue[i].no <= points
    /\ tick.at = "send" => /\ tick.point \in Point /\ tick.point.no <= points
                           /\ \A i \in 1 .. Len(queue) : queue[i].no < tick.point.no

\* One flush at a time waits for the head of the queue.
HeadInv ==
    ~overlapped =>
        /\ \A f, g \in Flushing : f = g
        /\ \A f \in Flushing : queue # <<>> /\ sending[f] = Head(queue)

OutboxInv == OutboxTypeOK /\ OrderedInv /\ HeadInv /\ SavedUnlessOverlapped

LEMMA NoPoints == NoPoint \notin Point
  <1>1. MaxPoints \in Nat
    BY OutboxAssumption
  <1>2. \A p \in Point : p.no >= 1
    BY <1>1 DEF Point
  <1> QED
    BY <1>2 DEF NoPoint

\* What is in a queue, without its head and with a point more.
LEMMA Queues ==
  ASSUME NEW S, NEW q \in Seq(S)
  PROVE  /\ q # <<>> => /\ Head(q) \in S /\ Head(q) = q[1] /\ Len(q) >= 1
                        /\ Tail(q) \in Seq(S) /\ Len(Tail(q)) = Len(q) - 1
                        /\ \A i \in 1 .. Len(q) - 1 : Tail(q)[i] = q[i + 1]
                        /\ ToSet(q) = {Head(q)} \cup ToSet(Tail(q))
         /\ \A p \in S : /\ Append(q, p) \in Seq(S) /\ Len(Append(q, p)) = Len(q) + 1
                         /\ \A i \in 1 .. Len(q) : Append(q, p)[i] = q[i]
                         /\ Append(q, p)[Len(q) + 1] = p
                         /\ ToSet(Append(q, p)) = ToSet(q) \cup {p}
                         /\ Head(Append(q, p)) = IF q = <<>> THEN p ELSE Head(q)
         /\ ToSet(q) \subseteq S /\ Len(q) \in Nat
         /\ ToSet(q) = {q[i] : i \in 1 .. Len(q)}
  <1>1. /\ Len(q) \in Nat /\ DOMAIN q = 1 .. Len(q) /\ \A i \in 1 .. Len(q) : q[i] \in S
        /\ ToSet(q) = {q[i] : i \in 1 .. Len(q)}
    BY DEF ToSet
  <1>2. ASSUME q # <<>>
        PROVE  /\ Head(q) \in S /\ Head(q) = q[1] /\ Len(q) >= 1
               /\ Tail(q) \in Seq(S) /\ Len(Tail(q)) = Len(q) - 1
               /\ \A i \in 1 .. Len(q) - 1 : Tail(q)[i] = q[i + 1]
               /\ ToSet(q) = {Head(q)} \cup ToSet(Tail(q))
    <2>1. /\ Head(q) \in S /\ Head(q) = q[1] /\ Len(q) >= 1
          /\ Tail(q) \in Seq(S) /\ Len(Tail(q)) = Len(q) - 1
          /\ \A i \in 1 .. Len(q) - 1 : Tail(q)[i] = q[i + 1]
      BY <1>2
    <2>2. ToSet(Tail(q)) = {q[i + 1] : i \in 1 .. Len(q) - 1}
      <3>1. DOMAIN Tail(q) = 1 .. Len(q) - 1
        BY <2>1, <1>1
      <3>2. ToSet(Tail(q)) = {Tail(q)[i] : i \in 1 .. Len(q) - 1}
        BY <3>1 DEF ToSet
      <3> QED
        BY <3>2, <2>1
    <2>3. ASSUME NEW i \in 1 .. Len(q) PROVE q[i] \in {q[1]} \cup {q[j + 1] : j \in 1 .. Len(q) - 1}
      <3>1. i = 1 \/ (i - 1 \in 1 .. Len(q) - 1 /\ (i - 1) + 1 = i)
        BY <1>1
      <3> QED
        BY <3>1
    <2>4. ASSUME NEW j \in 1 .. Len(q) - 1 PROVE j + 1 \in 1 .. Len(q)
      BY <1>1
    <2>5. 1 \in 1 .. Len(q)
      BY <1>1, <2>1
    <2> QED
      BY <1>1, <2>1, <2>2, <2>3, <2>4, <2>5
  <1>3. ASSUME NEW p \in S
        PROVE  /\ Append(q, p) \in Seq(S) /\ Len(Append(q, p)) = Len(q) + 1
               /\ \A i \in 1 .. Len(q) : Append(q, p)[i] = q[i]
               /\ Append(q, p)[Len(q) + 1] = p
               /\ ToSet(Append(q, p)) = ToSet(q) \cup {p}
               /\ Head(Append(q, p)) = IF q = <<>> THEN p ELSE Head(q)
    <2>1. /\ Append(q, p) \in Seq(S) /\ Len(Append(q, p)) = Len(q) + 1
          /\ \A i \in 1 .. Len(q) : Append(q, p)[i] = q[i]
          /\ Append(q, p)[Len(q) + 1] = p
      OBVIOUS
    <2>2. DOMAIN Append(q, p) = 1 .. (Len(q) + 1)
      BY <2>1
    <2>3. \A i \in 1 .. (Len(q) + 1) : i \in 1 .. Len(q) \/ i = Len(q) + 1
      BY <1>1
    <2>4. \A i \in 1 .. Len(q) : i \in 1 .. (Len(q) + 1)
      BY <1>1
    <2>5. Len(q) + 1 \in 1 .. (Len(q) + 1)
      BY <1>1
    <2>6. ToSet(Append(q, p)) = ToSet(q) \cup {p}
      BY <1>1, <2>1, <2>2, <2>3, <2>4, <2>5 DEF ToSet
    <2>7. Head(Append(q, p)) = IF q = <<>> THEN p ELSE Head(q)
      OBVIOUS
    <2> QED
      BY <2>1, <2>6, <2>7
  <1> QED
    BY <1>1, <1>2, <1>3

\* What comes of a queue with a new point.
LEMMA Enqueues ==
  ASSUME OutboxInv, NEW p \in Point, p.no <= points', points' \in 0 .. MaxPoints, points' >= points,
         \A i \in 1 .. Len(queue) : queue[i].no < p.no,
         tick' = Resting, sending' = sending, acked' = acked, Enqueue(p),
         UNCHANGED <<session, granted, foreground, net>>
  PROVE  OutboxInv'
  <1> DEFINE kept == queue
             fuller == Append(queue, p)
             pushed == Append(Tail(queue), p)
  <1>1. queue \in Seq(Point) /\ Len(queue) <= OutboxMax /\ OutboxMax \in Nat \ {0} /\ Len(queue) \in Nat
        /\ acked \subseteq Point /\ owed \subseteq Point /\ overlapped \in BOOLEAN /\ points \in Nat /\ points' \in Nat
        /\ p.no \in Nat /\ (\A q \in Point : q.no \in Nat) /\ MaxPoints \in Nat
    BY OutboxAssumption DEF OutboxInv, OutboxTypeOK, Point
  <1>2. \/ queue' = kept
        \/ Len(queue) < OutboxMax /\ queue' = fuller
        \/ queue # <<>> /\ queue' = pushed
    BY <1>1 DEF Enqueue, Enqueued
  <1>3. Tail(queue) \in Seq(Point) \/ queue = <<>>
    BY <1>1
  <1>4. queue' \in Seq(Point) /\ Len(queue') <= OutboxMax
    <2>1. CASE queue' = kept
      BY <2>1, <1>1
    <2>2. CASE Len(queue) < OutboxMax /\ queue' = fuller
      BY <2>2, <1>1, Queues
    <2>3. CASE queue # <<>> /\ queue' = pushed
      <3>1. Tail(queue) \in Seq(Point) /\ Len(Tail(queue)) = Len(queue) - 1
        BY <2>3, <1>1, Queues
      <3>2. pushed \in Seq(Point) /\ Len(pushed) = Len(Tail(queue)) + 1
        BY <3>1, Queues
      <3> QED
        BY <2>3, <3>1, <3>2, <1>1
    <2> QED
      BY <1>2, <2>1, <2>2, <2>3
  <1>5. /\ \A i \in 1 .. Len(queue) : queue[i] \in Point /\ queue[i].no <= points /\ queue[i].no \in Nat
        /\ \A i, j \in 1 .. Len(queue) : i < j => queue[i].no < queue[j].no
    <2>1. \A i \in 1 .. Len(queue) : queue[i] \in Point
      BY <1>1
    <2>2. /\ \A i \in 1 .. Len(queue) : queue[i].no <= points
          /\ \A i, j \in 1 .. Len(queue) : i < j => queue[i].no < queue[j].no
      BY DEF OutboxInv, OrderedInv
    <2> QED
      BY <1>1, <2>1, <2>2
  <1>6. /\ \A i, j \in 1 .. Len(queue') : i < j => queue'[i].no < queue'[j].no
        /\ \A i \in 1 .. Len(queue') : queue'[i].no <= points'
    <2>1. CASE queue' = kept
      BY <2>1, <1>1, <1>5
    <2>2. CASE queue' = fuller
      <3>1. \A i \in 1 .. Len(queue') : (i \in 1 .. Len(queue) /\ queue'[i] = queue[i]) \/ (i = Len(queue) + 1 /\ queue'[i] = p)
        BY <2>2, <1>1, Queues
      <3>2. ASSUME NEW i \in 1 .. Len(queue') PROVE queue'[i].no <= points'
        <4>1. CASE i \in 1 .. Len(queue) /\ queue'[i] = queue[i]
          BY <4>1, <1>1, <1>5
        <4>2. CASE queue'[i] = p
          BY <4>2, <1>1
        <4> QED
          BY <3>1, <4>1, <4>2
      <3>3. ASSUME NEW i \in 1 .. Len(queue'), NEW j \in 1 .. Len(queue'), i < j PROVE queue'[i].no < queue'[j].no
        <4>1. i \in 1 .. Len(queue) /\ queue'[i] = queue[i]
          <5>1. Len(queue') = Len(queue) + 1
            BY <2>2, <1>1, Queues
          <5> QED
            BY <3>1, <3>3, <5>1, <1>1
        <4>2. CASE j \in 1 .. Len(queue) /\ queue'[j] = queue[j]
          BY <4>1, <4>2, <3>3, <1>5
        <4>3. CASE queue'[j] = p
          BY <4>1, <4>3
        <4> QED
          BY <3>1, <4>2, <4>3
      <3> QED
        BY <3>2, <3>3
    <2>3. CASE queue # <<>> /\ queue' = pushed
      <3>1. /\ Tail(queue) \in Seq(Point) /\ Len(Tail(queue)) = Len(queue) - 1
            /\ \A i \in 1 .. Len(queue) - 1 : Tail(queue)[i] = queue[i + 1]
        BY <2>3, <1>1, Queues
      <3>2. /\ Len(queue') = Len(queue) /\ queue'[Len(queue)] = p
            /\ \A i \in 1 .. Len(queue) - 1 : queue'[i] = queue[i + 1]
        <4>1. /\ Len(pushed) = Len(Tail(queue)) + 1 /\ pushed[Len(Tail(queue)) + 1] = p
              /\ \A i \in 1 .. Len(Tail(queue)) : pushed[i] = Tail(queue)[i]
          BY <3>1, Queues
        <4>2. Len(Tail(queue)) + 1 = Len(queue)
          BY <3>1, <1>1
        <4> QED
          BY <2>3, <3>1, <4>1, <4>2
      <3>3. \A i \in 1 .. Len(queue') :
              \/ i + 1 \in 1 .. Len(queue) /\ queue'[i] = queue[i + 1]
              \/ i = Len(queue) /\ queue'[i] = p
        BY <3>2, <1>1
      <3>4. ASSUME NEW i \in 1 .. Len(queue') PROVE queue'[i].no <= points'
        <4>1. CASE i + 1 \in 1 .. Len(queue) /\ queue'[i] = queue[i + 1]
          BY <4>1, <1>1, <1>5
        <4>2. CASE queue'[i] = p
          BY <4>2, <1>1
        <4> QED
          BY <3>3, <4>1, <4>2
      <3>5. ASSUME NEW i \in 1 .. Len(queue'), NEW j \in 1 .. Len(queue'), i < j PROVE queue'[i].no < queue'[j].no
        <4>1. i + 1 \in 1 .. Len(queue) /\ queue'[i] = queue[i + 1]
          BY <3>2, <3>3, <3>5, <1>1
        <4>2. CASE j + 1 \in 1 .. Len(queue) /\ queue'[j] = queue[j + 1]
          <5>1. i + 1 < j + 1
            BY <3>5, <3>2, <1>1
          <5> QED
            BY <4>1, <4>2, <5>1, <1>5
        <4>3. CASE queue'[j] = p
          BY <4>1, <4>3
        <4> QED
          BY <3>3, <4>2, <4>3
      <3> QED
        BY <3>4, <3>5
    <2> QED
      BY <1>2, <2>1, <2>2, <2>3
  <1>7. owed' \subseteq owed \cup ToSet(queue') /\ owed' \cap ToSet(queue) \subseteq ToSet(queue')
    BY DEF Enqueue
  <1>8. owed' \subseteq Point /\ overlapped' \in BOOLEAN
    <2>1. ToSet(queue') \subseteq Point
      BY <1>4, Queues
    <2>2. overlapped' \in BOOLEAN
      BY DEF Enqueue
    <2> QED
      BY <2>1, <2>2, <1>1, <1>7
  <1>9. OutboxTypeOK'
    BY <1>1, <1>4, <1>8 DEF OutboxInv, OutboxTypeOK, Tick, Resting
  <1>10. OrderedInv'
    BY <1>6 DEF OrderedInv, Resting
  <1>11. SavedUnlessOverlapped'
    BY <1>7 DEF OutboxInv, SavedUnlessOverlapped, SavedIsSent, Enqueue
  <1>12. ASSUME ~overlapped', Flushing # {} PROVE queue' # <<>> /\ Head(queue') = Head(queue)
    <2>1. ~overlapped /\ ToSet(queue) \subseteq ToSet(queue') /\ queue # <<>>
      BY <1>12 DEF Enqueue, OutboxInv, HeadInv
    <2>2. CASE queue' = kept
      BY <2>1, <2>2
    <2>3. CASE queue' = fuller
      BY <2>1, <2>3, <1>1, Queues
    <2>4. CASE queue' = pushed
      <3>0. /\ Len(Tail(queue)) = Len(queue) - 1 /\ Len(queue) >= 1 /\ Tail(queue) \in Seq(Point)
            /\ \A i \in 1 .. Len(queue) - 1 : Tail(queue)[i] = queue[i + 1]
            /\ ToSet(queue) = {queue[i] : i \in 1 .. Len(queue)}
        BY <2>1, <1>1, Queues
      <3>1. /\ queue[1] \in ToSet(queue') /\ ToSet(queue') = ToSet(Tail(queue)) \cup {p}
            /\ ToSet(Tail(queue)) = {Tail(queue)[i] : i \in 1 .. Len(Tail(queue))}
        <4>1. 1 \in 1 .. Len(queue)
          BY <3>0, <1>1
        <4>2. PICK rest \in Seq(Point) : rest = Tail(queue)
          BY <3>0
        <4>3. ToSet(Append(rest, p)) = ToSet(rest) \cup {p} /\ ToSet(rest) = {rest[i] : i \in 1 .. Len(rest)}
          BY Queues
        <4> QED
          BY <2>1, <2>4, <3>0, <4>1, <4>2, <4>3
      <3>2. 1 \in 1 .. Len(queue) /\ queue[1].no < p.no /\ queue[1].no \in Nat
        BY <3>0, <1>1, <1>5
      <3>3. PICK i \in 1 .. Len(queue) - 1 : queue[1] = Tail(queue)[i]
        <4>1. queue[1] # p
          BY <3>2, <1>1
        <4> QED
          BY <3>0, <3>1, <4>1
      <3>4. i + 1 \in 1 .. Len(queue) /\ 1 < i + 1 /\ queue[1] = queue[i + 1]
        BY <3>0, <3>3, <1>1
      <3> QED
        BY <3>2, <3>4, <1>5, <1>1
    <2> QED
      BY <1>2, <2>2, <2>3, <2>4
  <1>13. HeadInv'
    <2>1. Flushing' = Flushing
      BY DEF Flushing
    <2>2. overlapped => overlapped'
      BY DEF Enqueue
    <2> QED
      BY <2>1, <2>2, <1>12 DEF OutboxInv, HeadInv
  <1> QED
    BY <1>9, <1>10, <1>11, <1>13 DEF OutboxInv

\* A flush that sends the head of the queue, or ends.
LEMMA SendsKeep ==
  ASSUME OutboxInv, NEW f \in Flush, NEW q \in Seq(Point), queue' = q, Sends(f, q), OutboxTypeOK', OrderedInv',
         SavedUnlessOverlapped', ~overlapped => q = queue \/ Flushing \subseteq {f}
  PROVE  OutboxInv'
  <1>1. /\ sending' = [sending EXCEPT ![f] = IF q = <<>> THEN NoPoint ELSE Head(q)]
        /\ overlapped' = (overlapped \/ (q # <<>> /\ Flushing \ {f} # {}))
    BY DEF Sends
  <1>2. sending \in [Flush -> Point \cup {NoPoint}]
    BY DEF OutboxInv, OutboxTypeOK
  <1>3. /\ sending'[f] = IF q = <<>> THEN NoPoint ELSE Head(q)
        /\ \A g \in Flush : g # f => sending'[g] = sending[g]
    BY <1>1, <1>2
  <1>4. HeadInv'
    <2> SUFFICES ASSUME ~overlapped'
                 PROVE  /\ \A g, h \in Flushing' : g = h
                        /\ \A g \in Flushing' : queue' # <<>> /\ sending'[g] = Head(queue')
      BY DEF HeadInv
    <2>1. ~overlapped /\ (q = <<>> \/ Flushing \subseteq {f})
      BY <1>1
    <2>2. CASE Flushing \subseteq {f}
      <3>1. Flushing' \subseteq {f} /\ (q = <<>> => Flushing' = {})
        BY <2>2, <1>3 DEF Flushing
      <3> QED
        BY <3>1, <1>3
    <2>3. CASE q = <<>> /\ q = queue
      <3>1. Flushing = {}
        BY <2>1, <2>3 DEF OutboxInv, HeadInv
      <3>2. Flushing' = {}
        BY <2>3, <3>1, <1>3 DEF Flushing
      <3> QED
        BY <3>2
    <2> QED
      BY <2>1, <2>2, <2>3
  <1> QED
    BY <1>4 DEF OutboxInv

\* The same, from the queue as it is.
LEMMA StartsKeep ==
  ASSUME OutboxInv, NEW f \in Flush, Sends(f, queue), UNCHANGED <<queue, points, acked, owed>>,
         session' \in BOOLEAN, granted' \in BOOLEAN, foreground' \in BOOLEAN, net' \in {"online", "offline", "unknown"},
         tick' \in Tick, tick'.at # "send" \/ tick' = tick
  PROVE  OutboxInv'
  <1>1. queue \in Seq(Point) /\ sending \in [Flush -> Point \cup {NoPoint}] /\ overlapped \in BOOLEAN
    BY DEF OutboxInv, OutboxTypeOK
  <1>2. (IF queue = <<>> THEN NoPoint ELSE Head(queue)) \in Point \cup {NoPoint}
    BY <1>1, Queues
  <1>3. sending' \in [Flush -> Point \cup {NoPoint}] /\ overlapped' \in BOOLEAN /\ (overlapped => overlapped')
    BY <1>1, <1>2 DEF Sends
  <1>4. OutboxTypeOK'
    BY <1>3 DEF OutboxInv, OutboxTypeOK
  <1>5. OrderedInv'
    BY DEF OutboxInv, OrderedInv
  <1>6. SavedUnlessOverlapped'
    BY <1>3 DEF OutboxInv, SavedUnlessOverlapped, SavedIsSent
  <1> QED
    BY <1>1, <1>4, <1>5, <1>6, SendsKeep

LEMMA FlushOverIs ==
  ASSUME OutboxInv, NEW f, FlushOver(f)
  PROVE  tick' \in Tick /\ (tick'.at # "send" \/ tick' = tick)
  BY DEF FlushOver, OutboxInv, OutboxTypeOK, Tick

LEMMA FlushAnsweredKeeps ==
  ASSUME OutboxInv, NEW f \in Flush, FlushAnswered(f)
  PROVE  OutboxInv'
  <1>1. queue \in Seq(Point) /\ sending \in [Flush -> Point \cup {NoPoint}] /\ overlapped \in BOOLEAN
        /\ sending[f] \in Point /\ f \in Flushing /\ tick \in Tick
        /\ UNCHANGED <<session, granted, foreground, net, points, owed>>
    BY DEF OutboxInv, OutboxTypeOK, FlushAnswered, Flushing
  <1>2. tick' \in Tick /\ (tick'.at # "send" \/ tick' = tick)
    BY <1>1, FlushOverIs DEF FlushAnswered
  <1>3. CASE /\ sending' = [sending EXCEPT ![f] = NoPoint]
             /\ UNCHANGED <<queue, acked, overlapped>>
    <2>1. sending' \in [Flush -> Point \cup {NoPoint}] /\ Flushing' \subseteq Flushing
          /\ \A g \in Flushing' : sending'[g] = sending[g]
      BY <1>1, <1>3 DEF Flushing
    <2>2. OutboxTypeOK'
      BY <1>1, <1>2, <1>3, <2>1 DEF OutboxInv, OutboxTypeOK
    <2>3. OrderedInv'
      BY <1>1, <1>2, <1>3 DEF OutboxInv, OrderedInv
    <2>4. HeadInv' /\ SavedUnlessOverlapped'
      BY <1>1, <1>3, <2>1 DEF OutboxInv, HeadInv, SavedUnlessOverlapped, SavedIsSent
    <2> QED
      BY <2>2, <2>3, <2>4 DEF OutboxInv
  <1>4. CASE /\ acked' = acked \cup {sending[f]}
             /\ queue' = IF queue = <<>> THEN queue ELSE Tail(queue)
             /\ Sends(f, queue')
    <2> DEFINE q == IF queue = <<>> THEN queue ELSE Tail(queue)
    <2>1. /\ q \in Seq(Point) /\ Len(q) <= Len(queue) /\ Len(queue) \in Nat /\ Len(q) \in Nat
          /\ \A i \in 1 .. Len(q) : i + 1 \in 1 .. Len(queue) /\ q[i] = queue[i + 1]
      BY <1>1, Queues
    <2>2. queue' = q /\ Sends(f, q)
      BY <1>4
    <2>3. (IF q = <<>> THEN NoPoint ELSE Head(q)) \in Point \cup {NoPoint}
      BY <2>1, Queues
    <2>4. ToSet(queue) \subseteq {Head(queue)} \cup ToSet(q)
      BY <1>1, Queues
    <2> HIDE DEF q
    <2>5. sending' \in [Flush -> Point \cup {NoPoint}] /\ overlapped' \in BOOLEAN /\ (overlapped => overlapped')
      BY <1>1, <2>2, <2>3 DEF Sends
    <2>6. OutboxTypeOK'
      <3>1. OutboxMax \in Nat
        BY OutboxAssumption
      <3> QED
        BY <1>1, <1>2, <1>4, <2>1, <2>2, <2>5, <3>1 DEF OutboxInv, OutboxTypeOK
    <2>7. OrderedInv'
      <3>1. \A i, j \in 1 .. Len(q) : i < j => q[i].no < q[j].no
        BY <2>1 DEF OutboxInv, OrderedInv
      <3> QED
        BY <1>1, <1>2, <2>1, <2>2, <3>1 DEF OutboxInv, OrderedInv
    <2>8. ~overlapped => Flushing \subseteq {f} /\ sending[f] = Head(queue)
      BY <1>1 DEF OutboxInv, HeadInv
    <2>9. SavedUnlessOverlapped'
      BY <1>1, <1>4, <2>2, <2>4, <2>5, <2>8 DEF OutboxInv, SavedUnlessOverlapped, SavedIsSent
    <2> QED
      BY <2>1, <2>2, <2>6, <2>7, <2>8, <2>9, SendsKeep
  <1> QED
    BY <1>3, <1>4 DEF FlushAnswered

LEMMA TickKeepsOutbox ==
  ASSUME OutboxInv, TickStarts \/ GpsFails \/ Read \/ TickAnswered
  PROVE  OutboxInv'
  <1>1. /\ session \in BOOLEAN /\ granted \in BOOLEAN /\ foreground \in BOOLEAN /\ net \in {"online", "offline", "unknown"}
        /\ tick \in Tick /\ points \in 0 .. MaxPoints /\ MaxPoints \in Nat /\ queue \in Seq(Point)
    BY OutboxAssumption DEF OutboxInv, OutboxTypeOK
  <1>2. CASE TickStarts
    <2>1. CASE net = "online" /\ queue # <<>>
      <3>1. Sends("tick", queue) /\ tick' = [tick EXCEPT !.at = "flush"] /\ "tick" \in Flush
        BY <1>2, <2>1 DEF TickStarts, Flush
      <3>2. tick' \in Tick /\ tick'.at # "send"
        BY <1>1, <3>1 DEF Tick
      <3> QED
        BY <1>1, <1>2, <3>1, <3>2, StartsKeep DEF TickStarts
    <2>2. CASE ~(net = "online" /\ queue # <<>>)
      <3>1. tick' = [tick EXCEPT !.at = "read"] /\ UNCHANGED <<sending, overlapped>>
        BY <1>2, <2>2 DEF TickStarts
      <3>2. tick' \in Tick /\ tick'.at # "send"
        BY <1>1, <3>1 DEF Tick
      <3> QED
        BY <1>2, <3>1, <3>2 DEF TickStarts, OutboxInv, OutboxTypeOK, OrderedInv, HeadInv, Flushing,
           SavedUnlessOverlapped, SavedIsSent
    <2> QED
      BY <2>1, <2>2
  <1>3. CASE GpsFails
    BY <1>3 DEF GpsFails, OutboxInv, OutboxTypeOK, OrderedInv, HeadInv, Flushing, SavedUnlessOverlapped, SavedIsSent,
       Tick, Resting
  <1>4. CASE Read
    <2>1. points' = points + 1 /\ points' \in 0 .. MaxPoints /\ points' >= points /\ points' \in 1 .. MaxPoints
      BY <1>1, <1>4 DEF Read
    <2>2. PICK s \in Spot :
            LET p == [no |-> points', spot |-> s] IN
            IF net = "online"
              THEN tick' = [at |-> "send", point |-> p] /\ UNCHANGED <<queue, owed, overlapped>>
              ELSE tick' = Resting /\ Enqueue(p)
      BY <1>4 DEF Read
    <2> DEFINE p == [no |-> points', spot |-> s]
    <2>3. p \in Point /\ p.no = points'
      BY <2>1 DEF Point
    <2>4. \A i \in 1 .. Len(queue) : queue[i].no < p.no
      <3>1. \A i \in 1 .. Len(queue) : queue[i].no <= points /\ queue[i].no \in Nat
        <4>1. \A q \in Point : q.no \in Nat
          BY <1>1 DEF Point
        <4>2. \A i \in 1 .. Len(queue) : queue[i] \in Point
          BY <1>1
        <4> QED
          BY <4>1, <4>2 DEF OutboxInv, OrderedInv
      <3> QED
        BY <1>1, <2>1, <2>3, <3>1
    <2>5. UNCHANGED <<session, granted, foreground, net, sending, acked>>
      BY <1>4 DEF Read
    <2>8. \A i \in 1 .. Len(queue) : queue[i].no \in Nat
      <3>1. \A q \in Point : q.no \in Nat
        BY <1>1 DEF Point
      <3> QED
        BY <1>1, <3>1
    <2>6. CASE net = "online"
      <3>1. tick' = [at |-> "send", point |-> p] /\ UNCHANGED <<queue, owed, overlapped>>
        BY <2>2, <2>6
      <3> HIDE DEF p
      <3>2. OutboxTypeOK'
        BY <2>1, <2>3, <2>5, <3>1 DEF OutboxInv, OutboxTypeOK, Tick
      <3>3. OrderedInv'
        <4>1. \A i \in 1 .. Len(queue) : queue[i].no <= points'
          BY <2>4, <2>3, <2>1, <2>8
        <4> QED
          BY <1>1, <2>1, <2>3, <2>4, <3>1, <4>1 DEF OutboxInv, OrderedInv
      <3>4. HeadInv' /\ SavedUnlessOverlapped'
        BY <2>5, <3>1 DEF OutboxInv, HeadInv, Flushing, SavedUnlessOverlapped, SavedIsSent
      <3> QED
        BY <3>2, <3>3, <3>4 DEF OutboxInv
    <2>7. CASE net # "online"
      <3>1. tick' = Resting /\ Enqueue(p)
        BY <2>2, <2>7
      <3> HIDE DEF p
      <3>2. p.no <= points'
        BY <2>1, <2>3
      <3> QED
        BY <2>1, <2>3, <2>4, <2>5, <3>1, <3>2, Enqueues
    <2> QED
      BY <2>6, <2>7
  <1>5. CASE TickAnswered
    <2>1. /\ tick.point \in Point /\ tick.point.no <= points
          /\ \A i \in 1 .. Len(queue) : queue[i].no < tick.point.no
          /\ tick' = Resting /\ UNCHANGED <<session, granted, foreground, net, sending, points>>
      BY <1>5 DEF TickAnswered, OutboxInv, OrderedInv
    <2>2. CASE acked' = acked \cup {tick.point} /\ UNCHANGED <<queue, owed, overlapped>>
      BY <2>1, <2>2 DEF OutboxInv, OutboxTypeOK, OrderedInv, HeadInv, Flushing, SavedUnlessOverlapped, SavedIsSent, Tick, Resting
    <2>3. CASE Enqueue(tick.point) /\ UNCHANGED acked
      <3>1. points' >= points /\ points' \in 0 .. MaxPoints /\ tick.point.no <= points'
        BY <1>1, <2>1
      <3> QED
        BY <2>1, <2>3, <3>1, Enqueues
    <2> QED
      BY <1>5, <2>2, <2>3 DEF TickAnswered
  <1> QED
    BY <1>2, <1>3, <1>4, <1>5

LEMMA EffectsKeep ==
  ASSUME OutboxInv, SetNet \/ SetSession \/ AnswerPermission \/ SetForeground
  PROVE  OutboxInv'
  <1>1. /\ session' \in BOOLEAN /\ granted' \in BOOLEAN /\ foreground' \in BOOLEAN
        /\ net' \in {"online", "offline", "unknown"}
    <2>1. session \in BOOLEAN /\ granted \in BOOLEAN /\ foreground \in BOOLEAN /\ net \in {"online", "offline", "unknown"}
      BY DEF OutboxInv, OutboxTypeOK
    <2>2. net' \in {"online", "offline", "unknown"}
      BY <2>1 DEF SetNet, SetSession, AnswerPermission, SetForeground
    <2>3. session' \in BOOLEAN /\ granted' \in BOOLEAN /\ foreground' \in BOOLEAN
      BY <2>1, Zenon DEF SetNet, SetSession, AnswerPermission, SetForeground
    <2> QED
      BY <2>2, <2>3
  <1>2. UNCHANGED <<queue, tick, points, acked, owed>>
    BY DEF SetNet, SetSession, AnswerPermission, SetForeground
  <1>3. tick' \in Tick
    BY <1>2 DEF OutboxInv, OutboxTypeOK
  <1>4. CASE UNCHANGED <<sending, overlapped>>
    BY <1>1, <1>2, <1>4 DEF OutboxInv, OutboxTypeOK, OrderedInv, HeadInv, Flushing, SavedUnlessOverlapped, SavedIsSent
  <1>5. CASE \E f \in Effect : Sends(f, queue)
    BY <1>1, <1>2, <1>3, <1>5, StartsKeep DEF Flush
  <1> QED
    BY <1>4, <1>5 DEF SetNet, SetSession, AnswerPermission, SetForeground, FlushEffect

\* OutboxInv holds always.
THEOREM OutboxInvariance == OutboxSpec => []OutboxInv
  <1>1. OutboxInit => OutboxInv
    <2> SUFFICES ASSUME OutboxInit PROVE OutboxInv
      OBVIOUS
    <2>1. OutboxTypeOK
      <3>1. OutboxMax \in Nat /\ MaxPoints \in Nat
        BY OutboxAssumption
      <3>2. queue \in Seq(Point) /\ Len(queue) <= OutboxMax /\ points \in 0 .. MaxPoints
        BY <3>1 DEF OutboxInit
      <3>3. sending \in [Flush -> Point \cup {NoPoint}] /\ tick \in Tick
        BY DEF OutboxInit, Tick, Resting
      <3> QED
        BY <3>2, <3>3 DEF OutboxInit, OutboxTypeOK
    <2>2. Flushing = {} /\ ToSet(queue) = {} /\ Len(queue) = 0
      BY DEF OutboxInit, Flushing, ToSet
    <2> QED
      BY <2>1, <2>2 DEF OutboxInit, OutboxInv, OrderedInv, HeadInv, SavedUnlessOverlapped, SavedIsSent, Resting
  <1>2. OutboxInv /\ [OutboxNext]_outboxVars => OutboxInv'
    <2> SUFFICES ASSUME OutboxInv, [OutboxNext]_outboxVars PROVE OutboxInv'
      OBVIOUS
    <2>1. CASE UNCHANGED outboxVars
      BY <2>1 DEF outboxVars, OutboxInv, OutboxTypeOK, OrderedInv, HeadInv, Flushing, SavedUnlessOverlapped, SavedIsSent
    <2> QED
      BY <2>1, FlushAnsweredKeeps, TickKeepsOutbox, EffectsKeep DEF OutboxNext
  <1> QED
    BY <1>1, <1>2, PTL DEF OutboxSpec

\* A position that was queued stays queued until the API has it, for any length of the outbox and
\* number of effects, as long as no two flushes overlapped and nothing was pushed out during one.
THEOREM OutboxSaves == OutboxSpec => []SavedUnlessOverlapped
  <1>1. OutboxInv => SavedUnlessOverlapped
    BY DEF OutboxInv
  <1> QED
    BY <1>1, OutboxInvariance, PTL

-----------------------------------------------------------------------------
(* OfferNews, for any captains and pages. Whoever is behind will be told by an          *)
(* announcement that is still to be made, also by one that reads the order again first, *)
(* after other changes.                                                                 *)

\* Whom an announcement tells, made now.
Told(t) == t.phones \cup Reread(t) \cup IF t.pages THEN InRoom ELSE {}

\* A live offer has a captain, and whoever is behind will be told.
NewsInv ==
    /\ NewsTypeOK
    /\ state.log => state.captain # NoCourier
    /\ \A v \in Viewer : news[v] = "behind" => \E t \in tasks : v \in Told(t)

\* A commit after which task tells v, or which means nothing to v and leaves whoever a
\* later look at the order would find.
Reaches(s, task, v) ==
    \/ v \in task.phones
    \/ v \in InRoom /\ task.pages
    \/ v = s.captain /\ v \in Courier /\ (task.reread = "any" \/ (task.reread = "offered" /\ s.status = "offered"))
    \/ /\ Shows(v, s) = Shows(v, state)
       /\ v = state.captain => s.captain = state.captain /\ s.status = state.status

LEMMA CommitKeepsTypes ==
  ASSUME NewsInv, NEW s \in OrderState, NEW unnamed, Commit(s, unnamed)
  PROVE  /\ state' = s /\ state' \in OrderState /\ news' \in [Viewer -> News]
         /\ \A v \in Viewer : news'[v] = "behind" =>
              v \notin unnamed /\ (news[v] = "behind" \/ Shows(v, s) # Shows(v, state))
  <1>1. news \in [Viewer -> News] /\ state' = s
    BY DEF NewsInv, NewsTypeOK, Commit
  <1> DEFINE to(v) == IF news[v] # "behind" /\ (Shows(v, s) = Shows(v, state) \/ news[v] # "current") THEN news[v]
                      ELSE IF v \in unnamed THEN "missed" ELSE "behind"
  <1>2. news' = [v \in Viewer |-> to(v)]
    BY DEF Commit
  <1>3. \A v \in Viewer : to(v) \in News
    BY <1>1 DEF News
  <1>4. \A v \in Viewer : to(v) = "behind" => v \notin unnamed /\ (news[v] = "behind" \/ Shows(v, s) # Shows(v, state))
    OBVIOUS
  <1> HIDE DEF to
  <1> QED
    BY <1>1, <1>2, <1>3, <1>4

LEMMA CommitKeeps ==
  ASSUME NewsInv, NEW s \in OrderState, NEW unnamed, NEW task \in Task, Commit(s, unnamed), tasks' = tasks \cup {task},
         s.log => s.captain # NoCourier, \A v \in Viewer : v \in unnamed \/ Reaches(s, task, v)
  PROVE  NewsInv'
  <1>1. /\ state' = s /\ state' \in OrderState /\ news' \in [Viewer -> News]
        /\ \A v \in Viewer : news'[v] = "behind" =>
             v \notin unnamed /\ (news[v] = "behind" \/ Shows(v, s) # Shows(v, state))
    BY CommitKeepsTypes
  <1>2. NewsTypeOK'
    BY <1>1 DEF NewsInv, NewsTypeOK
  <1>3. ASSUME NEW v \in Viewer, news'[v] = "behind" PROVE \E t \in tasks' : v \in Told(t)'
    <2>1. Reaches(s, task, v) /\ (news[v] = "behind" \/ Shows(v, s) # Shows(v, state))
      BY <1>1, <1>3
    <2>2. CASE v \in Told(task)'
      BY <2>2
    <2>3. CASE v \notin Told(task)'
      <3>1. /\ Shows(v, s) = Shows(v, state)
            /\ v = state.captain => s.captain = state.captain /\ s.status = state.status
        BY <2>1, <2>3, <1>1 DEF Reaches, Told, Reread, ItsCaptain
      <3>2. PICK t \in tasks : v \in Told(t)
        BY <2>1, <3>1 DEF NewsInv
      <3>3. v \in Told(t)'
        BY <3>1, <3>2, <1>1 DEF Told, Reread, ItsCaptain
      <3> QED
        BY <3>2, <3>3
    <2> QED
      BY <2>2, <2>3
  <1> QED
    BY <1>1, <1>2, <1>3 DEF NewsInv

LEMMA States ==
  /\ \A s \in OrderState, c \in Courier \cup {NoCourier} :
       /\ OfferedTo(s, c) \in OrderState /\ OfferedTo(s, c).captain = c
       /\ OfferedTo(s, c).status = IF c = NoCourier THEN "open" ELSE "offered"
       /\ OfferedTo(s, c).log => c # NoCourier
       /\ Freed(s) \in OrderState /\ Freed(s).captain = NoCourier /\ ~Freed(s).log
  /\ \A cs \in SUBSET Courier :
       /\ ToBoth(cs) \in Task /\ ToBoth(cs).phones = cs /\ ToBoth(cs).pages /\ ToBoth(cs).reread = "no"
  /\ ToPages \in Task /\ ToPages.phones = {} /\ ToPages.pages /\ ToPages.reread = "no"
  BY DEF OrderState, Task, OfferedTo, Freed, ToBoth, ToPages

LEMMA Rereads ==
  ASSUME NEW cs \in SUBSET Courier, NEW r \in {"offered", "any"}
  PROVE  LET t == [ToBoth(cs) EXCEPT !.reread = r] IN t \in Task /\ t.phones = cs /\ t.pages /\ t.reread = r
  BY DEF ToBoth, ToPages, Task

\* A courier sees a change only of an order that was his or becomes his.
LEMMA CardsOfOthers ==
  ASSUME NEW s, NEW v \in Courier, v # s.captain, v # state.captain
  PROVE  Shows(v, s) = Shows(v, state)
  BY DEF Shows, CardOf

LEMMA DistributedKeeps ==
  ASSUME NewsInv, NEW c \in Courier \cup {NoCourier}, Distributed(OfferedTo(state, c), c)
  PROVE  NewsInv'
  <1>1. state \in OrderState
    BY DEF NewsInv, NewsTypeOK
  <1>2. OfferedTo(state, c) \in OrderState /\ OfferedTo(state, c).captain = c /\ (OfferedTo(state, c).log => c # NoCourier)
    BY <1>1, States
  <1>3. CASE c = NoCourier
    <2>1. Commit(OfferedTo(state, c), (Courier \ {c}) \cup Desk) /\ tasks' = tasks
      BY <1>3 DEF Distributed
    <2>2. /\ state' \in OrderState /\ news' \in [Viewer -> News]
          /\ \A v \in Viewer : news'[v] = "behind" => v \notin (Courier \ {c}) \cup Desk
      BY <2>1, <1>2, CommitKeepsTypes
    <2> QED
      <3>1. state' = OfferedTo(state, c)
        BY <2>1 DEF Commit
      <3>2. \A v \in Viewer : news'[v] # "behind"
        BY <2>2, <1>3, NewsAssumption DEF Viewer
      <3> QED
        BY <2>1, <2>2, <3>1, <3>2, <1>2 DEF NewsInv, NewsTypeOK
  <1>4. CASE c # NoCourier
    <2>1. Commit(OfferedTo(state, c), (Courier \ {c}) \cup (Desk \ InRoom)) /\ tasks' = tasks \cup {ToBoth({c})}
      BY <1>4 DEF Distributed, Announcing
    <2>2. ToBoth({c}) \in Task /\ ToBoth({c}).phones = {c} /\ ToBoth({c}).pages
      BY <1>4, States
    <2>3. \A v \in Viewer : v \in (Courier \ {c}) \cup (Desk \ InRoom) \/ Reaches(OfferedTo(state, c), ToBoth({c}), v)
      BY <2>2 DEF Viewer, Reaches
    <2> QED
      BY <2>1, <2>2, <2>3, <1>2, CommitKeeps
  <1> QED
    BY <1>3, <1>4

\* The announcement that names the captains who lose or get the order, and the pages.
LEMMA NamedKeeps ==
  ASSUME NewsInv, NEW s \in OrderState, NEW task \in Task, Commit(s, Desk \ InRoom), Announcing(task), task.pages,
         s.log => s.captain # NoCourier,
         \A v \in Courier : v \in {state.captain, s.captain} =>
            \/ v \in task.phones
            \/ v = s.captain /\ (task.reread = "any" \/ (task.reread = "offered" /\ s.status = "offered"))
            \/ [s EXCEPT !.archived = state.archived] = state
  PROVE  NewsInv'
  <1>1. ASSUME NEW v \in Viewer, v \notin Desk \ InRoom PROVE Reaches(s, task, v)
    <2>1. CASE v \in InRoom
      BY <2>1 DEF Reaches
    <2>2. CASE v \in Courier /\ v \notin {state.captain, s.captain}
      BY <2>2, CardsOfOthers DEF Reaches
    <2>3. CASE v \in Courier /\ [s EXCEPT !.archived = state.archived] = state
      <3>1. s.status = state.status /\ s.captain = state.captain /\ s.log = state.log
        BY <2>3 DEF OrderState
      <3> QED
        BY <2>3, <3>1 DEF Reaches, Shows, CardOf
    <2> QED
      BY <1>1, <2>1, <2>2, <2>3 DEF Viewer, Reaches
  <1> QED
    BY <1>1, CommitKeeps DEF Announcing

LEMMA TickKeeps ==
  ASSUME NewsInv, NEW c \in Courier \cup {NoCourier}, NewsTick(c)
  PROVE  NewsInv'
  <1> DEFINE task == [ToBoth({state.captain}) EXCEPT !.reread = "offered"]
  <1>1. state \in OrderState /\ state.captain \in Courier
    BY DEF NewsInv, NewsTypeOK, NewsTick, OrderState
  <1>2. task \in Task /\ task.phones = {state.captain} /\ task.pages /\ task.reread = "offered"
    BY <1>1, Rereads
  <1>3. /\ OfferedTo(state, c) \in OrderState /\ OfferedTo(state, c).captain = c
        /\ OfferedTo(state, c).log => c # NoCourier
        /\ c \in Courier => OfferedTo(state, c).status = "offered"
    BY <1>1, States, NewsAssumption
  <1>4. Commit(OfferedTo(state, c), Desk \ InRoom) /\ Announcing(task)
    BY DEF NewsTick
  <1> HIDE DEF task
  <1> QED
    BY <1>2, <1>3, <1>4, NamedKeeps

LEMMA AcceptKeeps ==
  ASSUME NewsInv, NewsAccept
  PROVE  NewsInv'
  <1> DEFINE s == [state EXCEPT !.status = "working", !.log = FALSE]
  <1>1. state \in OrderState /\ state.captain \in Courier
    BY DEF NewsInv, NewsTypeOK, NewsAccept, OrderState
  <1>2. s \in OrderState /\ s.captain = state.captain /\ ~s.log
    BY <1>1 DEF OrderState
  <1>3. Commit(s, Desk \ InRoom) /\ Announcing(ToBoth({state.captain}))
    BY DEF NewsAccept
  <1>4. /\ ToBoth({state.captain}) \in Task /\ ToBoth({state.captain}).phones = {state.captain}
        /\ ToBoth({state.captain}).pages
    BY <1>1, States
  <1> HIDE DEF s
  <1> QED
    BY <1>2, <1>3, <1>4, NamedKeeps

LEMMA RejectKeeps ==
  ASSUME NewsInv, NEW c \in Courier \cup {NoCourier}, NewsReject(c)
  PROVE  NewsInv'
  <1> DEFINE task == ToBoth({state.captain, c} \cap Courier)
  <1>1. state \in OrderState /\ state.captain \in Courier
    BY DEF NewsInv, NewsTypeOK, NewsReject, OrderState
  <1>2. task \in Task /\ task.phones = {state.captain, c} \cap Courier /\ task.pages
    BY <1>1, States
  <1>3. PICK s : /\ Commit(s, Desk \ InRoom) /\ Announcing(task)
                 /\ s = IF state.archived THEN [state EXCEPT !.log = FALSE] ELSE OfferedTo(state, c)
    BY DEF NewsReject
  <1>4. s \in OrderState /\ s.captain \in {state.captain, c} /\ (s.log => s.captain # NoCourier)
    <2>1. CASE state.archived
      BY <2>1, <1>3, <1>1 DEF OrderState
    <2>2. CASE ~state.archived
      BY <2>2, <1>3, <1>1, States
    <2> QED
      BY <2>1, <2>2
  <1> HIDE DEF task
  <1> QED
    BY <1>2, <1>3, <1>4, NamedKeeps

LEMMA CancelKeeps ==
  ASSUME NewsInv, NewsCancel
  PROVE  NewsInv'
  <1>1. state \in OrderState /\ state.captain \in Courier
    BY DEF NewsInv, NewsTypeOK, NewsCancel, OrderState
  <1>2. Freed(state) \in OrderState /\ Freed(state).captain = NoCourier /\ ~Freed(state).log
    BY <1>1, States
  <1>3. Commit(Freed(state), Desk \ InRoom) /\ Announcing(ToBoth({state.captain}))
    BY DEF NewsCancel
  <1>4. /\ ToBoth({state.captain}) \in Task /\ ToBoth({state.captain}).phones = {state.captain}
        /\ ToBoth({state.captain}).pages
    BY <1>1, States
  <1> QED
    BY <1>2, <1>3, <1>4, NewsAssumption, NamedKeeps

LEMMA SetStatusKeeps ==
  ASSUME NewsInv, NEW next \in {"open", "offered", "working", "closed"}, NewsSetStatus(next)
  PROVE  NewsInv'
  <1> DEFINE s == [state EXCEPT !.status = next]
             task == ToBoth(ItsCaptain(state.captain))
  <1>1. state \in OrderState /\ (state.log => state.captain # NoCourier)
    BY DEF NewsInv, NewsTypeOK
  <1>2. s \in OrderState /\ s.captain = state.captain /\ s.log = state.log
    BY <1>1 DEF OrderState
  <1>3. Commit(s, Desk \ InRoom) /\ Announcing(task)
    BY DEF NewsSetStatus
  <1>4. task \in Task /\ task.phones = {state.captain} \cap Courier /\ task.pages
    BY States DEF ItsCaptain
  <1> HIDE DEF s, task
  <1> QED
    BY <1>1, <1>2, <1>3, <1>4, NamedKeeps

LEMMA OverrideKeeps ==
  ASSUME NewsInv, NEW next \in {"open", "offered", "working", "closed"}, Override(next)
  PROVE  NewsInv'
  <1>1. state \in OrderState
    BY DEF NewsInv, NewsTypeOK
  <1>2. PICK kept \in BOOLEAN :
         /\ Commit([state EXCEPT !.status = next, !.log = FALSE, !.captain = IF kept THEN @ ELSE NoCourier],
                   Desk \ InRoom)
         /\ Announcing([ToBoth(IF kept THEN {} ELSE ItsCaptain(state.captain)) EXCEPT !.reread = "any"])
    BY DEF Override
  <1> DEFINE s == [state EXCEPT !.status = next, !.log = FALSE, !.captain = IF kept THEN @ ELSE NoCourier]
             task == [ToBoth(IF kept THEN {} ELSE ItsCaptain(state.captain)) EXCEPT !.reread = "any"]
  <1>3. s \in OrderState /\ ~s.log /\ (IF kept THEN s.captain = state.captain ELSE s.captain = NoCourier)
    BY <1>1 DEF OrderState
  <1>4. /\ task \in Task /\ task.pages /\ task.reread = "any"
        /\ kept \/ task.phones = {state.captain} \cap Courier
    <2>1. (IF kept THEN {} ELSE ItsCaptain(state.captain)) \in SUBSET Courier
      BY DEF ItsCaptain
    <2> QED
      BY <2>1, Rereads DEF ItsCaptain
  <1>5. Commit(s, Desk \ InRoom) /\ Announcing(task)
    BY <1>2
  <1> HIDE DEF s, task
  <1> QED
    BY <1>3, <1>4, <1>5, NewsAssumption, NamedKeeps

LEMMA ArchiveKeeps ==
  ASSUME NewsInv, NewsArchive \/ NewsUnarchive
  PROVE  NewsInv'
  <1>1. state \in OrderState /\ (state.log => state.captain # NoCourier)
    BY DEF NewsInv, NewsTypeOK
  <1>2. PICK b \in BOOLEAN : Commit([state EXCEPT !.archived = b], Desk \ InRoom) /\ Announcing(ToPages)
    BY DEF NewsArchive, NewsUnarchive
  <1> DEFINE s == [state EXCEPT !.archived = b]
  <1>3. s \in OrderState /\ s.captain = state.captain /\ s.log = state.log /\ [s EXCEPT !.archived = state.archived] = state
    BY <1>1 DEF OrderState
  <1>4. Commit(s, Desk \ InRoom)
    BY <1>2
  <1> HIDE DEF s
  <1> QED
    BY <1>1, <1>2, <1>3, <1>4, States, NamedKeeps

LEMMA AnnounceKeeps ==
  ASSUME NewsInv, NEW task \in tasks, Announce(task)
  PROVE  NewsInv'
  <1>1. PICK deaf \in SUBSET Told(task) :
          news' = [v \in Viewer |-> IF v \in deaf THEN "missed" ELSE IF v \in Told(task) THEN "told" ELSE news[v]]
    BY DEF Announce, Told
  <1>2. state' = state /\ tasks' = tasks \ {task} /\ news \in [Viewer -> News]
    BY DEF Announce, NewsInv, NewsTypeOK
  <1>3. news' \in [Viewer -> News]
    BY <1>1, <1>2 DEF News
  <1>4. ASSUME NEW v \in Viewer, news'[v] = "behind" PROVE \E t \in tasks' : v \in Told(t)'
    <2>1. news[v] = "behind" /\ v \notin Told(task)
      BY <1>4, <1>1
    <2>2. PICK t \in tasks : v \in Told(t)
      BY <2>1 DEF NewsInv
    <2>3. t \in tasks' /\ v \in Told(t)'
      BY <2>1, <2>2, <1>2 DEF Told, Reread
    <2> QED
      BY <2>3
  <1> QED
    BY <1>2, <1>3, <1>4 DEF NewsInv, NewsTypeOK

LEMMA ScreensKeep ==
  ASSUME NewsInv, ApiStops \/ \E v \in Viewer : Heard(v) \/ PageHeard(v) \/ PhoneFetches(v) \/ PageFetches(v)
  PROVE  NewsInv'
  <1>1. CASE ApiStops
    BY <1>1 DEF ApiStops, NewsInv, NewsTypeOK, News
  <1>2. CASE \E v \in Viewer : Heard(v) \/ PageHeard(v) \/ PhoneFetches(v) \/ PageFetches(v)
    <2>1. PICK v \in Viewer : news' = [news EXCEPT ![v] = "current"] /\ state' = state /\ tasks' = tasks
      BY <1>2 DEF Heard, PageHeard, PhoneFetches, PageFetches
    <2>2. news' \in [Viewer -> News] /\ \A w \in Viewer : news'[w] = "behind" => news[w] = "behind"
      BY <2>1 DEF NewsInv, NewsTypeOK, News
    <2> QED
      BY <2>1, <2>2 DEF NewsInv, NewsTypeOK, Told, Reread
  <1> QED
    BY <1>1, <1>2

\* NewsInv holds always.
THEOREM NewsInvariance == NewsSpec => []NewsInv
  <1>1. NewsInit => NewsInv
    BY DEF NewsInit, NewsInv, NewsTypeOK, OrderState, News
  <1>2. NewsInv /\ [NewsNext]_newsVars => NewsInv'
    <2> SUFFICES ASSUME NewsInv, [NewsNext]_newsVars PROVE NewsInv'
      OBVIOUS
    <2>1. ASSUME NEW c \in Courier \cup {NoCourier},
                 NewsStartAuto(c) \/ NewsResend(c) \/ NewsAssignManual(c) \/ NewsReassign(c)
          PROVE  NewsInv'
      BY <2>1, DistributedKeeps DEF NewsStartAuto, NewsResend, NewsAssignManual, NewsReassign
    <2>2. CASE UNCHANGED newsVars
      BY <2>2 DEF newsVars, NewsInv, NewsTypeOK, Told, Reread
    <2> QED
      BY <2>1, <2>2, TickKeeps, RejectKeeps, SetStatusKeeps, OverrideKeeps, CancelKeeps, AcceptKeeps, ArchiveKeeps,
         AnnounceKeeps, ScreensKeep DEF NewsNext
  <1> QED
    BY <1>1, <1>2, PTL DEF NewsSpec

\* When every announcement is made, no screen that should know of a change is behind, for any number
\* of captains, of pages and of handlers between their commit and their announcement.
THEOREM NewsGetsThere == NewsSpec => []NewsReaches
  <1>1. NewsInv => NewsReaches
    BY DEF NewsInv, NewsReaches
  <1> QED
    BY <1>1, NewsInvariance, PTL

-----------------------------------------------------------------------------
(* OrderHistory, for any finite set of orders, any page size and any number of moves of   *)
(* the server's list.  What the list shows is computed: the server's order by counting     *)
(* who is newer, the screen's rows by joining pages.  Each is settled by taking the least  *)
(* number for which it would fail.                                                         *)

\* Of some numbers one is the least.
LEMMA Least ==
  ASSUME NEW S \in SUBSET Nat, S # {}
  PROVE  \E n \in S : \A m \in S : n <= m
  <1>1. PICK n \in S : \A m \in S : ~(<<m, n>> \in OpToRel(<, Nat))
    BY NatLessThanWellFounded, WFMin, Zenon
  <1>2. \A m \in S : ~(m < n)
    BY <1>1 DEF OpToRel
  <1> QED
    BY <1>2

\* The members of S above o, and whether k of them are above one of S.
Above(S, o) == {p \in S : p > o}
Ranked(S, k) == \E o \in S : Cardinality(Above(S, o)) = k

\* Each place below the number of members is somebody's: the least one has the last place, and
\* who has a place among the others has it with him too.
LEMMA PlacesTaken ==
  ASSUME NEW S \in SUBSET Nat, IsFiniteSet(S), NEW k \in Nat, k < Cardinality(S)
  PROVE  Ranked(S, k)
  <1> DEFINE Lacks(n) == \E T \in SUBSET S, j \in Nat : Cardinality(T) = n /\ j < n /\ ~Ranked(T, j)
             Bad == {n \in Nat : Lacks(n)}
  <1>0. \A T \in SUBSET S : IsFiniteSet(T) /\ Cardinality(T) \in Nat
    BY FS_Subset, FS_CardinalityType
  <1> SUFFICES ASSUME ~Ranked(S, k) PROVE FALSE
    OBVIOUS
  <1>1. Bad # {}
    <2>1. Lacks(Cardinality(S))
      OBVIOUS
    <2> QED
      BY <1>0, <2>1
  <1>2. PICK n \in Bad : \A m \in Bad : n <= m
    <2>1. Bad \in SUBSET Nat
      OBVIOUS
    <2> HIDE DEF Bad
    <2> QED
      BY <1>1, <2>1, Least
  <1>3. PICK T \in SUBSET S, j \in Nat : Cardinality(T) = n /\ j < n /\ ~Ranked(T, j)
    OBVIOUS
  <1>4. n \in Nat /\ \A m \in Nat : Lacks(m) => n <= m
    BY <1>2
  <1> HIDE DEF Bad, Lacks
  <1>5. T # {} /\ T \in SUBSET Nat /\ IsFiniteSet(T)
    BY <1>0, <1>3, <1>4, FS_EmptySet
  <1>6. PICK least \in T : \A p \in T : least <= p
    BY <1>5, Least
  <1> DEFINE Others == T \ {least}
  <1>7. IsFiniteSet(Others) /\ Cardinality(Others) = n - 1 /\ Others \in SUBSET S
    BY <1>3, <1>5, <1>6, FS_RemoveElement
  <1>8. CASE j = n - 1
    <2>1. Above(T, least) = Others
      <3>1. \A x \in T : x \in Nat
        BY <1>5
      <3>2. \A x \in T : x > least <=> x # least
        BY <1>6, <3>1
      <3> QED
        BY <3>2 DEF Above
    <2> QED
      BY <1>3, <1>6, <1>7, <1>8, <2>1 DEF Ranked
  <1>9. CASE j < n - 1
    <2>1. n - 1 \in Nat /\ ~(n <= n - 1)
      BY <1>3, <1>4
    <2>2. ~Lacks(n - 1)
      BY <1>4, <2>1
    <2>3. Ranked(Others, j)
      BY <1>3, <1>7, <1>9, <2>2 DEF Lacks
    <2>4. PICK o \in Others : Cardinality(Above(Others, o)) = j
      BY <2>3 DEF Ranked
    <2>5. Above(T, o) = Above(Others, o)
      BY <1>5, <1>6, <2>4 DEF Above
    <2> QED
      BY <1>3, <2>4, <2>5 DEF Ranked
  <1> QED
    BY <1>3, <1>4, <1>8, <1>9

\* Whoever is higher has fewer above him.
LEMMA HigherIsFirst ==
  ASSUME NEW S \in SUBSET Nat, IsFiniteSet(S), NEW o \in S, NEW p \in S, o > p
  PROVE  Cardinality(Above(S, o)) < Cardinality(Above(S, p))
  <1>1. Above(S, o) \in SUBSET Above(S, p) /\ o \in Above(S, p) /\ o \notin Above(S, o)
    <2>1. \A x \in S : x \in Nat
      OBVIOUS
    <2>2. \A x \in S : x > o => x > p
      BY <2>1
    <2>3. ~(o > o)
      BY <2>1
    <2> QED
      BY <2>2, <2>3 DEF Above
  <1>2. IsFiniteSet(Above(S, p)) /\ IsFiniteSet(Above(S, o))
    BY FS_Subset DEF Above
  <1>3. Cardinality(Above(S, o)) <= Cardinality(Above(S, p)) /\ Cardinality(Above(S, o)) # Cardinality(Above(S, p))
    BY <1>1, <1>2, FS_Subset
  <1>4. Cardinality(Above(S, o)) \in Nat /\ Cardinality(Above(S, p)) \in Nat
    BY <1>2, FS_CardinalityType
  <1> QED
    BY <1>3, <1>4

\* The server lists every order that matches, none twice, the newest first.
LEMMA ListInOrder ==
  ASSUME listed \in SUBSET Entry
  PROVE  /\ ServerList \in Seq(Entry) /\ Len(ServerList) = Cardinality(listed) /\ Len(ServerList) \in Nat
         /\ \A i, j \in 1 .. Len(ServerList) : i < j => ServerList[i] > ServerList[j]
         /\ {ServerList[i] : i \in 1 .. Len(ServerList)} = listed
  <1> DEFINE N == Cardinality(listed)
  <1>1. listed \in SUBSET Nat /\ IsFiniteSet(listed) /\ N \in Nat
    BY HistoryAssumption, FS_Subset, FS_CardinalityType
  <1>2. \A o : Newer(o) = Above(listed, o)
    BY DEF Newer, Above
  <1>3. ASSUME NEW i \in 1 .. N PROVE \E o \in listed : Cardinality(Newer(o)) = i - 1
    <2>1. i - 1 \in Nat /\ i - 1 < N
      BY <1>1
    <2> QED
      BY <1>1, <1>2, <2>1, PlacesTaken DEF Ranked
  <1>4. \A i \in 1 .. N : ServerList[i] \in listed /\ Cardinality(Newer(ServerList[i])) = i - 1
    BY <1>3 DEF ServerList
  <1>5. DOMAIN ServerList = 1 .. N
    BY DEF ServerList
  <1>6. ServerList \in [1 .. N -> listed]
    BY <1>4 DEF ServerList
  <1> HIDE DEF N
  <1>7. ServerList \in Seq(Entry) /\ Len(ServerList) = N
    <2>1. ServerList \in [1 .. N -> Entry]
      BY <1>6
    <2>2. N \in Nat
      BY <1>1
    <2> QED
      BY <2>1, <2>2
  <1>8. ASSUME NEW i \in 1 .. N, NEW j \in 1 .. N, i < j PROVE ServerList[i] > ServerList[j]
    <2>1. ServerList[i] \in listed /\ ServerList[j] \in listed /\ ServerList[i] \in Nat /\ ServerList[j] \in Nat
      BY <1>1, <1>4
    <2>2. Cardinality(Above(listed, ServerList[i])) = i - 1 /\ Cardinality(Above(listed, ServerList[j])) = j - 1
      BY <1>2, <1>4
    <2>3. CASE ServerList[j] > ServerList[i]
      <3>1. Cardinality(Above(listed, ServerList[j])) < Cardinality(Above(listed, ServerList[i]))
        BY <1>1, <2>1, <2>3, HigherIsFirst
      <3> QED
        BY <1>1, <1>8, <2>2, <3>1
    <2>4. CASE ServerList[j] = ServerList[i]
      BY <1>1, <1>8, <2>2, <2>4
    <2> QED
      BY <2>1, <2>3, <2>4
  <1>9. ASSUME NEW o \in listed PROVE \E i \in 1 .. N : ServerList[i] = o
    <2> DEFINE r == Cardinality(Above(listed, o))
    <2>1. r \in Nat /\ r < N
      <3>1. Above(listed, o) \in SUBSET listed /\ Above(listed, o) # listed
        BY <1>1 DEF Above
      <3>2. r \in Nat /\ r <= N /\ r # N
        BY <1>1, <3>1, FS_Subset, FS_CardinalityType DEF N
      <3> QED
        BY <1>1, <3>2
    <2>2. r + 1 \in 1 .. N
      BY <1>1, <2>1
    <2> DEFINE p == ServerList[r + 1]
    <2>3. p \in listed /\ Cardinality(Above(listed, p)) = r
      BY <1>2, <1>4, <2>1, <2>2
    <2>4. o \in Nat /\ p \in Nat
      BY <1>1, <2>3
    <2>5. ~(o > p)
      <3>1. o > p => r < Cardinality(Above(listed, p))
        BY <1>1, <2>3, HigherIsFirst
      <3> QED
        BY <2>1, <2>3, <3>1
    <2>6. ~(p > o)
      <3>1. p > o => Cardinality(Above(listed, p)) < r
        BY <1>1, <2>3, HigherIsFirst
      <3> QED
        BY <2>1, <2>3, <3>1
    <2> QED
      BY <2>2, <2>4, <2>5, <2>6
  <1> QED
    BY <1>1, <1>4, <1>7, <1>8, <1>9 DEF N

\* The lesser of two numbers.
LEMMA MinOfTwo ==
  ASSUME NEW a \in Int, NEW b \in Int
  PROVE  /\ Min({a, b}) \in {a, b} /\ Min({a, b}) \in Int
         /\ Min({a, b}) <= a /\ Min({a, b}) <= b
         /\ Min({a, b}) = IF a <= b THEN a ELSE b
  <1>1. \E m \in {a, b} : \A k \in {a, b} : m <= k
    <2>1. CASE a <= b
      BY <2>1
    <2>2. CASE ~(a <= b)
      BY <2>2
    <2> QED
      BY <2>1, <2>2
  <1>2. Min({a, b}) \in {a, b} /\ \A k \in {a, b} : Min({a, b}) <= k
    BY <1>1 DEF Min
  <1> QED
    BY <1>2

\* What n pages hold of N rows.
UpTo(n, N) == Min({n * PageSize, N})

\* Where the pages begin and end in a list of N rows.
LEMMA PageEnds ==
  ASSUME NEW i \in Nat \ {0}, NEW N \in Nat
  PROVE  /\ Skip(i) \in Nat /\ Skip(i) + PageSize = i * PageSize
         /\ UpTo(i - 1, N) \in Nat /\ UpTo(i, N) \in Nat
         /\ UpTo(i - 1, N) <= UpTo(i, N) /\ UpTo(i, N) <= N
         /\ UpTo(i, N) = Min({Skip(i) + PageSize, N})
         /\ UpTo(i - 1, N) = IF Skip(i) <= N THEN Skip(i) ELSE N
         /\ UpTo(i, N) = IF Skip(i) + PageSize <= N THEN Skip(i) + PageSize ELSE N
  <1>1. PageSize \in Nat \ {0}
    BY HistoryAssumption
  <1>2. PICK k \in Nat : k = i - 1
    OBVIOUS
  <1>3. k * PageSize \in Nat
    BY <1>1, <1>2
  <1>4. i * PageSize = k * PageSize + PageSize
    <2>1. i = k + 1
      BY <1>2
    <2>2. (k + 1) * PageSize = k * PageSize + PageSize
      BY <1>1
    <2> QED
      BY <2>1, <2>2
  <1>5. Skip(i) = k * PageSize
    BY <1>2 DEF Skip
  <1>6. Skip(i) \in Nat /\ Skip(i) + PageSize = i * PageSize
    BY <1>3, <1>4, <1>5
  <1>7. i * PageSize \in Nat
    BY <1>1, <1>3, <1>4
  <1>8. UpTo(i - 1, N) = IF k * PageSize <= N THEN k * PageSize ELSE N
    <2>1. ASSUME NEW a \in Int PROVE Min({a, N}) = IF a <= N THEN a ELSE N
      <3>1. N \in Int
        OBVIOUS
      <3> QED
        BY <3>1, MinOfTwo
    <2>2. UpTo(i - 1, N) = Min({k * PageSize, N})
      BY <1>2 DEF UpTo
    <2> QED
      BY <1>3, <2>1, <2>2
  <1>9. UpTo(i, N) = IF i * PageSize <= N THEN i * PageSize ELSE N
    <2>1. ASSUME NEW a \in Int PROVE Min({a, N}) = IF a <= N THEN a ELSE N
      <3>1. N \in Int
        OBVIOUS
      <3> QED
        BY <3>1, MinOfTwo
    <2> QED
      BY <1>7, <2>1 DEF UpTo
  <1>10. UpTo(i, N) = Min({Skip(i) + PageSize, N})
    BY <1>6 DEF UpTo
  <1>11. /\ UpTo(i - 1, N) \in Nat /\ UpTo(i, N) \in Nat
         /\ UpTo(i - 1, N) <= UpTo(i, N) /\ UpTo(i, N) <= N
    BY <1>1, <1>3, <1>4, <1>7, <1>8, <1>9
  <1>12. UpTo(i - 1, N) = IF Skip(i) <= N THEN Skip(i) ELSE N
    BY <1>5, <1>8
  <1>13. UpTo(i, N) = IF Skip(i) + PageSize <= N THEN Skip(i) + PageSize ELSE N
    BY <1>6, <1>9
  <1> QED
    BY <1>6, <1>10, <1>11, <1>12, <1>13

\* The i-th page goes on where the pages before it end.
LEMMA NextPageJoins ==
  ASSUME NEW T, NEW L \in Seq(T), NEW i \in Nat \ {0}
  PROVE  SubSeq(L, 1, UpTo(i - 1, Len(L))) \o SubSeq(L, Skip(i) + 1, Min({Skip(i) + PageSize, Len(L)}))
           = SubSeq(L, 1, UpTo(i, Len(L)))
  <1> DEFINE N == Len(L)
  <1>1. N \in Nat
    OBVIOUS
  <1>2. /\ Skip(i) \in Nat
        /\ UpTo(i - 1, N) \in Nat /\ UpTo(i, N) \in Nat
        /\ UpTo(i - 1, N) <= UpTo(i, N) /\ UpTo(i, N) <= N
        /\ UpTo(i, N) = Min({Skip(i) + PageSize, N})
        /\ UpTo(i - 1, N) = IF Skip(i) <= N THEN Skip(i) ELSE N
    BY <1>1, PageEnds
  <1>3. UpTo(i, N) = IF Skip(i) + PageSize <= N THEN Skip(i) + PageSize ELSE N
    BY <1>1, PageEnds
  <1>4. PICK k \in Nat, e \in Nat : k = UpTo(i - 1, N) /\ e = UpTo(i, N)
    BY <1>2
  <1>5. CASE Skip(i) <= N
    <2>1. k = Skip(i)
      BY <1>2, <1>4, <1>5
    <2>2. SubSeq(L, 1, k) \o SubSeq(L, k + 1, e) = SubSeq(L, 1, e)
      <3>1. 1 \in 1 .. N + 1 /\ k \in 1 - 1 .. N /\ e \in k .. N
        BY <1>1, <1>2, <1>4
      <3> QED
        BY <3>1, ConcatAdjacentSubSeq
    <2> QED
      BY <1>2, <1>4, <2>1, <2>2
  <1>6. CASE ~(Skip(i) <= N)
    <2>1. k = N /\ e = N
      BY <1>1, <1>2, <1>4, <1>6
    <2>2. SubSeq(L, Skip(i) + 1, e) = <<>>
      <3>1. Skip(i) + 1 \in Int /\ e \in Int /\ e < Skip(i) + 1
        BY <1>1, <1>2, <1>6, <2>1
      <3> QED
        BY <3>1, SubSeqEmpty
    <2>3. SubSeq(L, 1, N) \o <<>> = SubSeq(L, 1, N)
      <3>1. SubSeq(L, 1, N) \in Seq(T)
        <4>1. \A m \in 1 .. N : L[m] \in T
          OBVIOUS
        <4> QED
          BY <1>1, <4>1, SubSeqProperties
      <3> QED
        BY <3>1
    <2> QED
      BY <1>2, <1>4, <2>1, <2>2, <2>3
  <1> QED
    BY <1>5, <1>6

\* The first n pages of a list, joined, are its top: the recursion that joins them has that one
\* solution.
LEMMA PagesJoin ==
  ASSUME NEW T, NEW L \in Seq(T), NEW n \in Nat \ {0}, NEW seqs, Len(seqs) = n,
         \A i \in 1 .. n : seqs[i] = SubSeq(L, Skip(i) + 1, Min({Skip(i) + PageSize, Len(L)}))
  PROVE  FlattenSeq(seqs) = SubSeq(L, 1, UpTo(n, Len(L)))
  <1> DEFINE Solves(f) == f = [i \in 1 .. n |-> IF i = 1 THEN seqs[i] ELSE f[i - 1] \o seqs[i]]
             g == CHOOSE f : Solves(f)
             top == [i \in 1 .. n |-> SubSeq(L, 1, UpTo(i, Len(L)))]
  <1>0. Len(L) \in Nat
    OBVIOUS
  <1>1. ASSUME NEW i \in 1 .. n
        PROVE  top[i] = IF i = 1 THEN seqs[i] ELSE top[i - 1] \o seqs[i]
    <2>1. CASE i = 1
      <3>1. Skip(1) = 0
        BY HistoryAssumption DEF Skip
      <3>2. UpTo(1, Len(L)) = Min({Skip(1) + PageSize, Len(L)})
        BY <1>0, PageEnds
      <3>3. 1 \in 1 .. n
        OBVIOUS
      <3>7. top[1] = SubSeq(L, 1, UpTo(1, Len(L)))
        BY <3>3
      <3>4. seqs[1] = SubSeq(L, Skip(1) + 1, Min({Skip(1) + PageSize, Len(L)}))
        BY <3>3
      <3>5. Skip(1) + 1 = 1
        BY <3>1
      <3>6. top[1] = seqs[1]
        BY <3>2, <3>4, <3>5, <3>7
      <3> HIDE DEF top
      <3> QED
        BY <2>1, <3>6
    <2>2. CASE i # 1
      <3>1. i - 1 \in 1 .. n /\ i \in Nat \ {0}
        BY <2>2
      <3> QED
        BY <2>2, <3>1, NextPageJoins
    <2> QED
      BY <2>1, <2>2
  <1>2. Solves(top)
    <2>1. top = [i \in 1 .. n |-> IF i = 1 THEN seqs[i] ELSE top[i - 1] \o seqs[i]]
      <3>1. DOMAIN top = 1 .. n /\ top = [i \in 1 .. n |-> top[i]]
        OBVIOUS
      <3> HIDE DEF top
      <3> QED
        BY <1>1, <3>1
    <2> QED
      BY <2>1
  <1> HIDE DEF top
  <1>3. Solves(g)
    BY <1>2
  <1>4. FlattenSeq(seqs) = g[n]
    BY DEF FlattenSeq
  <1> HIDE DEF g
  <1>5. \A i \in 1 .. n : g[i] = IF i = 1 THEN seqs[i] ELSE g[i - 1] \o seqs[i]
    BY <1>3
  <1> HIDE DEF Solves
  <1> DEFINE Differ == {i \in 1 .. n : g[i] # top[i]}
  <1>6. Differ = {}
    <2> SUFFICES ASSUME Differ # {} PROVE FALSE
      OBVIOUS
    <2>1. PICK i \in Differ : \A m \in Differ : i <= m
      <3>1. Differ \in SUBSET Nat
        OBVIOUS
      <3> HIDE DEF Differ
      <3> QED
        BY <3>1, Least
    <2>2. i \in 1 .. n /\ g[i] # top[i]
      OBVIOUS
    <2>3. CASE i = 1
      BY <1>1, <1>5, <2>2, <2>3
    <2>4. CASE i # 1
      <3>1. g[i - 1] = top[i - 1]
        BY <2>1, <2>2, <2>4
      <3> QED
        BY <1>1, <1>5, <2>2, <2>4, <3>1
    <2> QED
      BY <2>3, <2>4
  <1>7. g[n] = top[n]
    BY <1>6
  <1>8. n \in 1 .. n
    OBVIOUS
  <1>9. top[n] = SubSeq(L, 1, UpTo(n, Len(L)))
    BY <1>8 DEF top
  <1> QED
    BY <1>4, <1>7, <1>9

\* There is a page after the n-th exactly when n pages do not hold all.
LEMMA MorePages ==
  ASSUME NEW n \in Nat, NEW N \in Nat
  PROVE  n < (N + PageSize - 1) \div PageSize <=> n * PageSize < N
  <1>1. PageSize \in Nat \ {0}
    BY HistoryAssumption
  <1>2. PICK P \in Nat : P = PageSize /\ P >= 1
    BY <1>1
  <1>3. PICK q \in Int : q = (N + P - 1) \div P
    BY <1>2
  <1>4. P * q <= N + P - 1 /\ N + P - 1 < P * q + P
    BY <1>2, <1>3
  <1>5. ASSUME n < q PROVE n * P < N
    <2>1. PICK d \in Nat : q = n + 1 + d
      BY <1>5
    <2>2. P * q = P * n + P + P * d /\ P * d >= 0 /\ n * P = P * n /\ P * n \in Int /\ P * d \in Int
      BY <1>2, <2>1
    <2> QED
      BY <1>2, <1>4, <2>2
  <1>6. ASSUME ~(n < q) PROVE ~(n * P < N)
    <2>1. PICK d \in Nat : n = q + d
      BY <1>6
    <2>2. n * P = P * q + P * d /\ P * d >= 0 /\ P * q \in Int /\ P * d \in Int
      BY <1>2, <2>1
    <2> QED
      BY <1>2, <1>4, <2>2
  <1> QED
    BY <1>2, <1>3, <1>5, <1>6

\* A page the list has not moved since: what the server counts and serves now.
Fresh(p) == ~p.old => p.total = Cardinality(listed) /\ p.items = ServedRows(p.no)

\* Pages one after another from the first one.
Numbered(ps) == \A i \in 1 .. Len(ps) : ps[i].no = i /\ Fresh(ps[i])

HistoryInv ==
    /\ HistoryTypeOK
    /\ Numbered(pages) /\ Numbered(paging.got)
    /\ paging.at # "none" => paging.page.no = Len(paging.got) + 1
    /\ paging.at = "rows" /\ ~paging.page.old => paging.page.total = Cardinality(listed)
    /\ paging.at = "answer" => Fresh(paging.page)

LEMMA CountIsNat ==
  ASSUME listed \subseteq Entry
  PROVE  Cardinality(listed) \in Nat
  BY HistoryAssumption, FS_Subset, FS_CardinalityType

LEMMA RowsOfTheList ==
  ASSUME listed \subseteq Entry, NEW n \in Nat \ {0}
  PROVE  ServedRows(n) \in Seq(Entry)
  <1>1. ServerList \in Seq(Entry) /\ Len(ServerList) \in Nat
    BY ListInOrder
  <1>2. PICK from \in Nat, to \in Nat : /\ from = Skip(n) /\ to = Min({Skip(n) + PageSize, Len(ServerList)})
                                        /\ to <= Len(ServerList)
    <2>1. Skip(n) \in Nat /\ UpTo(n, Len(ServerList)) \in Nat
          /\ UpTo(n, Len(ServerList)) <= Len(ServerList)
          /\ UpTo(n, Len(ServerList)) = Min({Skip(n) + PageSize, Len(ServerList)})
      BY <1>1, PageEnds
    <2> QED
      BY <2>1
  <1>3. from + 1 \in Int /\ \A i \in from + 1 .. to : ServerList[i] \in Entry
    BY <1>1, <1>2
  <1>4. SubSeq(ServerList, from + 1, to) \in Seq(Entry)
    BY <1>3, SubSeqProperties
  <1> QED
    BY <1>2, <1>4 DEF ServedRows

\* A step that moves nothing in the server's list leaves what is fresh fresh.
LEMMA StillFresh ==
  ASSUME UNCHANGED listed
  PROVE  /\ \A p : Fresh(p)' <=> Fresh(p)
         /\ \A ps : Numbered(ps)' <=> Numbered(ps)
  <1>1. \A o : Newer(o)' = Newer(o)
    BY DEF Newer
  <1>2. ServerList' = ServerList
    BY DEF ServerList, Newer
  <1>3. \A n : ServedRows(n)' = ServedRows(n)
    BY <1>2 DEF ServedRows
  <1>4. \A p : Fresh(p)' <=> Fresh(p)
    BY <1>3 DEF Fresh
  <1> QED
    BY <1>4 DEF Numbered

LEMMA InitHistory == HistoryInit => HistoryInv
  <1> SUFFICES ASSUME HistoryInit PROVE HistoryInv
    OBVIOUS
  <1>1. NoPage \in Page
    <2>1. <<>> \in Seq(Entry)
      OBVIOUS
    <2> QED
      BY <2>1 DEF NoPage, Page
  <1>2. NotPaging \in Paging /\ NotPaging.at = "none" /\ NotPaging.got = <<>>
    <2>1. <<>> \in Seq(Page)
      OBVIOUS
    <2> QED
      BY <1>1, <2>1 DEF NotPaging, Paging
  <1>3. pages \in Seq(Page) /\ pages = <<>>
    BY DEF HistoryInit
  <1>4. HistoryTypeOK
    BY <1>2, <1>3, HistoryAssumption DEF HistoryInit, HistoryTypeOK
  <1>5. Numbered(<<>>)
    BY DEF Numbered
  <1> QED
    BY <1>2, <1>3, <1>4, <1>5 DEF HistoryInit, HistoryInv

LEMMA AgedPages ==
  ASSUME NEW ps \in Seq(Page)
  PROVE  LET aged == [i \in DOMAIN ps |-> Aged(ps[i])]
         IN  /\ aged \in Seq(Page) /\ Len(aged) = Len(ps)
             /\ \A i \in 1 .. Len(ps) : aged[i].no = ps[i].no /\ aged[i].old
  <1> DEFINE aged == [i \in DOMAIN ps |-> Aged(ps[i])]
  <1>1. Len(ps) \in Nat /\ DOMAIN ps = 1 .. Len(ps)
    OBVIOUS
  <1>2. ASSUME NEW i \in 1 .. Len(ps)
        PROVE  aged[i] \in Page /\ aged[i].no = ps[i].no /\ aged[i].old
    <2>1. ps[i] \in Page
      BY <1>1
    <2>2. aged[i] = [ps[i] EXCEPT !.old = TRUE]
      BY <1>1 DEF Aged
    <2> QED
      BY <2>1, <2>2 DEF Page
  <1>3. aged \in [1 .. Len(ps) -> Page]
    <2>1. DOMAIN aged = 1 .. Len(ps) /\ aged = [i \in 1 .. Len(ps) |-> aged[i]]
      BY <1>1
    <2> HIDE DEF aged
    <2> QED
      BY <1>2, <2>1
  <1> HIDE DEF aged
  <1>4. aged \in Seq(Page) /\ Len(aged) = Len(ps)
    BY <1>1, <1>3
  <1> QED
    BY <1>2, <1>4 DEF aged

\* A new page asked for behind the pages there are.
LEMMA AskPageKeeps ==
  ASSUME HistoryInv, NEW got \in Seq(Page), Numbered(got), NEW more \in BOOLEAN,
         AskPage(Len(got) + 1, more, got), UNCHANGED <<listed, pages, moves>>
  PROVE  HistoryInv'
  <1>1. Len(got) + 1 \in Nat
    OBVIOUS
  <1> DEFINE page == [NoPage EXCEPT !.no = Len(got) + 1]
  <1>2. page \in Page /\ page.no = Len(got) + 1
    <2>1. <<>> \in Seq(Entry)
      OBVIOUS
    <2> QED
      BY <1>1, <2>1 DEF NoPage, Page
  <1>3. paging' = [at |-> "count", more |-> more, page |-> page, got |-> got]
    BY DEF AskPage
  <1> HIDE DEF page
  <1>4. paging' \in Paging /\ paging'.at = "count" /\ paging'.page = page /\ paging'.got = got
    BY <1>2, <1>3 DEF Paging
  <1>5. HistoryTypeOK'
    BY <1>4 DEF HistoryInv, HistoryTypeOK
  <1>6. Numbered(pages)' /\ Numbered(paging.got)'
    <2>1. Numbered(pages)
      BY DEF HistoryInv
    <2>2. Numbered(pages)' /\ Numbered(got)'
      BY <2>1, StillFresh DEF Numbered
    <2> QED
      BY <1>4, <2>2 DEF Numbered
  <1> QED
    BY <1>2, <1>4, <1>5, <1>6 DEF HistoryInv

LEMMA CountKeeps == HistoryInv /\ Counts => HistoryInv'
  <1> SUFFICES ASSUME HistoryInv, Counts PROVE HistoryInv'
    OBVIOUS
  <1>1. paging \in Paging /\ paging.at = "count" /\ Cardinality(listed) \in Nat
    BY CountIsNat DEF HistoryInv, HistoryTypeOK, Counts
  <1>2. paging.page \in Page
    BY <1>1 DEF Paging
  <1> DEFINE counted == [paging.page EXCEPT !.total = Cardinality(listed), !.old = FALSE]
  <1>3. counted \in Page /\ counted.no = paging.page.no /\ counted.total = Cardinality(listed)
    BY <1>1, <1>2 DEF Page
  <1>4. paging' = [paging EXCEPT !.at = "rows", !.page = counted]
    BY <1>1, <1>2 DEF Counts, Paging, Page
  <1> HIDE DEF counted
  <1>5. /\ paging' \in Paging /\ paging'.at = "rows" /\ paging'.page = counted
        /\ paging'.got = paging.got
    BY <1>1, <1>3, <1>4 DEF Paging
  <1>6. HistoryTypeOK'
    BY <1>5 DEF HistoryInv, HistoryTypeOK, Counts
  <1>7. UNCHANGED <<listed, pages>>
    BY DEF Counts
  <1>8. Numbered(pages)' /\ Numbered(paging.got)'
    <2>1. Numbered(pages) /\ Numbered(paging.got)
      BY DEF HistoryInv
    <2> QED
      BY <1>5, <1>7, <2>1, StillFresh DEF Numbered
  <1>9. counted.no = Len(paging'.got) + 1
    BY <1>1, <1>3, <1>5 DEF HistoryInv
  <1> QED
    BY <1>3, <1>5, <1>6, <1>7, <1>8, <1>9 DEF HistoryInv

LEMMA ReadKeeps == HistoryInv /\ ReadsRows => HistoryInv'
  <1> SUFFICES ASSUME HistoryInv, ReadsRows PROVE HistoryInv'
    OBVIOUS
  <1>1. paging \in Paging /\ paging.at = "rows"
    BY DEF HistoryInv, HistoryTypeOK, ReadsRows
  <1>2. paging.page \in Page /\ paging.got \in Seq(Page)
    BY <1>1 DEF Paging
  <1>3. paging.page.no = Len(paging.got) + 1 /\ paging.page.no \in Nat \ {0}
    <2>1. paging.page.no = Len(paging.got) + 1
      BY <1>1 DEF HistoryInv
    <2>2. Len(paging.got) \in Nat
      BY <1>2
    <2> QED
      BY <2>1, <2>2
  <1>4. ServedRows(paging.page.no) \in Seq(Entry)
    BY <1>3, RowsOfTheList DEF HistoryInv, HistoryTypeOK
  <1> DEFINE filled == [paging.page EXCEPT !.items = ServedRows(paging.page.no)]
  <1>5. PICK read \in Page :
           /\ read = filled
           /\ read.no = paging.page.no /\ read.items = ServedRows(read.no)
           /\ read.total = paging.page.total /\ read.old = paging.page.old
    <2>1. /\ filled \in Page /\ filled.no = paging.page.no /\ filled.items = ServedRows(filled.no)
          /\ filled.total = paging.page.total /\ filled.old = paging.page.old
      BY <1>2, <1>4 DEF Page
    <2> HIDE DEF filled
    <2> QED
      BY <2>1
  <1>6. paging' = [paging EXCEPT !.at = "answer", !.page = read]
    BY <1>1, <1>2, <1>5 DEF ReadsRows, Paging, Page
  <1>7. /\ paging' \in Paging /\ paging'.at = "answer" /\ paging'.page = read
        /\ paging'.got = paging.got
    BY <1>1, <1>6 DEF Paging
  <1>8. HistoryTypeOK'
    BY <1>7 DEF HistoryInv, HistoryTypeOK, ReadsRows
  <1>9. UNCHANGED <<listed, pages>>
    BY DEF ReadsRows
  <1>10. Numbered(pages)' /\ Numbered(paging.got)'
    <2>1. Numbered(pages) /\ Numbered(paging.got)
      BY DEF HistoryInv
    <2> QED
      BY <1>7, <1>9, <2>1, StillFresh DEF Numbered
  <1>11. Fresh(read)'
    <2>1. Fresh(read)
      BY <1>1, <1>5 DEF HistoryInv, Fresh
    <2> QED
      BY <1>9, <2>1, StillFresh
  <1>12. Fresh(paging.page)'
    BY <1>7, <1>11 DEF Fresh
  <1> QED
    BY <1>3, <1>5, <1>7, <1>8, <1>10, <1>12 DEF HistoryInv

LEMMA MoveKeeps ==
  ASSUME HistoryInv, NEW o \in Entry, ListMoves(o)
  PROVE  HistoryInv'
  <1>1. paging \in Paging /\ pages \in Seq(Page) /\ paging.page \in Page /\ paging.got \in Seq(Page)
    BY DEF HistoryInv, HistoryTypeOK, Paging
  <1> DEFINE page == IF paging.at \in {"rows", "answer"} THEN Aged(paging.page) ELSE paging.page
             got == [i \in DOMAIN paging.got |-> Aged(paging.got[i])]
             shown == [i \in DOMAIN pages |-> Aged(pages[i])]
  <1>2. page \in Page /\ page.no = paging.page.no /\ (paging.at \in {"rows", "answer"} => page.old)
    BY <1>1 DEF Aged, Page
  <1>3. /\ got \in Seq(Page) /\ Len(got) = Len(paging.got)
        /\ \A i \in 1 .. Len(got) : got[i].no = paging.got[i].no /\ got[i].old
    BY <1>1, AgedPages
  <1>4. /\ shown \in Seq(Page) /\ Len(shown) = Len(pages)
        /\ \A i \in 1 .. Len(shown) : shown[i].no = pages[i].no /\ shown[i].old
    BY <1>1, AgedPages
  <1>5. paging' = [paging EXCEPT !.page = page, !.got = got] /\ pages' = shown
    BY <1>1 DEF ListMoves, Paging
  <1> HIDE DEF page, got, shown
  <1>6. /\ paging' \in Paging /\ paging'.at = paging.at /\ paging'.page = page
        /\ paging'.got = got
    BY <1>1, <1>2, <1>3, <1>5 DEF Paging
  <1>7. HistoryTypeOK'
    <2>1. moves' \in 0 .. MaxMoves
      BY HistoryAssumption DEF ListMoves, HistoryInv, HistoryTypeOK
    <2>2. listed' \subseteq Entry
      BY DEF ListMoves, HistoryInv, HistoryTypeOK
    <2> QED
      BY <1>4, <1>5, <1>6, <2>1, <2>2 DEF HistoryTypeOK
  <1>8. Numbered(pages)'
    BY <1>4, <1>5 DEF HistoryInv, Numbered, Fresh
  <1>9. Numbered(paging.got)'
    BY <1>3, <1>6 DEF HistoryInv, Numbered, Fresh
  <1>10. paging'.at # "none" => paging'.page.no = Len(paging'.got) + 1
    BY <1>2, <1>3, <1>6 DEF HistoryInv
  <1> QED
    BY <1>2, <1>6, <1>7, <1>8, <1>9, <1>10 DEF HistoryInv, Fresh

LEMMA RefetchKeeps == HistoryInv /\ Refetch => HistoryInv'
  <1> SUFFICES ASSUME HistoryInv, Refetch PROVE HistoryInv'
    OBVIOUS
  <1>1. <<>> \in Seq(Page) /\ Len(<<>>) + 1 = 1
    OBVIOUS
  <1>2. Numbered(<<>>)
    BY DEF Numbered
  <1>3. AskPage(Len(<<>>) + 1, FALSE, <<>>) /\ UNCHANGED <<listed, pages, moves>>
    BY <1>1 DEF Refetch
  <1> QED
    BY <1>1, <1>2, <1>3, AskPageKeeps

\* The last of some numbered pages has the number of them.
LEMMA LastIsNumbered ==
  ASSUME NEW ps \in Seq(Page), Numbered(ps), ps # <<>>
  PROVE  Last(ps) = ps[Len(ps)] /\ Last(ps).no = Len(ps) /\ Len(ps) \in Nat \ {0} /\ Fresh(Last(ps))
  <1>1. Len(ps) \in Nat \ {0}
    OBVIOUS
  <1>2. Last(ps) = ps[Len(ps)] /\ Len(ps) \in 1 .. Len(ps)
    BY <1>1 DEF Last
  <1> QED
    BY <1>1, <1>2 DEF Numbered

LEMMA MoreKeeps == HistoryInv /\ LoadMore => HistoryInv'
  <1> SUFFICES ASSUME HistoryInv, LoadMore PROVE HistoryInv'
    OBVIOUS
  <1>1. pages \in Seq(Page) /\ Numbered(pages) /\ pages # <<>>
    BY DEF HistoryInv, HistoryTypeOK, LoadMore, HasNext
  <1>2. Last(pages).no = Len(pages)
    BY <1>1, LastIsNumbered
  <1>3. AskPage(Len(pages) + 1, TRUE, pages) /\ UNCHANGED <<listed, pages, moves>>
    BY <1>2 DEF LoadMore
  <1> QED
    BY <1>1, <1>3, AskPageKeeps

LEMMA EndKeeps ==
  ASSUME HistoryInv, NEW ps \in Seq(Page), Numbered(ps),
         pages' = ps, paging' = NotPaging, UNCHANGED <<listed, moves>>
  PROVE  HistoryInv'
  <1>1. NotPaging \in Paging /\ NotPaging.at = "none" /\ NotPaging.got = <<>>
    <2>1. <<>> \in Seq(Page) /\ <<>> \in Seq(Entry)
      OBVIOUS
    <2>2. NoPage \in Page
      BY <2>1 DEF NoPage, Page
    <2> QED
      BY <2>1, <2>2 DEF NotPaging, Paging
  <1>2. HistoryTypeOK'
    BY <1>1 DEF HistoryInv, HistoryTypeOK
  <1>3. Numbered(pages)'
    <2>1. Numbered(ps)'
      BY StillFresh
    <2> QED
      BY <2>1 DEF Numbered
  <1>4. Numbered(paging.got)'
    BY <1>1 DEF Numbered
  <1> QED
    BY <1>1, <1>2, <1>3, <1>4 DEF HistoryInv

LEMMA ArriveKeeps == HistoryInv /\ PageArrives => HistoryInv'
  <1> SUFFICES ASSUME HistoryInv, PageArrives PROVE HistoryInv'
    OBVIOUS
  <1>1. /\ paging \in Paging /\ paging.page \in Page /\ paging.got \in Seq(Page)
        /\ paging.at = "answer" /\ UNCHANGED <<listed, moves>>
    BY DEF HistoryInv, HistoryTypeOK, Paging, PageArrives
  <1>2. Numbered(paging.got) /\ paging.page.no = Len(paging.got) + 1 /\ Fresh(paging.page)
    BY <1>1 DEF HistoryInv
  <1> DEFINE got == Append(paging.got, paging.page)
  <1>3. got \in Seq(Page) /\ Len(got) = Len(paging.got) + 1 /\ got # <<>>
    BY <1>1
  <1>4. Numbered(got)
    <2>1. ASSUME NEW i \in 1 .. Len(got) PROVE got[i].no = i /\ Fresh(got[i])
      <3>1. CASE i = Len(got)
        <4>1. got[i] = paging.page
          BY <1>1, <1>3, <3>1
        <4> HIDE DEF got
        <4> QED
          BY <1>2, <1>3, <3>1, <4>1
      <3>2. CASE i # Len(got)
        <4>1. i \in 1 .. Len(paging.got) /\ got[i] = paging.got[i]
          BY <1>1, <1>3, <3>2
        <4> HIDE DEF got
        <4> QED
          BY <1>2, <4>1 DEF Numbered
      <3> QED
        BY <3>1, <3>2
    <2> HIDE DEF got
    <2> QED
      BY <2>1 DEF Numbered
  <1>5. \/ AskPage(Last(got).no + 1, FALSE, got) /\ UNCHANGED pages
        \/ pages' = got /\ paging' = NotPaging
    BY DEF PageArrives
  <1> HIDE DEF got
  <1>6. Last(got).no = Len(got)
    BY <1>3, <1>4, LastIsNumbered
  <1>7. CASE AskPage(Last(got).no + 1, FALSE, got) /\ UNCHANGED pages
    BY <1>1, <1>3, <1>4, <1>6, <1>7, AskPageKeeps
  <1>8. CASE pages' = got /\ paging' = NotPaging
    BY <1>1, <1>3, <1>4, <1>8, EndKeeps
  <1> QED
    BY <1>5, <1>7, <1>8

LEMMA FailKeeps == HistoryInv /\ PageFails => HistoryInv'
  <1> SUFFICES ASSUME HistoryInv, PageFails PROVE HistoryInv'
    OBVIOUS
  <1>1. pages \in Seq(Page) /\ Numbered(pages)
    BY DEF HistoryInv, HistoryTypeOK
  <1>2. pages' = pages /\ paging' = NotPaging /\ UNCHANGED <<listed, moves>>
    BY DEF PageFails
  <1> QED
    BY <1>1, <1>2, EndKeeps

LEMMA HistoryStutters == HistoryInv /\ UNCHANGED historyVars => HistoryInv'
  <1> SUFFICES ASSUME HistoryInv, UNCHANGED historyVars PROVE HistoryInv'
    OBVIOUS
  <1>1. UNCHANGED <<listed, pages, paging, moves>>
    BY DEF historyVars
  <1>2. Numbered(pages)' /\ Numbered(paging.got)' /\ (Fresh(paging.page)' <=> Fresh(paging.page))
    <2>1. Numbered(pages) /\ Numbered(paging.got)
      BY DEF HistoryInv
    <2> QED
      BY <1>1, <2>1, StillFresh DEF Numbered, Fresh
  <1> QED
    BY <1>1, <1>2 DEF HistoryInv, HistoryTypeOK

\* The list of orders keeps its invariant: every page the phone holds or is fetching has the
\* number of its place, and what it got since the server's list last moved is what the server
\* counts and serves now.
THEOREM HistoryInvariance == HistorySpec => []HistoryInv
  <1>1. HistoryInv /\ [HistoryNext]_historyVars => HistoryInv'
    <2> SUFFICES ASSUME HistoryInv, [HistoryNext]_historyVars PROVE HistoryInv'
      OBVIOUS
    <2>1. CASE \E o \in Entry : ListMoves(o)
      BY <2>1, MoveKeeps
    <2>2. CASE Counts
      BY <2>2, CountKeeps
    <2>3. CASE ReadsRows
      BY <2>3, ReadKeeps
    <2>4. CASE Refetch
      BY <2>4, RefetchKeeps
    <2>5. CASE LoadMore
      BY <2>5, MoreKeeps
    <2>6. CASE PageArrives
      BY <2>6, ArriveKeeps
    <2>7. CASE PageFails
      BY <2>7, FailKeeps
    <2>8. CASE UNCHANGED historyVars
      BY <2>8, HistoryStutters
    <2> QED
      BY <2>1, <2>2, <2>3, <2>4, <2>5, <2>6, <2>7, <2>8 DEF HistoryNext
  <1> QED
    BY <1>1, InitHistory, PTL DEF HistorySpec

\* Fresh pages, numbered from 1, together are the top of the server's list.
LEMMA FreshIsPrefix ==
  ASSUME HistoryInv, pages # <<>>, \A i \in DOMAIN pages : ~pages[i].old
  PROVE  LET n == Len(pages)  N == Len(ServerList)
         IN  /\ Items = SubSeq(ServerList, 1, Min({n * PageSize, N}))
             /\ Len(Items) = Min({n * PageSize, N})
             /\ HasNext(pages) <=> n * PageSize < N
  <1>1. /\ pages \in Seq(Page) /\ Numbered(pages)
        /\ ServerList \in Seq(Entry) /\ Len(ServerList) = Cardinality(listed) /\ Len(ServerList) \in Nat
    BY ListInOrder DEF HistoryInv, HistoryTypeOK
  <1>2. PICK n \in Nat \ {0}, N \in Nat : n = Len(pages) /\ N = Len(ServerList)
    BY <1>1
  <1> DEFINE served == [i \in DOMAIN pages |-> pages[i].items]
  <1>3. Len(served) = n /\ \A i \in 1 .. n : served[i] = ServedRows(i)
    <2>1. DOMAIN pages = 1 .. n
      BY <1>1, <1>2
    <2>2. \A i \in 1 .. n : pages[i].no = i /\ pages[i].items = ServedRows(i)
      BY <1>1, <1>2, <2>1 DEF Numbered, Fresh
    <2> QED
      BY <2>1, <2>2
  <1> HIDE DEF served
  <1>4. FlattenSeq(served) = SubSeq(ServerList, 1, UpTo(n, Len(ServerList)))
    <2>1. \A i \in 1 .. n : served[i] = SubSeq(ServerList, Skip(i) + 1, Min({Skip(i) + PageSize, Len(ServerList)}))
      BY <1>3 DEF ServedRows
    <2> QED
      BY <1>1, <1>3, <2>1, PagesJoin
  <1>5. Items = SubSeq(ServerList, 1, UpTo(n, N))
    BY <1>2, <1>4 DEF Items, served
  <1>6. UpTo(n, N) \in Nat /\ UpTo(n, N) <= N
    BY PageEnds
  <1>7. Len(Items) = UpTo(n, N)
    <2>1. PICK e \in Nat : e = UpTo(n, N) /\ e <= N
      BY <1>6
    <2>2. \A i \in 1 .. e : ServerList[i] \in Entry
      BY <1>1, <1>2, <2>1
    <2>3. Len(SubSeq(ServerList, 1, e)) = IF 1 <= e THEN e - 1 + 1 ELSE 0
      BY <2>2, SubSeqProperties
    <2> QED
      BY <1>5, <2>1, <2>3
  <1>8. HasNext(pages) <=> n * PageSize < N
    <2>1. Last(pages) = pages[n] /\ Last(pages).no = n /\ Fresh(Last(pages)) /\ n \in DOMAIN pages
      BY <1>1, <1>2, LastIsNumbered
    <2>2. Last(pages).total = N
      BY <1>1, <1>2, <2>1 DEF Fresh
    <2>3. TotalPages(Last(pages)) = (N + PageSize - 1) \div PageSize
      BY <2>2 DEF TotalPages
    <2> QED
      BY <2>1, <2>3, MorePages DEF HasNext
  <1> QED
    BY <1>2, <1>5, <1>7, <1>8 DEF UpTo

\* With no page older than the last move of the server's list, the captain's screen has that
\* list from its top, no order missing or twice, and asks for more exactly when there is more.
THEOREM HistoryShowsPrefix == HistorySpec => []HistoryIsPrefix
  <1>1. HistoryInv => HistoryIsPrefix
    <2> SUFFICES ASSUME HistoryInv, pages # <<>>, \A i \in DOMAIN pages : ~pages[i].old
                 PROVE  /\ Items = SubSeq(ServerList, 1, Min({Len(pages) * PageSize, Len(ServerList)}))
                        /\ HasNext(pages) <=> Len(Items) < Len(ServerList)
      BY DEF HistoryIsPrefix
    <2>1. /\ Items = SubSeq(ServerList, 1, Min({Len(pages) * PageSize, Len(ServerList)}))
          /\ Len(Items) = Min({Len(pages) * PageSize, Len(ServerList)})
          /\ HasNext(pages) <=> Len(pages) * PageSize < Len(ServerList)
      BY FreshIsPrefix
    <2>2. Len(pages) * PageSize \in Int /\ Len(ServerList) \in Int
      <3>1. pages \in Seq(Page) /\ Len(ServerList) \in Nat
        BY ListInOrder DEF HistoryInv, HistoryTypeOK
      <3> QED
        BY <3>1, HistoryAssumption
    <2>3. PICK a \in Int, N \in Int : a = Len(pages) * PageSize /\ N = Len(ServerList)
      BY <2>2
    <2>4. Min({a, N}) = IF a <= N THEN a ELSE N
      BY MinOfTwo
    <2>5. Min({a, N}) < N <=> a < N
      BY <2>4
    <2> QED
      BY <2>1, <2>3, <2>5
  <1> QED
    BY <1>1, HistoryInvariance, PTL
=============================================================================
