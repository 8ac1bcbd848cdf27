----------------------------- MODULE StaffSessions -----------------------------
(***************************************************************************)
(* Accounts and the tokens the API signs for them.  No token is stored or     *)
(* withdrawn: an access token is good until it expires and nobody looks at    *)
(* the account again; only log-in and refresh do, and they sign later than   *)
(* they look.                                                              *)
(***************************************************************************)
EXTENDS Naturals

CONSTANTS
    Person,         \* accounts
    Door,           \* requests to /auth that may overlap
    NoPerson,
    AccessLife,     \* JWT_ACCESS_EXPIRES_IN
    RefreshLife     \* JWT_REFRESH_EXPIRES_IN

ASSUME LifeAssumption ==
    /\ AccessLife \in Nat \ {0} /\ RefreshLife \in Nat \ {0}
    /\ NoPerson \notin Person

VARIABLES
    people,     \* users: isActive, or the row is deleted
    barred,     \* how long the account has not been active, counted up to AccessLife
    access,     \* what is left of the access tokens in somebody's hands
    renewal,    \* what is left of the refresh tokens
    door        \* whom a request has found active and signs for

tokenVars == <<people, barred, access, renewal, door>>

TokensInit ==
    /\ people = [p \in Person |-> "active"]
    /\ barred = [p \in Person |-> 0]
    /\ access = [p \in Person |-> {}]
    /\ renewal = [p \in Person |-> {}]
    /\ door = [d \in Door |-> NoPerson]

-----------------------------------------------------------------------------
Found(p, d) ==
    /\ door[d] = NoPerson
    /\ people[p] = "active"
    /\ door' = [door EXCEPT ![d] = p]
    /\ UNCHANGED <<people, barred, access, renewal>>

\* login, loginCaptain; the same for register, whose row is active when it is made.
LogIn(p, d) == Found(p, d)

\* Mutant: whoever has a refresh token gets the next pair.
RefreshAnyone(p, d) ==
    /\ door[d] = NoPerson
    /\ renewal[p] # {}
    /\ door' = [door EXCEPT ![d] = p]
    /\ UNCHANGED <<people, barred, access, renewal>>

\* refresh: the token is verified and the account looked up.  The token stays good.
RefreshPair(p, d) == renewal[p] # {} /\ Found(p, d)

\* buildTokenPayload has come back: the pair is signed and answered.  The account may have
\* been closed meanwhile.
Sign(d) ==
    /\ door[d] # NoPerson
    /\ access' = [access EXCEPT ![door[d]] = @ \cup {AccessLife}]
    /\ renewal' = [renewal EXCEPT ![door[d]] = @ \cup {RefreshLife}]
    /\ door' = [door EXCEPT ![d] = NoPerson]
    /\ UNCHANGED <<people, barred>>

\* users.setActive
SetPersonActive(p, on) ==
    /\ people[p] # "gone"
    /\ people' = [people EXCEPT ![p] = IF on THEN "active" ELSE "inactive"]
    /\ barred' = [barred EXCEPT ![p] = IF on THEN 0 ELSE @]
    /\ UNCHANGED <<access, renewal, door>>

\* deleteCaptain removes the captain's user with him.
PersonDeleted(p) ==
    /\ people[p] # "gone"
    /\ people' = [people EXCEPT ![p] = "gone"]
    /\ UNCHANGED <<barred, access, renewal, door>>

Older(s) == {n - 1 : n \in s} \ {0}

\* Bound: a request to /auth takes less than one unit of the lifetimes.
TimePasses ==
    /\ \A d \in Door : door[d] = NoPerson
    /\ access' = [p \in Person |-> Older(access[p])]
    /\ renewal' = [p \in Person |-> Older(renewal[p])]
    /\ barred' = [p \in Person |-> IF people[p] = "active" \/ barred[p] = AccessLife
                                     THEN barred[p] ELSE barred[p] + 1]
    /\ UNCHANGED <<people, door>>

TokensNext ==
    \/ \E p \in Person, d \in Door : LogIn(p, d) \/ RefreshPair(p, d)
    \/ \E d \in Door : Sign(d)
    \/ \E p \in Person, on \in BOOLEAN : SetPersonActive(p, on)
    \/ \E p \in Person : PersonDeleted(p)
    \/ TimePasses

TokensSpec == TokensInit /\ [][TokensNext]_tokenVars

-----------------------------------------------------------------------------
TokensTypeOK ==
    /\ people \in [Person -> {"active", "inactive", "gone"}]
    /\ barred \in [Person -> 0 .. AccessLife]
    /\ access \in [Person -> SUBSET (1 .. AccessLife)]
    /\ renewal \in [Person -> SUBSET (1 .. RefreshLife)]
    /\ door \in [Door -> Person \cup {NoPerson}]

\* authMiddleware asks the token only.  All the same an account that was closed is shut out
\* once an access token's lifetime has passed: however it refreshes, and although a pair may
\* be signed for it after it was closed.
DeactivationBites == \A p \in Person : barred[p] = AccessLife => access[p] = {}
=============================================================================
