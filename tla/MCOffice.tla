------------------------------ MODULE MCOffice ------------------------------
(***************************************************************************)
(* The parts of the office, and of the orders and the money between office  *)
(* and captains, that share no state with one another, in one run: focus    *)
(* names the part that moves, the others stay as they start.               *)
(***************************************************************************)
EXTENDS StaffScope, StaffSessions, DeskBoard, WebAccess, DashboardSettings, OrderEntry, CaptainTaps,
        PrepaidBalance, TLC

CONSTANTS
    adm, man, dis, fre, sup, c1, c2, b1, b2, b3, r1, j1,    \* staff
    w1, w2, d1, d2, o1, o2, q1, q2,                         \* accounts, requests, orders, captains
    h1, h2, e1, e2, t1, t2,                                 \* orders, captains, requests
    v1, l1, l2, NoOffer                                     \* an order, log ids

\* An administrator, a manager and a dispatcher of one company, a dispatcher whose branch is
\* another company's, and a super administrator.
Members == [u \in Account |->
    CASE u = adm -> [role |-> "COMPANY_ADMIN", company |-> c1, branch |-> NoBranch]
      [] u = man -> [role |-> "BRANCH_MANAGER", company |-> c1, branch |-> b2]
      [] u = dis -> [role |-> "DISPATCHER", company |-> c1, branch |-> NoBranch]
      [] u = fre -> [role |-> "DISPATCHER", company |-> c2, branch |-> b1]
      [] u = sup -> [role |-> "SUPER_ADMIN", company |-> NoCompany, branch |-> NoBranch]]
Companies == [br \in Branch |-> IF br = b3 THEN c2 ELSE c1]
Oldest == [k \in Company |-> IF k = c1 THEN b1 ELSE b3]

\* What useState gives the settings card's fields; the row holds something else.
Untouched == [f \in Setting |-> "default"]

OrderCommission == [c \in Captain |-> [o \in Order |-> IF o = h2 THEN 0 ELSE IF c = e1 THEN 1 ELSE 2]]
Corrections == {-2}
RequestSymmetry == Permutations(Request)

VARIABLES focus,
          orderRow, offerRow, roundsOf, captainRow, archiving, deleting, crossedBy   \* of the removals

\* The removals, with one order, two captains and two attempts; nobody writes a raw status.
Removal == INSTANCE Removals WITH
    Order <- {v1}, Captain <- {1, 2}, LogId <- {l1, l2}, MaxAttempts <- 2, Seat <- [o \in {v1} |-> 0],
    ManualOverride <- FALSE, StaffTargets <- {},
    order <- orderRow, offer <- offerRow, rounds <- roundsOf, captain <- captainRow, crossed <- crossedBy

removalVars == <<orderRow, offerRow, roundsOf, captainRow, archiving, deleting, crossedBy>>

officeVars == <<focus, scopeVars, tokenVars, deskVars, webVars, settingsVars, entryVars, tapVars, vars, removalVars>>

OfficeInit ==
    /\ focus \in {"scope", "tokens", "desk", "web", "settings", "entry", "taps", "balance", "removal"}
    /\ ScopeInit /\ TokensInit /\ DeskInit /\ WebInit /\ SettingsInit
    /\ EntryInit /\ TapsInit /\ Init /\ Removal!RemovalInit
    /\ settingsRow \in [Setting -> {"set", Unset}]
    /\ focus # "settings" => settingsRow = [f \in Setting |-> "set"]
    /\ focus # "balance" => order = [o \in Order |-> [delivered |-> FALSE, captain |-> NoCaptain]]
    /\ focus # "removal" => orderRow[v1].mode = "AUTO"

PagesRest == UNCHANGED <<scopeVars, tokenVars, deskVars, webVars, settingsVars>>
OrdersRest == UNCHANGED <<entryVars, tapVars, vars, removalVars>>

PagesNext ==
    \/ focus = "scope" /\ ScopeNext /\ UNCHANGED <<tokenVars, deskVars, webVars, settingsVars>>
    \/ focus = "tokens" /\ TokensNext /\ UNCHANGED <<scopeVars, deskVars, webVars, settingsVars>>
    \/ focus = "desk" /\ DeskNext /\ UNCHANGED <<scopeVars, tokenVars, webVars, settingsVars>>
    \/ focus = "web" /\ WebNext /\ UNCHANGED <<scopeVars, tokenVars, deskVars, settingsVars>>
    \/ focus = "settings" /\ SettingsNext /\ UNCHANGED <<scopeVars, tokenVars, deskVars, webVars>>

OrdersNext ==
    \/ focus = "entry" /\ EntryNext /\ UNCHANGED <<tapVars, vars, removalVars>>
    \/ focus = "taps" /\ TapsNext /\ UNCHANGED <<entryVars, vars, removalVars>>
    \/ focus = "balance" /\ Next /\ UNCHANGED <<entryVars, tapVars, removalVars>>
    \/ focus = "removal" /\ Removal!RemovalNext /\ UNCHANGED <<entryVars, tapVars, vars>>

OfficeNext ==
    /\ UNCHANGED focus
    /\ \/ PagesNext /\ OrdersRest
       \/ OrdersNext /\ PagesRest

OfficeSpec == OfficeInit /\ [][OfficeNext]_officeVars

\* No work is lost to an archive or a captain's deletion (archiveOrder, deleteCaptain), unless a
\* handler moves the order between the look of the removal and its writes.
WorkSurvives == Removal!WorkSurvives
=============================================================================
