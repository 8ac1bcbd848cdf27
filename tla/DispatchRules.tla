---------------------------- MODULE DispatchRules ----------------------------
(***************************************************************************)
(* The vocabulary of order distribution: the rows the engine works on and  *)
(* the pure rules it applies to them (eligibility, the round-robin pick,    *)
(* what a release or an offer writes).  One branch of one company is        *)
(* modelled, so the pool query's branch filter and the same-company checks  *)
(* are always true.                                                        *)
(***************************************************************************)
EXTENDS Integers, FiniteSets

CONSTANTS
    Order,          \* orders of the branch
    Captain,        \* captains, as numbers: the pool query sorts by id
    NoCaptain,      \* assignedCaptainId = null
    LogId,          \* ids of assignment log rows
    MaxAttempts,    \* DISTRIBUTION_MAX_AUTO_ATTEMPTS
    Seat,           \* Seat[o]: the hash of the order's id
    ManualOverride, \* the setting prepaidAllowManualAssignmentOverride
    StaffTargets    \* statuses staff and stores send to PATCH /orders/:id/status

ASSUME CaptainAssumption == Captain \subseteq Int /\ NoCaptain \notin Captain
ASSUME AttemptsAssumption == MaxAttempts \in Nat \ {0}
ASSUME SeatAssumption == Seat \in [Order -> Nat]

OrderStatus == {"PENDING", "CONFIRMED", "ASSIGNED", "ACCEPTED", "PICKED_UP",
                "IN_TRANSIT", "DELIVERED", "CANCELLED"}

ASSUME SettingsAssumption == ManualOverride \in BOOLEAN /\ StaffTargets \subseteq OrderStatus

\* The statuses in which an order occupies its captain.
Working == {"ASSIGNED", "ACCEPTED", "PICKED_UP", "IN_TRANSIT"}

\* The only moves a captain may make after accepting.
DeliveryChain == {<<"ACCEPTED", "PICKED_UP">>, <<"PICKED_UP", "IN_TRANSIT">>,
                  <<"IN_TRANSIT", "DELIVERED">>}

\* The statuses an administrator may force.
OverrideTargets == {"PENDING", "CONFIRMED", "CANCELLED", "DELIVERED"}

\* AUTO, MANUAL (which stands for DRAG_DROP too: same handler) and REASSIGN.
Kind == {"AUTO", "MANUAL", "REASSIGN"}

\* An order's row.  by is the type of the log row that gave it its captain, kept
\* here because of the closed rows nothing else is read; AUTO without a captain.
OrderRow == [status : OrderStatus, captain : Captain \cup {NoCaptain},
             mode : {"AUTO", "MANUAL"}, archived : BOOLEAN, by : Kind]

\* A captain: account and profile active, AVAILABLE, and whether the prepaid
\* balance blocks new orders.
CaptainRow == [active : BOOLEAN, available : BOOLEAN, blocked : BOOLEAN]

\* Created orders: PENDING, in either mode, with nobody assigned.
NewOrder == [status : {"PENDING"}, captain : {NoCaptain}, mode : {"AUTO", "MANUAL"},
             archived : {FALSE}, by : {"AUTO"}]

Detached(row, s) == [row EXCEPT !.status = s, !.captain = NoCaptain, !.by = "AUTO"]

Released(row) == Detached(row, "PENDING")

AssignedTo(row, c, k) == [row EXCEPT !.status = "ASSIGNED", !.captain = c, !.by = k]

Busy(c, rows) == \E p \in DOMAIN rows : rows[p].captain = c /\ rows[p].status \in Working

AutoEligible(cap) == cap.active /\ cap.available /\ ~cap.blocked

\* A dispatcher may pick a captain who is not AVAILABLE, and one whose balance
\* blocks him when the setting allows it.
ManualEligible(cap) == cap.active /\ (cap.blocked => ManualOverride)

\* Mutant: the capacity guard is dropped.
AutoPoolUnguarded(rows, caps) == {c \in Captain : AutoEligible(caps[c])}

\* The captains an automatic offer may go to, given the order rows as the
\* transaction sees them.  The order itself counts while it still names a captain.
AutoPool(rows, caps) == {c \in Captain : AutoEligible(caps[c]) /\ ~Busy(c, rows)}

\* Position of c in the pool sorted by id.
Rank(c, pool) == Cardinality({d \in pool : d < c})

\* c is the captain at index (hash + rounds) mod pool size.
Picked(c, pool, o, n) == Rank(c, pool) = ((Seat[o] % Cardinality(pool)) + n) % Cardinality(pool)
=============================================================================
