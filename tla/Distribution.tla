---------------------------- MODULE Distribution ----------------------------
(***************************************************************************)
(* The order distribution service, one committed transaction per step: what *)
(* every handler of the engine and of the orders service does to the        *)
(* database when it runs alone.  DistributionTx takes the same handlers     *)
(* apart into statements.                                                   *)
(*                                                                         *)
(* Of the assignment log only what a handler reads again is kept: the       *)
(* PENDING rows (offer) and, per order, how many AUTO rows ended EXPIRED or *)
(* REJECTED since the last reset (rounds).                                  *)
(***************************************************************************)
EXTENDS DispatchRules

CONSTANT NoOffer    \* the log id holds no PENDING row

VARIABLES
    order,      \* order[o]: the order's row
    offer,      \* offer[l]: the PENDING assignment row with id l, or NoOffer
    rounds,     \* rounds[o]: completed AUTO attempts since lastDistributionResetAt
    captain     \* captain[c]: the captain's row

vars == <<order, offer, rounds, captain>>

OfferRow == [order : Order, captain : Captain, kind : Kind, due : BOOLEAN]

ASSUME NoOfferAssumption == NoOffer \notin OfferRow

NewOffer(o, c, k) == [order |-> o, captain |-> c, kind |-> k, due |-> FALSE]

\* A new row takes an id that is not Live before the step: ids are never handed over.
Live(l) == offer[l] # NoOffer

\* Mutant: only the automatic rows are cancelled.
CancelPendingAuto(o) ==
    [l \in LogId |-> IF Live(l) /\ offer[l].order = o /\ offer[l].kind = "AUTO" THEN NoOffer ELSE offer[l]]

\* The PENDING rows of o are set to CANCELLED: updateMany where responseStatus = PENDING.
CancelPending(o) == [l \in LogId |-> IF Live(l) /\ offer[l].order = o THEN NoOffer ELSE offer[l]]

\* Row l alone is closed.
Without(l) == [m \in LogId |-> IF m = l THEN NoOffer ELSE offer[m]]

\* Mutant: a completed attempt overwrites the count.
RoundsOverwritten(l) == IF offer[l].kind = "AUTO" THEN 1 ELSE rounds[offer[l].order]

\* rounds[o] once row l ended EXPIRED or REJECTED: only AUTO rows are counted.
RoundsAfter(l) == rounds[offer[l].order] + (IF offer[l].kind = "AUTO" THEN 1 ELSE 0)

Init ==
    /\ order \in [Order -> NewOrder]
    /\ offer = [l \in LogId |-> NoOffer]
    /\ rounds = [o \in Order |-> 0]
    /\ captain = [c \in Captain |-> [active |-> TRUE, available |-> TRUE, blocked |-> FALSE]]

-----------------------------------------------------------------------------
(* The engine. *)

\* Mutant: the attempt limit is compared with > instead of >=.
OfferNextOnceMore(o, row, open, n) ==
    LET pool == AutoPool([order EXCEPT ![o] = row], captain)
    IN  \/ /\ pool = {} \/ n > MaxAttempts
           /\ order' = [order EXCEPT ![o] = Released(row)]
           /\ offer' = open
        \/ /\ n <= MaxAttempts
           /\ \E c \in pool, l \in LogId :
                /\ ~Live(l)
                /\ Picked(c, pool, o, n)
                /\ order' = [order EXCEPT ![o] = AssignedTo(row, c, "AUTO")]
                /\ offer' = [open EXCEPT ![l] = NewOffer(o, c, "AUTO")]

\* offerNextAutoCaptainTx on order o, whose row the transaction sees as row, with
\* the PENDING rows open and n completed rounds: an offer to the next captain of
\* the pool, or back to PENDING when the pool is empty or the attempts are used up.
OfferNext(o, row, open, n) ==
    LET pool == AutoPool([order EXCEPT ![o] = row], captain)
    IN  \/ /\ pool = {} \/ n >= MaxAttempts
           /\ order' = [order EXCEPT ![o] = Released(row)]
           /\ offer' = open
        \/ /\ n < MaxAttempts
           /\ \E c \in pool, l \in LogId :
                /\ ~Live(l)
                /\ Picked(c, pool, o, n)
                /\ order' = [order EXCEPT ![o] = AssignedTo(row, c, "AUTO")]
                /\ offer' = [open EXCEPT ![l] = NewOffer(o, c, "AUTO")]

StartAuto(o) ==
    /\ ~order[o].archived
    /\ order[o].mode = "AUTO"
    /\ order[o].status \in {"PENDING", "CONFIRMED"}
    /\ rounds' = [rounds EXCEPT ![o] = 0]
    /\ OfferNext(o, order[o], CancelPending(o), 0)
    /\ UNCHANGED captain

\* Resend takes an order in any status, a delivered one included.
Resend(o) ==
    /\ ~order[o].archived
    /\ rounds' = [rounds EXCEPT ![o] = 0]
    /\ OfferNext(o, [Released(order[o]) EXCEPT !.mode = "AUTO"], CancelPending(o), 0)
    /\ UNCHANGED captain

\* The common part of the dispatcher's two assignments: the open offers are
\* cancelled and c gets a new one.  No captain lock and no capacity check.
Assign(o, c, k, row) ==
    /\ ~order[o].archived
    /\ ManualEligible(captain[c])
    /\ \E l \in LogId :
         /\ ~Live(l)
         /\ offer' = [CancelPending(o) EXCEPT ![l] = NewOffer(o, c, k)]
    /\ order' = [order EXCEPT ![o] = AssignedTo(row, c, k)]
    /\ UNCHANGED <<rounds, captain>>

\* Mutant: a manual assignment leaves the order in AUTO mode.
AssignManualInMode(o, c) ==
    /\ order[o].status \in {"PENDING", "CONFIRMED", "ASSIGNED"}
    /\ Assign(o, c, "MANUAL", order[o])

AssignManual(o, c) ==
    /\ order[o].status \in {"PENDING", "CONFIRMED", "ASSIGNED"}
    /\ Assign(o, c, "MANUAL", [order[o] EXCEPT !.mode = "MANUAL"])

\* Reassign takes an order in any status and leaves its mode alone.
Reassign(o, c) == Assign(o, c, "REASSIGN", order[o])

CancelAssignment(o) ==
    /\ ~order[o].archived
    /\ order[o].captain # NoCaptain
    /\ order[o].status \notin {"DELIVERED", "CANCELLED"}
    /\ order' = [order EXCEPT ![o] = Detached(order[o], "CONFIRMED")]
    /\ offer' = CancelPending(o)
    /\ UNCHANGED <<rounds, captain>>

\* What follows once row l is closed as EXPIRED or REJECTED: count the round, then
\* the AUTO chain or a release.
AfterClose(l, chain) ==
    LET o    == offer[l].order
        open == Without(l)
    IN  /\ rounds' = [rounds EXCEPT ![o] = RoundsAfter(l)]
        /\ IF chain
             THEN OfferNext(o, order[o], open, RoundsAfter(l))
             ELSE /\ order' = [order EXCEPT ![o] = Released(order[o])]
                  /\ offer' = open
        /\ UNCHANGED captain

\* Mutant: the tick handles automatic rows only.
ExpireAutoOnly(l) ==
    LET o     == offer[l].order
        chain == order[o].mode = "AUTO" /\ order[o].status = "ASSIGNED"
    IN  /\ Live(l)
        /\ offer[l].due
        /\ chain /\ ~order[o].archived
        /\ AfterClose(l, chain)

\* One due row of a tick.  The release happens whatever the order's status.  On an
\* archived order the chain throws and the transaction rolls back.
Expire(l) ==
    LET o     == offer[l].order
        chain == order[o].mode = "AUTO" /\ order[o].status = "ASSIGNED"
    IN  /\ Live(l)
        /\ offer[l].due
        /\ chain => ~order[o].archived
        /\ AfterClose(l, chain)

\* The 30 seconds of row l are over.
WindowElapses(l) ==
    /\ Live(l)
    /\ ~offer[l].due
    /\ offer' = [offer EXCEPT ![l].due = TRUE]
    /\ UNCHANGED <<order, rounds, captain>>

-----------------------------------------------------------------------------
(* The orders service: the captain's answers, statuses, the archive. *)

\* The captain may answer row l: PENDING, not past its window, and the order still
\* names him.  Neither the order's status nor its archive mark is looked at.
Answerable(l) ==
    /\ Live(l)
    /\ ~offer[l].due
    /\ order[offer[l].order].captain = offer[l].captain

\* Mutant: the accepted row itself is left PENDING.
AcceptLeavingRow(l) ==
    LET o == offer[l].order
    IN  /\ Answerable(l)
        /\ order' = [order EXCEPT ![o].status = "ACCEPTED"]
        /\ UNCHANGED <<offer, rounds, captain>>

Accept(l) ==
    LET o == offer[l].order
    IN  /\ Answerable(l)
        /\ order' = [order EXCEPT ![o].status = "ACCEPTED"]
        /\ offer' = CancelPending(o)
        /\ UNCHANGED <<rounds, captain>>

\* afterCaptainRejectTx leaves an archived order as it is.
Reject(l) ==
    LET o == offer[l].order
    IN  /\ Answerable(l)
        /\ \/ /\ order[o].archived
              /\ rounds' = [rounds EXCEPT ![o] = RoundsAfter(l)]
              /\ offer' = Without(l)
              /\ UNCHANGED <<order, captain>>
           \/ /\ ~order[o].archived
              /\ AfterClose(l, order[o].mode = "AUTO")

\* deductForDeliveredOrderTx: the commission may leave the captain's balance blocked.
Deduct(c) ==
    \/ UNCHANGED captain
    \/ c # NoCaptain /\ captain' = [captain EXCEPT ![c].blocked = TRUE]

\* A delivered order costs its captain the commission; other statuses cost nothing.
DeductIfDelivered(s, c) == IF s = "DELIVERED" THEN Deduct(c) ELSE UNCHANGED captain

\* updateStatus called by the assigned captain.
CaptainSetStatus(o, s) ==
    /\ order[o].captain # NoCaptain
    /\ <<order[o].status, s>> \in DeliveryChain
    /\ order' = [order EXCEPT ![o].status = s]
    /\ DeductIfDelivered(s, order[o].captain)
    /\ UNCHANGED <<offer, rounds>>

\* updateStatus called by staff or a store: any status, no open offer is cancelled.
StaffSetStatus(o, s) ==
    /\ s \in StaffTargets
    /\ order[o].status # s
    /\ order' = [order EXCEPT ![o].status = s]
    /\ DeductIfDelivered(s, order[o].captain)
    /\ UNCHANGED <<offer, rounds>>


\* Mutant: the override leaves the open offers.
AdminOverrideLeavingOffers(o, s) ==
    /\ s \in OverrideTargets
    /\ ~order[o].archived
    /\ order[o].status # s
    /\ order' = [order EXCEPT ![o] = IF s = "DELIVERED" THEN [@ EXCEPT !.status = s] ELSE Detached(@, s)]
    /\ DeductIfDelivered(s, order[o].captain)
    /\ UNCHANGED <<offer, rounds>>

AdminOverride(o, s) ==
    /\ s \in OverrideTargets
    /\ ~order[o].archived
    /\ order[o].status # s
    /\ offer' = CancelPending(o)
    /\ \/ /\ s = "DELIVERED"
          /\ order' = [order EXCEPT ![o].status = s]
       \/ /\ s # "DELIVERED"
          /\ order' = [order EXCEPT ![o] = [Detached(order[o], s) EXCEPT
                                !.mode = IF s = "PENDING" THEN "AUTO" ELSE @]]
    /\ DeductIfDelivered(s, order[o].captain)
    /\ UNCHANGED rounds

\* An offered order first loses its captain (cancelCaptainAssignment).
Archive(o) ==
    /\ ~order[o].archived
    /\ order[o].status \notin {"ACCEPTED", "PICKED_UP", "IN_TRANSIT"}
    /\ IF order[o].captain # NoCaptain /\ order[o].status = "ASSIGNED"
         THEN /\ order' = [order EXCEPT ![o] =
                             [Detached(order[o], "CONFIRMED") EXCEPT !.archived = TRUE]]
              /\ offer' = CancelPending(o)
         ELSE /\ order' = [order EXCEPT ![o].archived = TRUE]
              /\ UNCHANGED offer
    /\ UNCHANGED <<rounds, captain>>

Unarchive(o) ==
    /\ order[o].archived
    /\ order' = [order EXCEPT ![o].archived = FALSE]
    /\ UNCHANGED <<offer, rounds, captain>>

-----------------------------------------------------------------------------
(* The captain's row: activation, availability, balance. *)

SetActive(c, b) ==
    /\ captain' = [captain EXCEPT ![c].active = b]
    /\ UNCHANGED <<order, offer, rounds>>

\* AVAILABLE or one of the other three statuses; open orders are not looked at.
SetAvailability(c, b) ==
    /\ captain' = [captain EXCEPT ![c].available = b]
    /\ UNCHANGED <<order, offer, rounds>>

\* A charge, an adjustment or a change of the prepaid policy.
BalanceMoves(c, b) ==
    /\ captain' = [captain EXCEPT ![c].blocked = b]
    /\ UNCHANGED <<order, offer, rounds>>

-----------------------------------------------------------------------------
\* What the dispatcher's desk may do to order o.
Dispatch(o) ==
    \/ StartAuto(o) \/ Resend(o) \/ CancelAssignment(o)
    \/ \E c \in Captain : AssignManual(o, c) \/ Reassign(o, c)
    \/ \E s \in OrderStatus : StaffSetStatus(o, s) \/ AdminOverride(o, s)
    \/ Archive(o) \/ Unarchive(o)

CaptainRowChange ==
    \E c \in Captain, b \in BOOLEAN :
        SetActive(c, b) \/ SetAvailability(c, b) \/ BalanceMoves(c, b)

Next ==
    \/ \E o \in Order : Dispatch(o)
    \/ \E o \in Order, s \in OrderStatus : CaptainSetStatus(o, s)
    \/ \E l \in LogId : Accept(l) \/ Reject(l) \/ Expire(l) \/ WindowElapses(l)
    \/ CaptainRowChange

Spec == Init /\ [][Next]_vars

\* Time passes, and the interval timer's tick handles every due row it finds.
FairSpec == Spec /\ \A l \in LogId : WF_vars(WindowElapses(l)) /\ WF_vars(Expire(l))

-----------------------------------------------------------------------------
TypeOK ==
    /\ order \in [Order -> OrderRow]
    /\ offer \in [LogId -> OfferRow \cup {NoOffer}]
    /\ rounds \in [Order -> 0 .. MaxAttempts]
    /\ captain \in [Captain -> CaptainRow]

\* An order has at most one PENDING row, and it is its assigned captain's: every
\* handler that moves an order closes the rows of the captain it leaves.
OneOpenOffer ==
    /\ \A l \in LogId : Live(l) => order[offer[l].order].captain = offer[l].captain
    /\ \A l, m \in LogId : Live(l) /\ Live(m) /\ offer[l].order = offer[m].order => l = m

\* The AUTO chain stops: an automatic offer is open only while an attempt is left.
AttemptsBounded ==
    \A l \in LogId : Live(l) /\ offer[l].kind = "AUTO" => rounds[offer[l].order] < MaxAttempts

\* The timeout chooses between the chain and a release by the order's mode, not by
\* the row's type: an open AUTO row belongs to an AUTO order, an open MANUAL row to a
\* MANUAL one, so a manual assignment is never continued automatically.
ModeOfOffer ==
    \A l \in LogId : Live(l) /\ offer[l].kind # "REASSIGN" => order[offer[l].order].mode = offer[l].kind

\* "ASSIGNED: there is an active offer for a captain" (captain-order-lifecycle.md).
\* It holds as long as nobody writes a status through PATCH /orders/:id/status.
AssignedIffOffered ==
    \A o \in Order :
        order[o].status = "ASSIGNED" <=> \E l \in LogId : Live(l) /\ offer[l].order = o

\* An archived order is never on offer, so the tick, whose automatic chain throws on an
\* archived order and rolls back, never meets a row it can only retry for ever.
OfferedUnarchived == \A o \in Order : order[o].status = "ASSIGNED" => ~order[o].archived

\* Only the dispatcher's desk takes an accepted order from its captain or reopens a
\* closed one: no answer, no timeout of another row does.
AcceptedLeftAlone ==
    [][\A o \in Order :
        /\ order[o].status \notin {"PENDING", "CONFIRMED", "ASSIGNED"}
        /\ order'[o].captain # order[o].captain \/ order'[o].status \in {"PENDING", "CONFIRMED", "ASSIGNED"}
        => Dispatch(o)]_vars

\* "Automatic distribution is single-order-only" (constants.ts): of the orders a captain
\* works on at most one was given to him automatically, whatever the dispatcher adds by
\* hand and in whatever order offers are answered, expire and are made again.
SingleAutoOrder ==
    \A o, p \in Order :
        /\ order[o].captain # NoCaptain /\ order[o].captain = order[p].captain
        /\ {order[o].status, order[p].status} \subseteq Working
        /\ order[o].by = "AUTO" /\ order[p].by = "AUTO"
        => o = p

\* An offer of an order that is not archived.
OnOffer(l) == Live(l) /\ ~order[offer[l].order].archived

\* Every offer is closed: answered, cancelled or expired by the tick, whatever status staff
\* write meanwhile; only an order archived while on offer keeps its row.
OffersClose == \A l \in LogId : OnOffer(l) ~> ~OnOffer(l)

\* Once the desk lets an order be, its offers come to an end: the tick's chain does not go round
\* for ever.
ChainEnds ==
    \A o \in Order : <>[][~Dispatch(o)]_vars => <>[](\A l \in LogId : OnOffer(l) => offer[l].order # o)
=============================================================================
