---------------------------- MODULE PrepaidBalance ----------------------------
(***************************************************************************)
(* Captains' prepaid balances: charges, adjustments and the commission of a *)
(* delivery, as READ COMMITTED transactions.  Each reads the captain's row, *)
(* computes the new balance in memory and writes it as a value; the two     *)
(* totals are incremented by the database.                                 *)
(*                                                                         *)
(* The last writes of a transaction are one step with its commit.  The row  *)
(* of an order that is being delivered is locked from its update on.        *)
(***************************************************************************)
EXTENDS Sums

CONSTANTS
    Order, Captain, NoCaptain,
    Prepaid,        \* captains whose balance is in force, by settings and profile
    Commission,     \* Commission[c][o]: the order's fee times the captain's percentage, rounded
    Charges,        \* amounts charged
    Adjustments,    \* amounts adjusted by, of either sign
    Request,        \* what runs at the same time
    NoTx,
    MaxRows         \* bound on the ledger

ASSUME PrepaidAssumption == Prepaid \subseteq Captain /\ NoCaptain \notin Captain
ASSUME AmountAssumption ==
    /\ Commission \in [Captain -> [Order -> Nat]]
    /\ Charges \subseteq Nat \ {0}
    /\ Adjustments \subseteq Int \ {0}

VARIABLES
    order,      \* order[o]: whether the order is DELIVERED, and its captain
    account,    \* account[c]: the captain's prepaidBalance, totalCharged and totalDeducted
    ledger,     \* the rows of CaptainBalanceTransaction, in the order of their commits
    tx          \* tx[t]: the transaction of request t, or NoTx

vars == <<order, account, ledger, tx>>

OrderRow == [delivered : BOOLEAN, captain : Captain \cup {NoCaptain}]

AccountRow == [balance : Int, charged : Int, deducted : Int]

Movement == {"CHARGE", "DEDUCTION", "ADJUSTMENT"}

\* order is a set: the order of a deduction, empty for the other two.
LedgerRow == [captain : Captain, type : Movement, amount : Int, after : Int, order : SUBSET Order]

\* read is the balance the transaction has read; amount is signed.
Transaction ==
    [at : {"order"}, order : SUBSET Order] \cup
    [at : {"account"}, order : SUBSET Order, captain : Captain, type : Movement, amount : Int, read : Int]

ASSUME NoTxAssumption == NoTx \notin Transaction

Init ==
    /\ order \in [Order -> [delivered : {FALSE}, captain : Captain \cup {NoCaptain}]]
    /\ account = [c \in Captain |-> [balance |-> 0, charged |-> 0, deducted |-> 0]]
    /\ ledger = <<>>
    /\ tx = [t \in Request |-> NoTx]

At(t, place) == tx[t] # NoTx /\ tx[t].at = place

\* Mutant: the deduction has a transaction of its own, and o's row is free meanwhile.
Unlocked(o) == FALSE

\* A transaction has updated o's row and not committed.
Locked(o) == \E t \in Request : At(t, "account") /\ o \in tx[t].order

Deducted(c, o) == \E i \in DOMAIN ledger :
    ledger[i].captain = c /\ ledger[i].type = "DEDUCTION" /\ ledger[i].order = {o}

\* The first statement of a movement of c's account: loadCaptainPolicyTx.
Reads(t, c, type, amount, of) ==
    tx' = [tx EXCEPT ![t] = [at |-> "account", order |-> of, captain |-> c, type |-> type,
                             amount |-> amount, read |-> account[c].balance]]

-----------------------------------------------------------------------------
(* chargeCaptain and adjustCaptain *)

Charge(t, c, amount) ==
    /\ tx[t] = NoTx
    /\ Reads(t, c, "CHARGE", amount, {})
    /\ UNCHANGED <<order, account, ledger>>

Adjust(t, c, amount) ==
    /\ tx[t] = NoTx
    /\ Reads(t, c, "ADJUSTMENT", amount, {})
    /\ UNCHANGED <<order, account, ledger>>

-----------------------------------------------------------------------------
(* A delivery: updateStatus or adminOverrideOrderStatus, then deductForDeliveredOrderTx. *)

\* The order is read, and is not DELIVERED, before the transaction begins.
Deliver(t, o) ==
    /\ tx[t] = NoTx
    /\ ~order[o].delivered
    /\ tx' = [tx EXCEPT ![t] = [at |-> "order", order |-> {o}]]
    /\ UNCHANGED <<order, account, ledger>>

\* Mutant: any earlier deduction for the order counts, another captain's included.
OwesPerOrder(c, o) == c \in Prepaid /\ Commission[c][o] > 0 /\ ~\E d \in Captain : Deducted(d, o)

\* Whether a delivery of o by c costs something: there is a captain, he has not paid for
\* this order before, his balance is in force, and the commission is not zero.
Owes(c, o) == c \in Prepaid /\ ~Deducted(c, o) /\ Commission[c][o] > 0

\* The order's row is updated and read again: the captain is the one it names by now.
UpdateOrder(t, o) ==
    LET c == order[o].captain
    IN  /\ At(t, "order") /\ tx[t].order = {o}
        /\ ~Locked(o)
        /\ IF Owes(c, o)
             THEN /\ Reads(t, c, "DEDUCTION", -Commission[c][o], {o})
                  /\ UNCHANGED order
             ELSE /\ order' = [order EXCEPT ![o].delivered = TRUE]
                  /\ tx' = [tx EXCEPT ![t] = NoTx]
        /\ UNCHANGED <<account, ledger>>

-----------------------------------------------------------------------------
(* The writes and the commit. *)

\* Mutant: an adjustment is counted as a charge.
MovedAlways(a, type, amount, read) ==
    [balance  |-> read + amount,
     charged  |-> IF type = "DEDUCTION" THEN a.charged ELSE a.charged + amount,
     deducted |-> IF type = "DEDUCTION" THEN a.deducted - amount ELSE a.deducted]

\* The balance read plus the amount; the totals are incremented where they are.
Moved(a, type, amount, read) ==
    [balance  |-> read + amount,
     charged  |-> IF type = "CHARGE" THEN a.charged + amount ELSE a.charged,
     deducted |-> IF type = "DEDUCTION" THEN a.deducted - amount ELSE a.deducted]

\* A second deduction for the same captain and order fails on the unique index.
Commit(t) ==
    LET m == tx[t]
    IN  /\ At(t, "account")
        /\ Len(ledger) < MaxRows
        /\ m.type = "DEDUCTION" => \A o \in m.order : ~Deducted(m.captain, o)
        /\ account' = [account EXCEPT ![m.captain] = Moved(@, m.type, m.amount, m.read)]
        /\ ledger' = Append(ledger, [captain |-> m.captain, type |-> m.type, amount |-> m.amount,
                                     after |-> m.read + m.amount, order |-> m.order])
        /\ order' = [o \in Order |-> IF o \in m.order THEN [order[o] EXCEPT !.delivered = TRUE] ELSE order[o]]
        /\ tx' = [tx EXCEPT ![t] = NoTx]

Rollback(t) ==
    /\ tx[t] # NoTx
    /\ tx' = [tx EXCEPT ![t] = NoTx]
    /\ UNCHANGED <<order, account, ledger>>

-----------------------------------------------------------------------------
\* The desk, or an answer, gives the order another captain, or none, or takes it back from
\* DELIVERED: every handler that writes the captain of an order writes its status too.
Redispatch(o, c) ==
    /\ ~Locked(o)
    /\ order' = [order EXCEPT ![o] = [delivered |-> FALSE, captain |-> c]]
    /\ UNCHANGED <<account, ledger, tx>>

Next ==
    \/ \E t \in Request, c \in Captain :
         \/ \E a \in Charges : Charge(t, c, a)
         \/ \E a \in Adjustments : Adjust(t, c, a)
    \/ \E t \in Request : Commit(t) \/ Rollback(t) \/ \E o \in Order : Deliver(t, o) \/ UpdateOrder(t, o)
    \/ \E o \in Order, c \in Captain \cup {NoCaptain} : Redispatch(o, c)

Spec == Init /\ [][Next]_vars

-----------------------------------------------------------------------------
TypeOK ==
    /\ order \in [Order -> OrderRow]
    /\ account \in [Captain -> AccountRow]
    /\ ledger \in Seq(LedgerRow)
    /\ tx \in [Request -> Transaction \cup {NoTx}]

\* What the rows of c of the given types add up to.
Sum(c, types) ==
    Total([i \in DOMAIN ledger |->
             IF ledger[i].captain = c /\ ledger[i].type \in types THEN ledger[i].amount ELSE 0])

\* totalCharged and totalDeducted are what the ledger's rows add up to, however charges and
\* deliveries overlap.
TotalsAdd ==
    \A c \in Captain : /\ account[c].charged = Sum(c, {"CHARGE"})
                       /\ account[c].deducted = -Sum(c, {"DEDUCTION"})

\* A delivered order is paid for by the captain it names: also when two requests deliver it
\* at once, when it is given to another captain before or after, and when he delivers again.
DeliveredIsPaid ==
    \A o \in Order :
        order[o].delivered /\ order[o].captain \in Prepaid /\ Commission[order[o].captain][o] > 0
        => Deducted(order[o].captain, o)

\* "The commission is deducted only after the delivery of the order" (the explanation shown to
\* captains): a deduction commits with the delivery, and from the captain the order names.
DeductedOnDelivery ==
    [][\A i \in DOMAIN ledger' \ DOMAIN ledger : ledger'[i].type = "DEDUCTION" =>
        \A o \in ledger'[i].order : order'[o].delivered /\ order'[o].captain = ledger'[i].captain]_vars

\* The balance is what the captain's charges, deductions and adjustments add up to.
BalanceIsLedger == \A c \in Captain : account[c].balance = Sum(c, Movement)
=============================================================================
