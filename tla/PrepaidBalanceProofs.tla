------------------------ MODULE PrepaidBalanceProofs ------------------------
(***************************************************************************)
(* Proofs about PrepaidBalance, for any number of orders, captains and      *)
(* requests, any amounts and any length of the ledger.                     *)
(*                                                                         *)
(* DeliveredIsPaid is not inductive: that a deduction is written for the    *)
(* captain the order names when it becomes DELIVERED rests on the lock the  *)
(* transaction holds on the order's row since it read it (Held).           *)
(***************************************************************************)
EXTENDS PrepaidBalance, WellFoundedInduction, TLAPS

\* A transaction with a movement to write: a deduction belongs to one order and to the
\* captain that order names, the others to none, and no other transaction has the order.
Held(t) ==
    At(t, "account") =>
      /\ tx[t].type = "DEDUCTION" => \E o \in Order : tx[t].order = {o}
      /\ tx[t].type # "DEDUCTION" => tx[t].order = {}
      /\ \A o \in tx[t].order : order[o].captain = tx[t].captain
      /\ \A u \in Request \ {t} : At(u, "account") => tx[u].order \cap tx[t].order = {}

Paid(o) ==
    order[o].delivered /\ order[o].captain \in Prepaid /\ Commission[order[o].captain][o] > 0
    => Deducted(order[o].captain, o)

PInv == TypeOK /\ (\A t \in Request : Held(t)) /\ \A o \in Order : Paid(o)

LEMMA InitPInv == Init => PInv
<1> SUFFICES ASSUME Init PROVE PInv
  OBVIOUS
<1>1. TypeOK
  <2>1. order \in [Order -> OrderRow]
    BY DEF Init, OrderRow
  <2>2. account \in [Captain -> AccountRow]
    BY DEF Init, AccountRow
  <2>3. ledger \in Seq(LedgerRow)
    BY DEF Init
  <2>4. tx \in [Request -> Transaction \cup {NoTx}]
    BY DEF Init
  <2> QED BY <2>1, <2>2, <2>3, <2>4 DEF TypeOK
<1>2. \A t \in Request : Held(t)
  BY DEF Init, Held, At
<1>3. \A o \in Order : Paid(o)
  BY DEF Init, Paid
<1> QED BY <1>1, <1>2, <1>3 DEF PInv

\* A request that begins or ends without touching an order keeps the invariant.
LEMMA SlotRewritten ==
    ASSUME PInv, NEW t \in Request, NEW r \in Transaction \cup {NoTx},
           tx' = [tx EXCEPT ![t] = r],
           UNCHANGED <<order, account, ledger>>,
           r # NoTx /\ r.at = "account" => r.type # "DEDUCTION" /\ r.order = {}
    PROVE  PInv'
<1>1. TypeOK'
  BY DEF PInv, TypeOK
<1>2. ASSUME NEW u \in Request PROVE Held(u)'
  <2>1. At(t, "account")' => tx'[t].type # "DEDUCTION" /\ tx'[t].order = {}
    BY DEF At, PInv, TypeOK
  <2>2. \A v \in Request \ {t} : tx'[v] = tx[v]
    BY DEF PInv, TypeOK
  <2>3. CASE u = t
    BY <2>1, <2>3 DEF Held, At
  <2>4. CASE u # t
    <3>1. Held(u) /\ tx'[u] = tx[u]
      BY <2>2, <2>4 DEF PInv
    <3>2. \A v \in Request \ {u} : At(v, "account")' => tx'[v].order \cap tx'[u].order = {} \/ ~At(u, "account")'
      BY <2>1, <2>2, <3>1 DEF Held, At
    <3> QED BY <3>1, <3>2 DEF Held, At
  <2> QED BY <2>3, <2>4
<1>3. ASSUME NEW o \in Order PROVE Paid(o)'
  BY DEF PInv, Paid, Deducted
<1> QED BY <1>1, <1>2, <1>3 DEF PInv

\* Requests that begin, and those that fail.
LEMMA BeginKeeps ==
    ASSUME PInv, NEW t \in Request,
           \/ \E c \in Captain, a \in Charges : Charge(t, c, a)
           \/ \E c \in Captain, a \in Adjustments : Adjust(t, c, a)
           \/ \E o \in Order : Deliver(t, o)
           \/ Rollback(t)
    PROVE  PInv'
<1>1. CASE \E c \in Captain, a \in Charges : Charge(t, c, a)
  <2>1. PICK c \in Captain, a \in Charges : Charge(t, c, a)
    BY <1>1
  <2> DEFINE r == [at |-> "account", order |-> {}, captain |-> c, type |-> "CHARGE",
                   amount |-> a, read |-> account[c].balance]
  <2>2. r \in Transaction
    BY AmountAssumption DEF PInv, TypeOK, AccountRow, Transaction, Movement
  <2>3. tx' = [tx EXCEPT ![t] = r] /\ UNCHANGED <<order, account, ledger>>
    BY <2>1 DEF Charge, Reads
  <2> QED BY <2>2, <2>3, SlotRewritten
<1>2. CASE \E c \in Captain, a \in Adjustments : Adjust(t, c, a)
  <2>1. PICK c \in Captain, a \in Adjustments : Adjust(t, c, a)
    BY <1>2
  <2> DEFINE r == [at |-> "account", order |-> {}, captain |-> c, type |-> "ADJUSTMENT",
                   amount |-> a, read |-> account[c].balance]
  <2>2. r \in Transaction
    BY AmountAssumption DEF PInv, TypeOK, AccountRow, Transaction, Movement
  <2>3. tx' = [tx EXCEPT ![t] = r] /\ UNCHANGED <<order, account, ledger>>
    BY <2>1 DEF Adjust, Reads
  <2> QED BY <2>2, <2>3, SlotRewritten
<1>3. CASE \E o \in Order : Deliver(t, o)
  <2>1. PICK o \in Order : Deliver(t, o)
    BY <1>3
  <2> DEFINE r == [at |-> "order", order |-> {o}]
  <2>2. r \in Transaction /\ r.at # "account"
    BY DEF Transaction
  <2>3. tx' = [tx EXCEPT ![t] = r] /\ UNCHANGED <<order, account, ledger>>
    BY <2>1 DEF Deliver
  <2> QED BY <2>2, <2>3, SlotRewritten
<1>4. CASE Rollback(t)
  BY <1>4, SlotRewritten DEF Rollback
<1> QED BY <1>1, <1>2, <1>3, <1>4

\* A delivery that costs nothing leaves nothing unpaid: that is what Owes asks.
LEMMA UpdateKeeps ==
    ASSUME PInv, NEW t \in Request, NEW o \in Order, UpdateOrder(t, o)
    PROVE  PInv'
<1> DEFINE c == order[o].captain
<1>1. \A u \in Request : At(u, "account") => o \notin tx[u].order
  BY DEF UpdateOrder, Locked
<1>2. CASE Owes(c, o)
  <2> DEFINE r == [at |-> "account", order |-> {o}, captain |-> c, type |-> "DEDUCTION",
                   amount |-> -Commission[c][o], read |-> account[c].balance]
  <2>1. c \in Captain
    BY <1>2, PrepaidAssumption DEF Owes
  <2>2. r \in Transaction
    BY <2>1, AmountAssumption DEF PInv, TypeOK, AccountRow, Transaction, Movement
  <2>3. tx' = [tx EXCEPT ![t] = r] /\ UNCHANGED <<order, account, ledger>>
    BY <1>2 DEF UpdateOrder, Reads
  <2>4. TypeOK'
    BY <2>2, <2>3 DEF PInv, TypeOK
  <2>5. tx'[t] = r /\ \A u \in Request \ {t} : tx'[u] = tx[u]
    BY <2>3 DEF PInv, TypeOK
  <2>6. ASSUME NEW u \in Request PROVE Held(u)'
    <3>1. CASE u = t
      <4>1. tx'[u].type = "DEDUCTION" /\ tx'[u].order = {o}
        BY <2>5, <3>1
      <4>2. \A p \in tx'[u].order : order'[p].captain = tx'[u].captain
        BY <2>3, <2>5, <3>1
      <4>3. \A v \in Request \ {u} : At(v, "account")' => tx'[v].order \cap tx'[u].order = {}
        BY <1>1, <2>5, <3>1, <4>1 DEF At
      <4> QED BY <4>1, <4>2, <4>3 DEF Held
    <3>2. CASE u # t
      <4>1. Held(u) /\ tx'[u] = tx[u] /\ UNCHANGED order
        BY <2>3, <2>5, <3>2 DEF PInv
      <4>2. \A v \in Request \ {u} : At(u, "account") /\ At(v, "account")' => tx'[v].order \cap tx[u].order = {}
        BY <1>1, <2>5, <4>1 DEF Held, At
      <4> QED BY <4>1, <4>2 DEF Held, At
    <3> QED BY <3>1, <3>2
  <2>7. \A p \in Order : Paid(p)'
    BY <2>3 DEF PInv, Paid, Deducted
  <2> QED BY <2>4, <2>6, <2>7 DEF PInv
<1>3. CASE ~Owes(c, o)
  <2>1. /\ order' = [order EXCEPT ![o].delivered = TRUE]
        /\ tx' = [tx EXCEPT ![t] = NoTx]
        /\ UNCHANGED <<account, ledger>>
    BY <1>3 DEF UpdateOrder
  <2>2. TypeOK'
    BY <2>1 DEF PInv, TypeOK, OrderRow
  <2>3. \A p \in Order : order'[p].captain = order[p].captain /\ (p # o => order'[p] = order[p])
    BY <2>1 DEF PInv, TypeOK, OrderRow
  <2>4. tx'[t] = NoTx /\ \A u \in Request \ {t} : tx'[u] = tx[u]
    BY <2>1 DEF PInv, TypeOK
  <2>5. ASSUME NEW u \in Request PROVE Held(u)'
    <3>1. CASE u = t
      BY <2>4, <3>1 DEF Held, At
    <3>2. CASE u # t /\ At(u, "account")
      <4>1. Held(u) /\ tx'[u] = tx[u] /\ tx[u].order \subseteq Order
        BY <2>4, <3>2 DEF PInv, TypeOK, Transaction, At
      <4> QED BY <2>3, <2>4, <3>2, <4>1 DEF Held, At
    <3>3. CASE u # t /\ ~At(u, "account")
      BY <2>4, <3>3 DEF Held, At
    <3> QED BY <3>1, <3>2, <3>3
  <2>6. ASSUME NEW p \in Order PROVE Paid(p)'
    <3>1. CASE p = o
      BY <1>3, <2>1, <2>3, <3>1 DEF Owes, Paid, Deducted
    <3>2. CASE p # o
      BY <2>1, <2>3, <3>2 DEF PInv, Paid, Deducted
    <3> QED BY <3>1, <3>2
  <2> QED BY <2>2, <2>5, <2>6 DEF PInv
<1> QED BY <1>2, <1>3

\* What a commit adds to the ledger, and what it leaves there.
LEMMA CommitFacts ==
    ASSUME PInv, NEW t \in Request, Commit(t),
           NEW row, row = [captain |-> tx[t].captain, type |-> tx[t].type, amount |-> tx[t].amount,
                           after |-> tx[t].read + tx[t].amount, order |-> tx[t].order]
    PROVE  /\ tx[t] \in [at : {"account"}, order : SUBSET Order, captain : Captain,
                         type : Movement, amount : Int, read : Int]
           /\ row \in LedgerRow
           /\ ledger' = Append(ledger, row)
           /\ DOMAIN ledger' = DOMAIN ledger \cup {Len(ledger) + 1}
           /\ ledger'[Len(ledger) + 1] = row
           /\ \A i \in DOMAIN ledger : ledger'[i] = ledger[i]
           /\ \A c, o : Deducted(c, o) => Deducted(c, o)'
<1>1. tx[t] \in [at : {"account"}, order : SUBSET Order, captain : Captain,
                 type : Movement, amount : Int, read : Int]
  BY DEF Commit, At, PInv, TypeOK, Transaction
<1>2. row \in LedgerRow
  BY <1>1 DEF LedgerRow
<1>3. ledger' = Append(ledger, row)
  BY DEF Commit
<1>4. ledger \in Seq(LedgerRow)
  BY DEF PInv, TypeOK
<1>5. /\ DOMAIN ledger' = DOMAIN ledger \cup {Len(ledger) + 1}
      /\ ledger'[Len(ledger) + 1] = row
      /\ \A i \in DOMAIN ledger : ledger'[i] = ledger[i]
  BY <1>2, <1>3, <1>4
<1>6. ASSUME NEW c, NEW o, Deducted(c, o) PROVE Deducted(c, o)'
  BY <1>5, <1>6 DEF Deducted
<1> QED BY <1>1, <1>2, <1>3, <1>5, <1>6

\* The captain whose deduction commits is still the order's: the row was locked.
LEMMA CommitPays ==
    ASSUME PInv, NEW t \in Request, Commit(t)
    PROVE  /\ \A o \in tx[t].order : /\ order'[o].delivered
                                     /\ order'[o].captain = order[o].captain
                                     /\ order[o].captain = tx[t].captain
           /\ \A o \in Order \ tx[t].order : order'[o] = order[o]
<1>1. Held(t) /\ At(t, "account") /\ tx[t].order \subseteq Order
  BY DEF PInv, Commit, At, TypeOK, Transaction
<1>2. order' = [o \in Order |-> IF o \in tx[t].order THEN [order[o] EXCEPT !.delivered = TRUE] ELSE order[o]]
  BY DEF Commit
<1>3. \A o \in Order : [order[o] EXCEPT !.delivered = TRUE].delivered
                       /\ [order[o] EXCEPT !.delivered = TRUE].captain = order[o].captain
  BY DEF PInv, TypeOK, OrderRow
<1> QED BY <1>1, <1>2, <1>3 DEF Held

LEMMA CommitKeeps ==
    ASSUME PInv, NEW t \in Request, Commit(t)
    PROVE  PInv'
<1> DEFINE row == [captain |-> tx[t].captain, type |-> tx[t].type, amount |-> tx[t].amount,
                   after |-> tx[t].read + tx[t].amount, order |-> tx[t].order]
<1>1. /\ tx[t] \in [at : {"account"}, order : SUBSET Order, captain : Captain,
                    type : Movement, amount : Int, read : Int]
      /\ row \in LedgerRow
      /\ ledger' = Append(ledger, row)
      /\ DOMAIN ledger' = DOMAIN ledger \cup {Len(ledger) + 1}
      /\ ledger'[Len(ledger) + 1] = row
      /\ \A c, o : Deducted(c, o) => Deducted(c, o)'
  BY CommitFacts
<1>2. tx'[t] = NoTx /\ \A u \in Request \ {t} : tx'[u] = tx[u]
  BY DEF Commit, PInv, TypeOK
<1>3. TypeOK'
  <2>1. order' \in [Order -> OrderRow]
    BY DEF Commit, PInv, TypeOK, OrderRow
  <2>2. account' \in [Captain -> AccountRow]
    <3>1. account' = [account EXCEPT ![tx[t].captain] =
                         Moved(account[tx[t].captain], tx[t].type, tx[t].amount, tx[t].read)]
      BY DEF Commit
    <3>2. account[tx[t].captain] \in AccountRow
      BY <1>1 DEF PInv, TypeOK
    <3>3. Moved(account[tx[t].captain], tx[t].type, tx[t].amount, tx[t].read) \in AccountRow
      BY <1>1, <3>2 DEF Moved, AccountRow
    <3> QED BY <3>1, <3>3 DEF PInv, TypeOK
  <2>3. ledger' \in Seq(LedgerRow)
    BY <1>1 DEF PInv, TypeOK
  <2>4. tx' \in [Request -> Transaction \cup {NoTx}]
    BY DEF Commit, PInv, TypeOK
  <2> QED BY <2>1, <2>2, <2>3, <2>4 DEF TypeOK
<1>4. ASSUME NEW u \in Request PROVE Held(u)'
  <2>1. CASE u = t
    BY <1>2, <2>1 DEF Held, At
  <2>2. CASE u # t /\ At(u, "account")
    <3>1. Held(u) /\ tx'[u] = tx[u] /\ tx[u].order \subseteq Order
      BY <1>2, <2>2 DEF PInv, TypeOK, Transaction, At
    <3>2. \A o \in tx[u].order : order'[o].captain = order[o].captain
      BY <3>1, CommitPays
    <3> QED BY <1>2, <2>2, <3>1, <3>2 DEF Held, At
  <2>3. CASE u # t /\ ~At(u, "account")
    BY <1>2, <2>3 DEF Held, At
  <2> QED BY <2>1, <2>2, <2>3
<1>5. ASSUME NEW o \in Order PROVE Paid(o)'
  <2>1. CASE o \in tx[t].order
    <3>1. Held(t) /\ At(t, "account")
      BY DEF PInv, Commit
    <3>2. tx[t].type = "DEDUCTION" /\ tx[t].order = {o}
      BY <2>1, <3>1 DEF Held
    <3>3. PICK c : c = tx[t].captain
      OBVIOUS
    <3>4. LET i == Len(ledger) + 1
          IN  i \in DOMAIN ledger' /\ ledger'[i].captain = c
              /\ ledger'[i].type = "DEDUCTION" /\ ledger'[i].order = {o}
      BY <1>1, <3>2, <3>3
    <3>5. Deducted(c, o)'
      BY <3>4 DEF Deducted
    <3>6. order'[o].captain = c
      BY <2>1, <3>3, CommitPays
    <3> QED BY <3>5, <3>6 DEF Paid
  <2>2. CASE o \notin tx[t].order
    <3>1. order'[o] = order[o] /\ Paid(o)
      BY <2>2, CommitPays DEF PInv
    <3> QED BY <1>1, <3>1 DEF Paid
  <2> QED BY <2>1, <2>2
<1> QED BY <1>3, <1>4, <1>5 DEF PInv

\* Whoever gives the order away waits for its lock, and reopens it.
LEMMA RedispatchKeeps ==
    ASSUME PInv, NEW o \in Order, NEW c \in Captain \cup {NoCaptain}, Redispatch(o, c)
    PROVE  PInv'
<1>1. /\ order' = [order EXCEPT ![o] = [delivered |-> FALSE, captain |-> c]]
      /\ UNCHANGED <<account, ledger, tx>>
  BY DEF Redispatch
<1>2. TypeOK'
  BY <1>1 DEF PInv, TypeOK, OrderRow
<1>3. ~order'[o].delivered /\ \A p \in Order \ {o} : order'[p] = order[p]
  BY <1>1 DEF PInv, TypeOK
<1>4. ASSUME NEW u \in Request PROVE Held(u)'
  <2>1. CASE At(u, "account")
    <3>1. Held(u) /\ o \notin tx[u].order /\ tx[u].order \subseteq Order
      BY <2>1 DEF Redispatch, Locked, PInv, TypeOK, Transaction, At
    <3> QED BY <1>1, <1>3, <3>1 DEF Held, At
  <2>2. CASE ~At(u, "account")
    BY <1>1, <2>2 DEF Held, At
  <2> QED BY <2>1, <2>2
<1>5. \A p \in Order : Paid(p)'
  BY <1>1, <1>3 DEF PInv, Paid, Deducted
<1> QED BY <1>2, <1>4, <1>5 DEF PInv

LEMMA NextPInv == PInv /\ [Next]_vars => PInv'
<1> SUFFICES ASSUME PInv, [Next]_vars PROVE PInv'
  OBVIOUS
<1>1. CASE \E t \in Request, c \in Captain :
              \/ \E a \in Charges : Charge(t, c, a)
              \/ \E a \in Adjustments : Adjust(t, c, a)
  BY <1>1, BeginKeeps
<1>2. CASE \E t \in Request : Commit(t)
  BY <1>2, CommitKeeps
<1>3. CASE \E t \in Request : Rollback(t)
  BY <1>3, BeginKeeps
<1>4. CASE \E t \in Request, o \in Order : Deliver(t, o)
  BY <1>4, BeginKeeps
<1>5. CASE \E t \in Request, o \in Order : UpdateOrder(t, o)
  BY <1>5, UpdateKeeps
<1>6. CASE \E o \in Order, c \in Captain \cup {NoCaptain} : Redispatch(o, c)
  BY <1>6, RedispatchKeeps
<1>7. CASE UNCHANGED vars
  BY <1>7 DEF vars, PInv, TypeOK, Held, At, Paid, Deducted
<1> QED BY <1>1, <1>2, <1>3, <1>4, <1>5, <1>6, <1>7 DEF Next

\* Every reachable state: rows typed, locks held, deliveries paid.
THEOREM AccountsInvariance == Spec => []PInv
BY InitPInv, NextPInv, PTL DEF Spec

\* The rows and the transactions keep their types, whatever overlaps.
THEOREM AccountsTyped == Spec => []TypeOK
<1>1. PInv => TypeOK
  BY DEF PInv
<1> QED BY <1>1, AccountsInvariance, PTL

\* A delivered order is paid for by the captain it names.
THEOREM DeliveriesPaid == Spec => []DeliveredIsPaid
<1>1. PInv => DeliveredIsPaid
  BY DEF PInv, Paid, DeliveredIsPaid
<1> QED BY <1>1, AccountsInvariance, PTL

\* A deduction commits together with the delivery, from the captain the order names.
THEOREM DeductionsDeliver == Spec => DeductedOnDelivery
<1> DEFINE Fresh == \A i \in DOMAIN ledger' \ DOMAIN ledger : ledger'[i].type = "DEDUCTION" =>
               \A o \in ledger'[i].order : order'[o].delivered /\ order'[o].captain = ledger'[i].captain
<1>1. PInv /\ [Next]_vars => [Fresh]_vars
  <2> SUFFICES ASSUME PInv, Next PROVE Fresh
    BY DEF vars
  <2>1. CASE \E t \in Request : Commit(t)
    <3>1. PICK t \in Request : Commit(t)
      BY <2>1
    <3> DEFINE row == [captain |-> tx[t].captain, type |-> tx[t].type, amount |-> tx[t].amount,
                       after |-> tx[t].read + tx[t].amount, order |-> tx[t].order]
    <3>2. /\ DOMAIN ledger' = DOMAIN ledger \cup {Len(ledger) + 1}
          /\ ledger'[Len(ledger) + 1] = row
      BY <3>1, CommitFacts
    <3>3. \A o \in tx[t].order : order'[o].delivered /\ order'[o].captain = tx[t].captain
      BY <3>1, CommitPays
    <3> QED BY <3>2, <3>3
  <2>2. CASE ~\E t \in Request : Commit(t)
    <3>1. UNCHANGED ledger
      BY <2>2 DEF Next, Charge, Adjust, Deliver, UpdateOrder, Rollback, Redispatch
    <3> QED BY <3>1
  <2> QED BY <2>1, <2>2
<1> QED BY <1>1, AccountsInvariance, PTL DEF Spec, DeductedOnDelivery

-----------------------------------------------------------------------------
(* What the ledger adds up to.  The library's induction theorems take the formula to be      *)
(* proved as a parameter; here a set without a least element does for them.                  *)

\* Of some numbers one is the least.
LEMMA Least ==
    ASSUME NEW S \in SUBSET Nat, S # {}
    PROVE  \E n \in S : \A m \in S : n <= m
<1>1. PICK n \in S : \A m \in S : ~(<<m, n>> \in OpToRel(<, Nat))
  BY NatLessThanWellFounded, WFMin, Zenon
<1>2. \A m \in S : ~(m < n)
  BY <1>1 DEF OpToRel
<1> QED BY <1>2

\* The sums of the first 0, 1, ..., n amounts.
Runs(amounts, n) == {sum \in [0 .. n -> Int] :
    sum[0] = 0 /\ \A i \in 1 .. n : sum[i] = sum[i - 1] + amounts[i]}

\* They can be formed, one amount after the other.
LEMMA RunsExist ==
    ASSUME NEW amounts \in Seq(Int)
    PROVE  \A n \in 0 .. Len(amounts) : \E sum : sum \in Runs(amounts, n)
<1> DEFINE Missing == {n \in 0 .. Len(amounts) : ~\E sum : sum \in Runs(amounts, n)}
<1> SUFFICES ASSUME Missing # {} PROVE FALSE
  OBVIOUS
<1>1. PICK n \in Missing : \A m \in Missing : n <= m
  <2>1. Missing \in SUBSET Nat
    OBVIOUS
  <2> HIDE DEF Missing
  <2> QED BY <2>1, Least
<1>2. n \in 0 .. Len(amounts) /\ ~\E sum : sum \in Runs(amounts, n)
  OBVIOUS
<1>3. n # 0
  <2>1. [i \in 0 .. 0 |-> 0] \in Runs(amounts, 0)
    BY DEF Runs
  <2> QED BY <1>2, <2>1
<1>4. PICK sum : sum \in Runs(amounts, n - 1)
  BY <1>1, <1>2, <1>3
<1> DEFINE longer == [i \in 0 .. n |-> IF i = n THEN sum[n - 1] + amounts[n] ELSE sum[i]]
<1>5. longer \in Runs(amounts, n)
  <2>1. n - 1 \in Nat /\ n \in 1 .. Len(amounts) /\ amounts[n] \in Int
    BY <1>2, <1>3
  <2>2. /\ sum \in [0 .. n - 1 -> Int] /\ sum[0] = 0
        /\ \A i \in 1 .. n - 1 : sum[i] = sum[i - 1] + amounts[i]
    BY <1>4 DEF Runs
  <2>3. longer \in [0 .. n -> Int]
    BY <2>1, <2>2
  <2>4. longer[0] = 0
    BY <2>1, <2>2
  <2>5. ASSUME NEW i \in 1 .. n PROVE longer[i] = longer[i - 1] + amounts[i]
    <3>1. CASE i = n
      BY <2>1, <3>1
    <3>2. CASE i \in 1 .. n - 1
      BY <2>1, <2>2, <3>2
    <3> QED BY <2>1, <3>1, <3>2
  <2> HIDE DEF longer
  <2> QED BY <2>3, <2>4, <2>5 DEF Runs
<1> QED BY <1>2, <1>5

\* Two such rows of sums agree as far as their amounts do.
LEMMA RunsAgree ==
    ASSUME NEW amounts, NEW others, NEW n \in Nat, NEW k \in Nat, n <= k,
           \A i \in 1 .. n : amounts[i] = others[i],
           NEW sum \in Runs(amounts, n), NEW run \in Runs(others, k)
    PROVE  sum[n] = run[n]
<1> DEFINE Apart == {i \in 0 .. n : sum[i] # run[i]}
<1> SUFFICES ASSUME Apart # {} PROVE FALSE
  OBVIOUS
<1>1. PICK i \in Apart : \A m \in Apart : i <= m
  <2>1. Apart \in SUBSET Nat
    OBVIOUS
  <2> HIDE DEF Apart
  <2> QED BY <2>1, Least
<1>2. i \in 0 .. n /\ sum[i] # run[i]
  OBVIOUS
<1>3. i # 0
  BY <1>2 DEF Runs
<1>4. i - 1 \in 0 .. n /\ i - 1 \notin Apart
  BY <1>1, <1>2, <1>3
<1>5. sum[i - 1] = run[i - 1]
  BY <1>4
<1>6. i \in 1 .. n /\ i \in 1 .. k
  BY <1>2, <1>3
<1>7. sum[i] = sum[i - 1] + amounts[i] /\ run[i] = run[i - 1] + others[i] /\ amounts[i] = others[i]
  BY <1>6 DEF Runs
<1> QED BY <1>2, <1>5, <1>7

\* A total is the last of its sums: the recursion that defines it has a solution.
LEMMA TotalRuns ==
    ASSUME NEW amounts \in Seq(Int)
    PROVE  \E sum \in Runs(amounts, Len(amounts)) : Total(amounts) = sum[Len(amounts)]
<1> DEFINE N == Len(amounts)
           Solves(f) == f = [n \in 0 .. N |-> IF n = 0 THEN 0 ELSE f[n - 1] + amounts[n]]
           g == CHOOSE f : Solves(f)
<1>0. N \in Nat /\ \A i \in 1 .. N : amounts[i] \in Int
  OBVIOUS
<1>1. PICK sum : sum \in Runs(amounts, N)
  BY RunsExist
<1>2. Solves(sum)
  BY <1>0, <1>1 DEF Runs
<1>3. Solves(g)
  BY <1>2
<1>4. Total(amounts) = g[N]
  BY DEF Total
<1> HIDE DEF g
<1>5. /\ g[0] = 0
      /\ \A i \in 1 .. N : g[i] = g[i - 1] + amounts[i]
      /\ DOMAIN g = 0 .. N
  BY <1>0, <1>3
<1> HIDE DEF N, Solves
<1> DEFINE Apart == {i \in 0 .. N : sum[i] # g[i]}
<1>6. Apart = {}
  <2> SUFFICES ASSUME Apart # {} PROVE FALSE
    OBVIOUS
  <2>1. PICK i \in Apart : \A m \in Apart : i <= m
    <3>1. Apart \in SUBSET Nat
      BY <1>0
    <3> HIDE DEF Apart
    <3> QED BY <3>1, Least
  <2>2. i \in 0 .. N /\ sum[i] # g[i]
    OBVIOUS
  <2>3. i # 0
    BY <1>1, <1>5, <2>2 DEF Runs
  <2>4. sum[i - 1] = g[i - 1]
    BY <1>0, <2>1, <2>2, <2>3
  <2>5. sum[i] = sum[i - 1] + amounts[i]
    BY <1>0, <1>1, <2>2, <2>3 DEF Runs
  <2> QED BY <1>0, <1>5, <2>2, <2>3, <2>4, <2>5
<1>7. sum[N] = g[N]
  BY <1>0, <1>6
<1> QED BY <1>1, <1>4, <1>7 DEF N

\* One amount more adds that amount.
LEMMA TotalAppended ==
    ASSUME NEW amounts \in Seq(Int), NEW more \in Int
    PROVE  Total(amounts) \in Int /\ Total(Append(amounts, more)) = Total(amounts) + more
<1> DEFINE longer == Append(amounts, more)
           n == Len(amounts)
<1>1. /\ longer \in Seq(Int) /\ Len(longer) = n + 1 /\ longer[n + 1] = more
      /\ n \in Nat /\ \A i \in 1 .. n : amounts[i] = longer[i]
  OBVIOUS
<1>2. PICK sum \in Runs(amounts, n) : Total(amounts) = sum[n]
  BY TotalRuns
<1> HIDE DEF longer
<1>3. PICK run \in Runs(longer, n + 1) : Total(longer) = run[n + 1]
  BY <1>1, TotalRuns
<1> HIDE DEF n
<1>4. sum[n] = run[n]
  BY <1>1, <1>2, <1>3, RunsAgree
<1>5. sum[n] \in Int /\ run[n + 1] = run[n] + more
  BY <1>1, <1>2, <1>3 DEF Runs
<1> QED BY <1>2, <1>3, <1>4, <1>5 DEF longer

\* The amounts a sum of c's rows is about.
Amounts(rows, c, types) ==
    [i \in DOMAIN rows |-> IF rows[i].captain = c /\ rows[i].type \in types THEN rows[i].amount ELSE 0]

LEMMA AmountsAppended ==
    ASSUME NEW rows \in Seq(LedgerRow), NEW new \in LedgerRow, NEW c, NEW types,
           NEW more, more = IF new.captain = c /\ new.type \in types THEN new.amount ELSE 0
    PROVE  /\ Amounts(rows, c, types) \in Seq(Int)
           /\ Amounts(Append(rows, new), c, types) = Append(Amounts(rows, c, types), more)
<1> DEFINE longer == Append(rows, new)
           n == Len(rows)
           A == Amounts(rows, c, types)
           B == Amounts(longer, c, types)
<1>1. /\ longer \in Seq(LedgerRow) /\ Len(longer) = n + 1 /\ longer[n + 1] = new
      /\ n \in Nat /\ DOMAIN rows = 1 .. n /\ DOMAIN longer = 1 .. n + 1
      /\ \A i \in 1 .. n : rows[i] \in LedgerRow /\ longer[i] = rows[i]
  OBVIOUS
<1>2. more \in Int
  BY DEF LedgerRow
<1> HIDE DEF longer, n
<1>3. A \in [1 .. n -> Int]
  BY <1>1 DEF Amounts, LedgerRow
<1>4. B \in [1 .. n + 1 -> Int]
  BY <1>1 DEF Amounts, LedgerRow
<1>5. B[n + 1] = more /\ \A i \in 1 .. n : B[i] = A[i]
  BY <1>1 DEF Amounts
<1> HIDE DEF A, B
<1>6. A \in Seq(Int) /\ Len(A) = n /\ B \in Seq(Int) /\ Len(B) = n + 1
  BY <1>1, <1>3, <1>4
<1>7. Append(A, more) \in Seq(Int) /\ Len(Append(A, more)) = n + 1
  BY <1>2, <1>6
<1>8. ASSUME NEW i \in 1 .. n + 1 PROVE Append(A, more)[i] = B[i]
  <2>1. CASE i = n + 1
    <3>1. Append(A, more)[n + 1] = more
      BY <1>2, <1>6
    <3> QED BY <1>5, <2>1, <3>1
  <2>2. CASE i \in 1 .. n
    <3>1. Append(A, more)[i] = A[i]
      BY <1>2, <1>6, <2>2
    <3> QED BY <1>5, <2>2, <3>1
  <2>3. i = n + 1 \/ i \in 1 .. n
    BY <1>1
  <2> QED BY <2>1, <2>2, <2>3
<1>9. B = Append(A, more)
  BY <1>6, <1>7, <1>8
<1> QED BY <1>6, <1>9 DEF A, B, longer

\* A commit adds its amount to each sum its row belongs to.
LEMMA CommitSums ==
    ASSUME PInv, NEW t \in Request, Commit(t), NEW c, NEW types
    PROVE  /\ Sum(c, types) \in Int
           /\ Sum(c, types)' = Sum(c, types)
                + (IF tx[t].captain = c /\ tx[t].type \in types THEN tx[t].amount ELSE 0)
<1> DEFINE row == [captain |-> tx[t].captain, type |-> tx[t].type, amount |-> tx[t].amount,
                   after |-> tx[t].read + tx[t].amount, order |-> tx[t].order]
<1>1. /\ row \in LedgerRow /\ ledger' = Append(ledger, row)
      /\ ledger'[Len(ledger) + 1] = row
      /\ \A i \in DOMAIN ledger : ledger'[i] = ledger[i]
  BY CommitFacts
<1>2. ledger \in Seq(LedgerRow)
  BY DEF PInv, TypeOK
<1>3. PICK rows \in Seq(LedgerRow) : rows = ledger
  BY <1>2
<1>4. PICK new \in LedgerRow : new = row
  BY <1>1
<1>5. PICK more \in Int : more = IF new.captain = c /\ new.type \in types THEN new.amount ELSE 0
  BY DEF LedgerRow
<1>6. /\ Sum(c, types) = Total(Amounts(rows, c, types))
      /\ Sum(c, types)' = Total(Amounts(Append(rows, new), c, types))
  <2>1. Sum(c, types) = Total(Amounts(ledger, c, types)) /\ Sum(c, types)' = Total(Amounts(ledger', c, types))
    BY DEF Sum, Amounts
  <2>2. ledger' = Append(rows, new)
    BY <1>1, <1>3, <1>4
  <2> QED BY <1>3, <2>1, <2>2
<1>7. Amounts(rows, c, types) \in Seq(Int)
      /\ Amounts(Append(rows, new), c, types) = Append(Amounts(rows, c, types), more)
  BY <1>5, AmountsAppended
<1>8. new.captain = tx[t].captain /\ new.type = tx[t].type /\ new.amount = tx[t].amount
  BY <1>4
<1> QED BY <1>5, <1>6, <1>7, <1>8, TotalAppended

\* The account a commit leaves.
LEMMA CommitMoves ==
    ASSUME PInv, NEW t \in Request, Commit(t), NEW c \in Captain
    PROVE  /\ account[c] \in AccountRow /\ tx[t].amount \in Int /\ tx[t].read \in Int
           /\ tx[t].type \in Movement /\ tx[t].captain \in Captain
           /\ account'[c].balance = IF tx[t].captain = c THEN tx[t].read + tx[t].amount ELSE account[c].balance
           /\ account'[c].charged = account[c].charged
                + (IF tx[t].captain = c /\ tx[t].type \in {"CHARGE"} THEN tx[t].amount ELSE 0)
           /\ account'[c].deducted = account[c].deducted
                - (IF tx[t].captain = c /\ tx[t].type \in {"DEDUCTION"} THEN tx[t].amount ELSE 0)
<1>1. tx[t] \in [at : {"account"}, order : SUBSET Order, captain : Captain,
                 type : Movement, amount : Int, read : Int]
  BY CommitFacts
<1>2. account \in [Captain -> AccountRow]
  BY DEF PInv, TypeOK
<1>3. account' = [account EXCEPT ![tx[t].captain] =
                     Moved(account[tx[t].captain], tx[t].type, tx[t].amount, tx[t].read)]
  BY DEF Commit
<1>4. account'[c] = IF tx[t].captain = c THEN Moved(account[c], tx[t].type, tx[t].amount, tx[t].read)
                    ELSE account[c]
  BY <1>1, <1>2, <1>3
<1>5. account[c].charged \in Int /\ account[c].deducted \in Int /\ account[c].balance \in Int
  BY <1>2 DEF AccountRow
<1> QED BY <1>1, <1>2, <1>4, <1>5 DEF Moved

\* Nothing else writes an account or the ledger.
LEMMA OnlyCommits ==
    ASSUME [Next]_vars, ~\E t \in Request : Commit(t)
    PROVE  UNCHANGED <<account, ledger>>
BY DEF Next, vars, Charge, Adjust, Deliver, UpdateOrder, Reads, Rollback, Redispatch

LEMMA InitSums ==
    ASSUME Init
    PROVE  TotalsAdd /\ BalanceIsLedger
<1>1. \A c, types : Amounts(ledger, c, types) = <<>>
  BY DEF Init, Amounts
<1>2. Len(<<>>) = 0 /\ <<>> \in Seq(Int)
  OBVIOUS
<1>3. Total(<<>>) = 0
  <2>1. PICK sum \in Runs(<<>>, 0) : Total(<<>>) = sum[0]
    BY <1>2, TotalRuns
  <2> QED BY <2>1 DEF Runs
<1>4. \A c, types : Sum(c, types) = 0
  BY <1>1, <1>3 DEF Sum, Amounts
<1>5. \A c \in Captain : account[c].balance = 0 /\ account[c].charged = 0 /\ account[c].deducted = 0
  BY DEF Init
<1> QED BY <1>4, <1>5 DEF TotalsAdd, BalanceIsLedger

\* totalCharged and totalDeducted are what the ledger's rows add up to, however many charges and
\* deliveries overlap and however long the ledger grows.
THEOREM TotalsAlwaysAdd == Spec => []TotalsAdd
<1>1. ASSUME PInv, TotalsAdd, [Next]_vars PROVE TotalsAdd'
  <2>1. CASE \E t \in Request : Commit(t)
    <3>1. PICK t \in Request : Commit(t)
      BY <2>1
    <3>2. ASSUME NEW c \in Captain
          PROVE  account'[c].charged = Sum(c, {"CHARGE"})' /\ account'[c].deducted = -Sum(c, {"DEDUCTION"})'
      <4>1. account[c].charged = Sum(c, {"CHARGE"}) /\ account[c].deducted = -Sum(c, {"DEDUCTION"})
        BY <1>1 DEF TotalsAdd
      <4>2. Sum(c, {"CHARGE"}) \in Int /\ Sum(c, {"DEDUCTION"}) \in Int /\ tx[t].amount \in Int
        BY <1>1, <3>1, CommitSums, CommitMoves
      <4>3. /\ Sum(c, {"CHARGE"})' = Sum(c, {"CHARGE"})
                 + (IF tx[t].captain = c /\ tx[t].type \in {"CHARGE"} THEN tx[t].amount ELSE 0)
            /\ Sum(c, {"DEDUCTION"})' = Sum(c, {"DEDUCTION"})
                 + (IF tx[t].captain = c /\ tx[t].type \in {"DEDUCTION"} THEN tx[t].amount ELSE 0)
        BY <1>1, <3>1, CommitSums
      <4>4. /\ account'[c].charged = account[c].charged
                 + (IF tx[t].captain = c /\ tx[t].type \in {"CHARGE"} THEN tx[t].amount ELSE 0)
            /\ account'[c].deducted = account[c].deducted
                 - (IF tx[t].captain = c /\ tx[t].type \in {"DEDUCTION"} THEN tx[t].amount ELSE 0)
        BY <1>1, <3>1, CommitMoves
      <4> QED BY <4>1, <4>2, <4>3, <4>4
    <3> QED BY <3>2 DEF TotalsAdd
  <2>2. CASE ~\E t \in Request : Commit(t)
    BY <1>1, <2>2, OnlyCommits DEF TotalsAdd, Sum
  <2> QED BY <2>1, <2>2
<1>2. Init => TotalsAdd
  BY InitSums
<1> QED BY <1>1, <1>2, AccountsInvariance, PTL DEF Spec

\* The balance a transaction has read is still the captain's.
Current == \A t \in Request : At(t, "account") => tx[t].read = account[tx[t].captain].balance

\* With one request at a time the balance is what the ledger adds up to: only an overlap loses an
\* amount, as the run balance_lost shows with two.
THEOREM OneByOneNothingIsLost ==
    ASSUME \A t, u \in Request : t = u
    PROVE  Spec => []BalanceIsLedger
<1>1. ASSUME PInv, BalanceIsLedger, Current, [Next]_vars PROVE BalanceIsLedger' /\ Current'
  <2>1. CASE \E t \in Request : Commit(t)
    <3>1. PICK t \in Request : Commit(t)
      BY <2>1
    <3>2. ASSUME NEW c \in Captain PROVE account'[c].balance = Sum(c, Movement)'
      <4>1. /\ Sum(c, Movement) \in Int
            /\ Sum(c, Movement)' = Sum(c, Movement)
                 + (IF tx[t].captain = c /\ tx[t].type \in Movement THEN tx[t].amount ELSE 0)
        BY <1>1, <3>1, CommitSums
      <4>2. /\ tx[t].amount \in Int /\ tx[t].type \in Movement
            /\ account'[c].balance = IF tx[t].captain = c THEN tx[t].read + tx[t].amount ELSE account[c].balance
        BY <1>1, <3>1, CommitMoves
      <4>3. account[c].balance = Sum(c, Movement)
        BY <1>1 DEF BalanceIsLedger
      <4>4. tx[t].captain = c => tx[t].read = account[c].balance
        BY <1>1, <3>1 DEF Current, Commit
      <4> QED BY <4>1, <4>2, <4>3, <4>4
    <3>3. \A u \in Request : tx'[u] = NoTx
      BY <1>1, <3>1 DEF Commit, PInv, TypeOK
    <3> QED BY <3>2, <3>3 DEF BalanceIsLedger, Current, At
  <2>2. CASE ~\E t \in Request : Commit(t)
    <3>1. UNCHANGED <<account, ledger>>
      BY <1>1, <2>2, OnlyCommits
    <3>2. ASSUME NEW u \in Request, At(u, "account")' PROVE tx'[u].read = account[tx'[u].captain].balance
      <4>1. CASE tx'[u] = tx[u]
        BY <1>1, <3>2, <4>1 DEF Current, At
      <4>2. CASE \E c \in Captain, type \in Movement, amount \in Int, of \in SUBSET Order :
                    Reads(u, c, type, amount, of)
        BY <1>1, <4>2 DEF Reads, PInv, TypeOK
      <4>3. CASE tx' = [tx EXCEPT ![u] = NoTx] \/ \E o \in Order : Deliver(u, o)
        BY <1>1, <3>2, <4>3 DEF At, Deliver, PInv, TypeOK
      <4>4. tx' = tx \/ tx' = [tx EXCEPT ![u] = NoTx] \/ (\E o \in Order : Deliver(u, o))
            \/ \E c \in Captain, type \in Movement, amount \in Int, of \in SUBSET Order :
                    Reads(u, c, type, amount, of)
        <5>1. ASSUME NEW c \in Captain, NEW a \in Charges, Charge(u, c, a)
              PROVE  Reads(u, c, "CHARGE", a, {}) /\ "CHARGE" \in Movement /\ a \in Int /\ {} \in SUBSET Order
          BY <5>1, AmountAssumption DEF Charge, Movement
        <5>2. ASSUME NEW c \in Captain, NEW a \in Adjustments, Adjust(u, c, a)
              PROVE  Reads(u, c, "ADJUSTMENT", a, {}) /\ "ADJUSTMENT" \in Movement /\ a \in Int /\ {} \in SUBSET Order
          BY <5>2, AmountAssumption DEF Adjust, Movement
        <5>3. ASSUME NEW o \in Order, UpdateOrder(u, o), Owes(order[o].captain, o)
              PROVE  \E c \in Captain, type \in Movement, amount \in Int, of \in SUBSET Order :
                        Reads(u, c, type, amount, of)
          <6>1. order[o].captain \in Captain /\ -Commission[order[o].captain][o] \in Int
            BY <5>3, PrepaidAssumption, AmountAssumption DEF Owes
          <6>2. Reads(u, order[o].captain, "DEDUCTION", -Commission[order[o].captain][o], {o})
            BY <5>3 DEF UpdateOrder
          <6> QED BY <6>1, <6>2 DEF Movement
        <5>4. ASSUME NEW o \in Order, UpdateOrder(u, o), ~Owes(order[o].captain, o)
              PROVE  tx' = [tx EXCEPT ![u] = NoTx]
          BY <5>4 DEF UpdateOrder
        <5>5. \A t \in Request : t = u
          OBVIOUS
        <5>6. CASE Next
          BY <2>2, <5>1, <5>2, <5>3, <5>4, <5>5, <5>6 DEF Next, Rollback, Redispatch
        <5>7. CASE UNCHANGED vars
          BY <5>7 DEF vars
        <5> QED BY <1>1, <5>6, <5>7
      <4> QED BY <4>1, <4>2, <4>3, <4>4
    <3>3. Current'
      BY <3>1, <3>2 DEF Current
    <3>4. BalanceIsLedger'
      BY <1>1, <3>1 DEF BalanceIsLedger, Sum
    <3> QED BY <3>3, <3>4
  <2> QED BY <2>1, <2>2
<1>2. Init => BalanceIsLedger /\ Current
  BY InitSums DEF Init, Current, At
<1> QED BY <1>1, <1>2, AccountsInvariance, PTL DEF Spec
=============================================================================
