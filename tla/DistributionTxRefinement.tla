----------------------- MODULE DistributionTxRefinement -----------------------
(***************************************************************************)
(* DistributionTx implements Distribution: the proof, for one order, any     *)
(* captains, log ids and requests, and the handlers that lock the order      *)
(* first (the desk and the tick).                                           *)
(*                                                                         *)
(* Faithful says that what such a handler has read is still so when it       *)
(* commits: nobody else passes the lock.  With two orders that is false of   *)
(* the pool, which is read before the captain is locked.                    *)
(***************************************************************************)
EXTENDS DistributionTxProofs

(* The rows as the transaction r sees them. *)
OrdersOf(r) == Over(order, r.orders)
PoolOf(r) == AutoPool(OrdersOf(r), Ready)
DoneOf(r) == Completed(r.order, OrdersOf(r)[r.order], Over(log, r.logs))
RoundsOf(r) == Cardinality(DoneOf(r))

Existing == {l \in LogId : log[l] # NoLog}

\* The row a start or a resend has written.
Restarted(r) ==
    LET row == [order[r.order] EXCEPT !.before = Existing]
    IN  IF r.op = "RESEND" THEN [Released(row) EXCEPT !.mode = "AUTO"] ELSE row

\* The handler goes on to offer the order to the next captain.
Chained(r) ==
    \/ r.op \in Restart
    \/ r.op = "EXPIRE" /\ order[r.order].mode = "AUTO" /\ order[r.order].status = "ASSIGNED"

\* What r has written.
Written(r) ==
    /\ r.op \in Desk => \A l \in DOMAIN r.logs : r.logs[l].response = "CANCELLED"
    /\ r.op = "EXPIRE" /\ r.at \notin {"lock", "row"} =>
          DOMAIN r.logs = {r.row} /\ r.logs[r.row].response = "EXPIRED"
    /\ r.op \in Restart /\ r.at \in {"pool", "captain", "write"} =>
          DOMAIN r.orders = {r.order} /\ r.orders[r.order] = Restarted(r)

\* What r has found out about captains.
Found(r) ==
    /\ r.at \in {"pool", "captain"} => Chained(r)
    /\ r.at = "captain" =>
          r.rounds = RoundsOf(r) /\ RoundsOf(r) < MaxAttempts /\ r.pool = PoolOf(r)
    /\ r.at = "write" /\ r.captain = NoCaptain /\ Chained(r) =>
          PoolOf(r) = {} \/ RoundsOf(r) >= MaxAttempts
    /\ r.at = "write" /\ r.captain # NoCaptain /\ r.op \in Restart \cup {"EXPIRE"} =>
          /\ Chained(r) /\ RoundsOf(r) < MaxAttempts
          /\ r.captain \in PoolOf(r) /\ Picked(r.captain, PoolOf(r), r.order, RoundsOf(r))

Faithful(r) ==
    /\ r.op \in Keepers
    /\ r.op \notin {"ASSIGN", "REASSIGN"} /\ r.at # "write" => r.captain = NoCaptain
    /\ r.op = "EXPIRE" => r.row \in due
    /\ r.op \in Desk /\ r.at # "lock" => Allowed(r.op, order[r.order], r.status)
    /\ Written(r)
    /\ Found(r)

\* The log and the orders: the rows made before the last reset are closed.
RowsPlaced ==
    /\ \A o \in Order : ~order[o].archived /\ order[o].before \subseteq Existing
    /\ \A l \in LogId : Pending(l) => l \notin order[log[l].order].before
    /\ due \subseteq Existing

RefInv == FinalInv /\ RowsPlaced /\ \A t \in Request : tx[t] # NoTx => Faithful(tx[t])

-----------------------------------------------------------------------------
(* The invariant. *)

\* Faithful looks at the committed rows only, but for the window, which stays over.
LEMMA FaithfulStays ==
  ASSUME UNCHANGED <<order, log>>, due \subseteq due', NEW r, Faithful(r)
  PROVE  Faithful(r)'
<1>1. /\ Existing' = Existing /\ (\A l : Pending(l)' = Pending(l)) /\ (Chained(r)' <=> Chained(r))
      /\ OrdersOf(r)' = OrdersOf(r)
  BY DEF Existing, Pending, Chained, OrdersOf
<1>2. PoolOf(r)' = PoolOf(r) /\ RoundsOf(r)' = RoundsOf(r)
  BY <1>1 DEF PoolOf, RoundsOf, DoneOf
<1>3. Restarted(r)' = Restarted(r)
  BY <1>1 DEF Restarted
<1>4. Written(r)' /\ Found(r)'
  BY <1>1, <1>2, <1>3 DEF Faithful, Written, Found
<1> QED BY <1>4 DEF Faithful

\* The reads of DistributionTx, of the transaction as it is.
LEMMA Reads ==
  ASSUME NEW t \in Request
  PROVE  /\ Orders(t) = OrdersOf(tx[t]) /\ Seen(t) = OrdersOf(tx[t])[tx[t].order]
         /\ Rounds(t) = RoundsOf(tx[t]) /\ AutoPool(Orders(t), Ready) = PoolOf(tx[t])
  BY DEF Orders, Seen, OrdersOf, Rounds, RoundsOf, DoneOf, PoolOf

\* Only a start or a resend sees another row of its order than the committed one.
LEMMA SeenCommitted ==
  ASSUME TxInv, NEW t \in Request, tx[t] # NoTx, DOMAIN tx[t].orders = {}
  PROVE  Seen(t) = order[tx[t].order]
  BY DEF Seen, Orders, Over, TxInv, RowsOK, TxRow

LEMMA LockFaithful ==
  ASSUME RefInv, NEW t \in Request, tx[t] # NoTx, Lock(t)
  PROVE  Faithful(tx'[t])
<1>1. TxInv /\ tx[t] \in TxRow /\ Sound(tx[t]) /\ Opens(tx[t]) /\ Faithful(tx[t])
  BY DEF RefInv, FinalInv, TxInv
<1>2. tx[t].op # "REJECT"
  BY <1>1 DEF Opens, Keepers, Desk, Restart
<1>3. PICK place \in {"cancel", "row"} :
         /\ Locked(t, place)
         /\ place = "cancel" => tx[t].op \in Desk /\ Allowed(tx[t].op, Seen(t), tx[t].status)
         /\ place = "row" => tx[t].op = "EXPIRE"
  BY <1>2 DEF Lock
<1>4. place \in Place
  BY DEF Place
<1>5. /\ tx[t].at = "lock" /\ tx'[t].op = tx[t].op /\ tx'[t].captain = tx[t].captain
      /\ tx'[t].row = tx[t].row /\ tx'[t].status = tx[t].status /\ tx'[t].order = tx[t].order
      /\ tx'[t].logs = tx[t].logs /\ tx'[t].orders = tx[t].orders /\ tx'[t].at = place
  BY <1>1, <1>3, <1>4, LockedDoes
<1>6. DOMAIN tx[t].orders = {} /\ DOMAIN tx[t].logs = {}
  BY <1>1, <1>5 DEF Sound, Writes, Faithful
<1>7. Seen(t) = order[tx[t].order]
  BY <1>1, <1>6, SeenCommitted
<1>8. Written(tx'[t]) /\ Found(tx'[t])
  BY <1>3, <1>5, <1>6 DEF Written, Found, Desk, Restart
<1>9. tx'[t].op \in Desk => Allowed(tx'[t].op, order[tx'[t].order], tx'[t].status)
  BY <1>3, <1>5, <1>7 DEF Desk, Restart
<1> QED BY <1>1, <1>5, <1>8, <1>9 DEF Faithful

LEMMA UpdateRowFaithful ==
  ASSUME RefInv, NEW t \in Request, tx[t] # NoTx, UpdateRow(t)
  PROVE  Faithful(tx'[t])
<1>1. TxInv /\ Opens(tx[t]) /\ Faithful(tx[t])
  BY DEF RefInv, FinalInv
<1>2. /\ tx[t].op = "EXPIRE" /\ tx[t].at = "row" /\ Sound(tx[t]) /\ tx[t].row \in LogId /\ log[tx[t].row] \in LogRow
      /\ tx'[t].op = "EXPIRE" /\ tx'[t].order = tx[t].order /\ tx'[t].captain = tx[t].captain
      /\ tx'[t].row = tx[t].row /\ tx'[t].orders = tx[t].orders
  BY <1>1, UpdateRowDoes DEF Opens, Keepers, Desk, Restart
<1>3. tx'[t].logs = [m \in {tx[t].row} |-> [log[tx[t].row] EXCEPT !.response = "EXPIRED"]]
  <2>1. Closing("EXPIRE") = "EXPIRED"
    BY DEF Closing
  <2> QED BY <1>1, <1>2, <2>1, UpdateRowDoes
<1>4. DOMAIN tx'[t].logs = {tx[t].row} /\ tx'[t].logs[tx[t].row].response = "EXPIRED"
  BY <1>2, <1>3 DEF LogRow
<1>5. Seen(t) = order[tx[t].order]
  <2>1. DOMAIN tx[t].orders = {}
    BY <1>2 DEF Sound, Writes, Restart
  <2> QED BY <1>1, <2>1, SeenCommitted
<1>6. tx'[t].at = IF Chained(tx[t]) THEN "pool" ELSE "write"
  <2>1. tx' = [tx EXCEPT ![t].at = IF Chained(tx[t]) THEN "pool" ELSE "write", ![t].logs = tx'[t].logs]
    BY <1>2, <1>3, <1>5 DEF UpdateRow, Chained, Closing, Restart
  <2>2. tx[t] \in TxRow
    BY <1>2 DEF Sound
  <2> QED BY <1>1, <2>1, <2>2 DEF TxInv, TxRow
<1>7. tx'[t].captain = NoCaptain
  BY <1>1, <1>2 DEF Faithful
<1>8. Chained(tx'[t]) <=> Chained(tx[t])
  BY <1>2 DEF Chained
<1>9. Written(tx'[t]) /\ Found(tx'[t])
  BY <1>2, <1>4, <1>6, <1>7, <1>8 DEF Written, Found, Desk, Restart
<1> QED BY <1>1, <1>2, <1>7, <1>9 DEF Faithful, Desk, Restart

LEMMA CancelRowsFaithful ==
  ASSUME RefInv, NEW t \in Request, tx[t] # NoTx, CancelRows(t)
  PROVE  Faithful(tx'[t])
<1>1. TxInv /\ Opens(tx[t]) /\ Faithful(tx[t])
  BY DEF RefInv, FinalInv
<1>2. /\ tx[t].op \in Desk /\ tx[t].at = "cancel" /\ Sound(tx[t])
      /\ tx'[t].op = tx[t].op /\ tx'[t].order = tx[t].order /\ tx'[t].captain = tx[t].captain
      /\ tx'[t].row = tx[t].row /\ tx'[t].status = tx[t].status
      /\ tx'[t].at = IF tx[t].op \in Restart THEN "reset" ELSE "write"
      /\ DOMAIN tx'[t].logs = DOMAIN tx[t].logs \cup PendingOf(tx[t].order)
      /\ \A l \in PendingOf(tx[t].order) \ DOMAIN tx[t].logs :
               tx'[t].logs[l] = [log[l] EXCEPT !.response = "CANCELLED"]
  BY <1>1, CancelRowsDoes DEF Opens, Keepers, Desk, Restart, Sound, Placed
<1>3. \A l \in DOMAIN tx'[t].logs : tx'[t].logs[l].response = "CANCELLED"
  <2>1. DOMAIN tx[t].logs = {}
    BY <1>2 DEF Sound, Writes
  <2>2. ASSUME NEW l \in PendingOf(tx[t].order)
        PROVE  tx'[t].logs[l].response = "CANCELLED"
    <3>1. log[l] \in LogRow
      BY <1>1 DEF PendingOf, Pending, TxInv, RowsOK
    <3>2. tx'[t].logs[l] = [log[l] EXCEPT !.response = "CANCELLED"]
      BY <1>2, <2>1
    <3> QED BY <3>1, <3>2 DEF LogRow
  <2> QED BY <1>2, <2>1, <2>2
<1>4. Written(tx'[t]) /\ Found(tx'[t])
  BY <1>2, <1>3 DEF Written, Found, Chained, Desk, Restart
<1> QED BY <1>1, <1>2, <1>4 DEF Faithful, Desk, Restart

LEMMA ResetFaithful ==
  ASSUME RefInv, NEW t \in Request, tx[t] # NoTx, Reset(t)
  PROVE  Faithful(tx'[t])
<1>1. TxInv /\ Faithful(tx[t])
  BY DEF RefInv, FinalInv
<1>2. /\ tx[t].op \in Restart /\ tx[t].at = "reset" /\ Sound(tx[t])
      /\ tx'[t].op = tx[t].op /\ tx'[t].order = tx[t].order /\ tx'[t].captain = tx[t].captain
      /\ tx'[t].row = tx[t].row /\ tx'[t].status = tx[t].status /\ tx'[t].logs = tx[t].logs
      /\ tx'[t].at = "pool" /\ DOMAIN tx'[t].orders = {tx[t].order}
  BY <1>1, ResetDoes
<1>3. Seen(t) = order[tx[t].order]
  <2>1. DOMAIN tx[t].orders = {}
    BY <1>2 DEF Sound, Writes
  <2> QED BY <1>1, <2>1, SeenCommitted
<1>4. tx'[t].orders[tx[t].order] = Restarted(tx'[t])
  BY <1>1, <1>2, <1>3, ResetDoes DEF Restarted, Existing
<1>5. Written(tx'[t]) /\ Found(tx'[t])
  BY <1>1, <1>2, <1>4 DEF Faithful, Written, Found, Chained, Desk, Restart
<1> QED BY <1>1, <1>2, <1>5 DEF Faithful, Desk, Restart

\* What the rows as seen by two transactions of the same writes are.
LEMMA SameWrites ==
  ASSUME NEW r, NEW s, r.order = s.order, r.logs = s.logs, r.orders = s.orders, r.op = s.op
  PROVE  /\ PoolOf(r) = PoolOf(s) /\ RoundsOf(r) = RoundsOf(s)
         /\ Restarted(r) = Restarted(s) /\ (Chained(r) <=> Chained(s))
  BY DEF PoolOf, OrdersOf, RoundsOf, DoneOf, Restarted, Chained

LEMMA ReadPoolFaithful ==
  ASSUME RefInv, NEW t \in Request, tx[t] # NoTx, ReadPool(t)
  PROVE  Faithful(tx'[t])
<1>1. TxInv /\ Faithful(tx[t])
  BY DEF RefInv, FinalInv
<1>2. /\ tx[t].at = "pool" /\ Sound(tx[t]) /\ Chained(tx[t])
      /\ tx'[t].op = tx[t].op /\ tx'[t].order = tx[t].order /\ tx'[t].captain = tx[t].captain
      /\ tx'[t].row = tx[t].row /\ tx'[t].status = tx[t].status /\ tx'[t].logs = tx[t].logs
      /\ tx'[t].orders = tx[t].orders
      /\ tx'[t].rounds = RoundsOf(tx[t])
      /\ \/ /\ PoolOf(tx[t]) = {} \/ RoundsOf(tx[t]) >= MaxAttempts
            /\ tx'[t].at = "write"
         \/ /\ RoundsOf(tx[t]) < MaxAttempts
            /\ tx'[t].at = "captain" /\ tx'[t].pool = PoolOf(tx[t])
  <2>1. Chained(tx[t])
    BY <1>1, ReadPoolDoes DEF Faithful, Found
  <2> QED BY <1>1, <2>1, Reads, ReadPoolDoes
<1>3. tx[t].op \notin {"ASSIGN", "REASSIGN"} /\ tx'[t].captain = NoCaptain
  <2>1. tx[t].op \notin {"ASSIGN", "REASSIGN"}
    BY <1>2 DEF Chained, Restart
  <2> QED BY <1>1, <1>2, <2>1 DEF Faithful
<1>4. /\ PoolOf(tx'[t]) = PoolOf(tx[t]) /\ RoundsOf(tx'[t]) = RoundsOf(tx[t])
      /\ Restarted(tx'[t]) = Restarted(tx[t]) /\ Chained(tx'[t])
  BY <1>2, SameWrites
<1>5. Found(tx'[t])
  BY <1>2, <1>3, <1>4 DEF Found
<1>6. Written(tx'[t])
  BY <1>1, <1>2, <1>4 DEF Faithful, Written
<1> QED BY <1>1, <1>2, <1>3, <1>5, <1>6 DEF Faithful

LEMMA LockCaptainFaithful ==
  ASSUME RefInv, NEW t \in Request, tx[t] # NoTx, NEW c \in Captain, LockCaptain(t, c)
  PROVE  Faithful(tx'[t])
<1>1. TxInv /\ Faithful(tx[t])
  BY DEF RefInv, FinalInv
<1>2. /\ tx[t].at = "captain" /\ Sound(tx[t]) /\ tx[t].op \in Restart \cup {"EXPIRE", "REJECT"}
      /\ tx'[t].op = tx[t].op /\ tx'[t].order = tx[t].order
      /\ tx'[t].row = tx[t].row /\ tx'[t].status = tx[t].status /\ tx'[t].logs = tx[t].logs
      /\ tx'[t].orders = tx[t].orders
  BY <1>1, LockCaptainDoes
<1>3. /\ Chained(tx[t]) /\ RoundsOf(tx[t]) < MaxAttempts
      /\ tx[t].pool = PoolOf(tx[t]) /\ tx[t].rounds = RoundsOf(tx[t])
  BY <1>1, <1>2 DEF Faithful, Found
\* The pool was read under the lock: c is still free.
<1>4. c \in PoolOf(tx[t]) /\ Picked(c, PoolOf(tx[t]), tx[t].order, RoundsOf(tx[t]))
  BY <1>3 DEF LockCaptain
<1>5. ~Busy(c, Orders(t))
  BY <1>4, Reads DEF AutoPool
<1>6. tx'[t].captain = c /\ tx'[t].at = "write" /\ c # NoCaptain
  BY <1>1, <1>5, LockCaptainDoes, CaptainAssumption
<1>7. /\ PoolOf(tx'[t]) = PoolOf(tx[t]) /\ RoundsOf(tx'[t]) = RoundsOf(tx[t])
      /\ Restarted(tx'[t]) = Restarted(tx[t]) /\ Chained(tx'[t])
  BY <1>2, <1>3, SameWrites
<1>8. Found(tx'[t])
  BY <1>2, <1>3, <1>4, <1>6, <1>7 DEF Found
<1>9. Written(tx'[t])
  BY <1>1, <1>2, <1>6, <1>7 DEF Faithful, Written
<1> QED BY <1>1, <1>2, <1>6, <1>8, <1>9 DEF Faithful

LEMMA StatementKeepsRef ==
  ASSUME RefInv, FinalInv', NEW t \in Request, tx[t] # NoTx, Statement(t)
  PROVE  RefInv'
<1>1. TxInv
  BY DEF RefInv, FinalInv
<1>2. UNCHANGED <<order, log, due>> /\ \A u \in Request \ {t} : tx'[u] = tx[u]
  BY <1>1, StatementDoes
<1>3. Faithful(tx'[t])
  BY LockFaithful, UpdateRowFaithful, CancelRowsFaithful, ResetFaithful, ReadPoolFaithful,
     LockCaptainFaithful DEF Statement
<1>4. \A r : Faithful(r) => Faithful(r)'
  BY <1>2, FaithfulStays
<1>5. ASSUME NEW u \in Request, tx'[u] # NoTx
      PROVE  Faithful(tx[u])'
  <2>1. Faithful(tx'[u])
    BY <1>2, <1>3, <1>5 DEF RefInv
  <2> QED BY <1>4, <2>1
<1>6. RowsPlaced'
  BY <1>2 DEF RefInv, RowsPlaced, Existing, Pending
<1> QED BY <1>5, <1>6 DEF RefInv

\* Nobody but t has passed the lock when t commits: there is one order.
LEMMA OthersWait ==
  ASSUME \A o, p \in Order : o = p,
         RefInv, NEW t \in Request, tx[t] # NoTx, At(t, "write"),
         NEW u \in Request \ {t}, tx[u] # NoTx
  PROVE  ~Locking(tx[u])
<1>1. TxInv /\ Locking(tx[t]) /\ tx[t].order = tx[u].order
  BY DEF RefInv, FinalInv, TxInv, TxRow, Locking, At, Faithful
<1> QED BY <1>1, LockIsExclusive

LEMMA CommitKeepsRef ==
  ASSUME \A o, p \in Order : o = p,
         RefInv, FinalInv', NEW t \in Request, tx[t] # NoTx, NEW row, NEW logs, Commits(t, row, logs)
  PROVE  RefInv'
<1>1. /\ TxInv /\ tx[t] \in TxRow /\ Sound(tx[t]) /\ Faithful(tx[t]) /\ Locking(tx[t])
      /\ At(t, "write") /\ due' = due /\ order' = [order EXCEPT ![tx[t].order] = row]
      /\ tx[t].order \in Order
  BY DEF RefInv, FinalInv, TxInv, Commits, Commit, Locking, At, TxRow, Faithful
<1>2. ASSUME NEW u \in Request, tx'[u] # NoTx
      PROVE  Faithful(tx[u])'
  <2>1. u # t /\ tx'[u] = tx[u] /\ tx[u] # NoTx
    BY <1>1, <1>2, CommitDoes
  <2>2. tx[u].op \in Keepers /\ tx[u].at = "lock"
    <3>1. ~Locking(tx[u])
      BY <1>1, <2>1, OthersWait
    <3> QED BY <2>1, <3>1 DEF Locking, RefInv, Faithful
  <2>3. DOMAIN tx[u].logs = {} /\ Faithful(tx[u])
    BY <2>1, <2>2 DEF RefInv, FinalInv, TxInv, Sound, Writes
  <2> QED BY <1>1, <2>1, <2>2, <2>3 DEF Faithful, Written, Found
<1>3. RowsPlaced'
  <2>1. /\ \A l \in LogId : log[l] # NoLog => log'[l] # NoLog
        /\ \A l \in LogId : log[l] # NoLog => log'[l].order = log[l].order
        /\ \A l \in LogId : log[l] # NoLog /\ Pending(l)' => Pending(l)
        /\ \A l \in LogId : log'[l] # log[l] => log'[l].order = tx[t].order
    BY <1>1, CommitDoes
  <2>2. Existing \subseteq Existing'
    BY <2>1 DEF Existing
  <2>3. ~row.archived /\ row.before \subseteq Existing
        /\ (tx[t].op \notin Restart => row.before = order[tx[t].order].before)
    <3>1. CASE tx[t].op \in Restart
      <4>1. tx[t].at = "write" /\ DOMAIN tx[t].orders = {tx[t].order}
            /\ tx[t].orders[tx[t].order] = Restarted(tx[t])
        BY <1>1, <3>1 DEF At, Faithful, Written
      <4>2. Seen(t) = Restarted(tx[t])
        BY <1>1, <4>1 DEF Seen, Orders, Over, TxInv, RowsOK
      <4>3. order[tx[t].order] \in TxOrderRow /\ ~order[tx[t].order].archived
        BY <1>1 DEF TxInv, RowsOK, RefInv, RowsPlaced
      <4>4. Restarted(tx[t]).archived = order[tx[t].order].archived /\ Restarted(tx[t]).before = Existing
        BY <4>3 DEF Restarted, Released, Detached, TxOrderRow
      <4> QED BY <3>1, <4>2, <4>3, <4>4 DEF Commits
    <3>2. CASE tx[t].op \notin Restart
      <4>1. DOMAIN tx[t].orders = {}
        BY <1>1, <3>2 DEF Sound, Writes
      <4>2. Seen(t) = order[tx[t].order]
        BY <1>1, <4>1, SeenCommitted
      <4> QED BY <1>1, <4>2 DEF Commits, RefInv, RowsPlaced
    <3> QED BY <3>1, <3>2
  <2>4. ASSUME NEW o \in Order
        PROVE  ~order'[o].archived /\ order'[o].before \subseteq Existing'
    BY <1>1, <2>2, <2>3, <2>4 DEF RefInv, RowsPlaced, TxInv, RowsOK
  <2>5. ASSUME NEW l \in LogId, Pending(l)'
        PROVE  l \notin order'[log'[l].order].before
    <3>1. log'[l].order \in Order
      <4>1. RowsOK'
        BY <1>1, CommitDoes
      <4> QED BY <2>5, <4>1 DEF Pending, RowsOK, LogRow
    <3>2. CASE log[l] = NoLog
      <4>1. l \notin Existing
        BY <3>2 DEF Existing
      <4> QED BY <1>1, <2>3, <3>1, <4>1 DEF RefInv, RowsPlaced, TxInv, RowsOK
    <3>3. CASE log[l] # NoLog
      <4>1. Pending(l) /\ log'[l].order = log[l].order /\ l \notin DOMAIN tx[t].logs
        BY <1>1, <2>5, <3>3, CommitDoes
      <4>2. CASE log[l].order = tx[t].order /\ tx[t].op \in Restart
        <5>1. l \in PendingOf(tx[t].order)
          BY <4>1, <4>2 DEF PendingOf
        <5> QED BY <1>1, <4>1, <4>2, <5>1 DEF Sound, Settled, Desk, At
      <4>3. CASE log[l].order # tx[t].order \/ tx[t].op \notin Restart
        BY <1>1, <2>3, <3>1, <4>1, <4>3 DEF RefInv, RowsPlaced, TxInv, RowsOK
      <4> QED BY <4>2, <4>3
    <3> QED BY <3>2, <3>3
  <2> QED BY <1>1, <2>2, <2>4, <2>5 DEF RefInv, RowsPlaced
<1> QED BY <1>2, <1>3 DEF RefInv

LEMMA RefStep ==
  ASSUME \A o, p \in Order : o = p, Ops \subseteq Keepers, RefInv, [Next]_vars
  PROVE  RefInv'
<1>1. TxInv /\ FinalInv'
  <2>1. Ops \cap {"ACCEPT", "REJECT"} = {}
    BY DEF Keepers, Desk, Restart
  <2> QED BY <2>1, FinalStep DEF RefInv, FinalInv
<1>2. CASE /\ UNCHANGED <<order, log>>
           /\ UNCHANGED due \/ \E l \in LogId : WindowElapses(l)
           /\ \A u \in Request : tx'[u] \in {NoTx, tx[u]} \/ Fresh(tx'[u])
  <2>1. due \subseteq due' /\ due' \subseteq Existing
    BY <1>1, <1>2 DEF RefInv, RowsPlaced, WindowElapses, Pending, Existing
  <2>2. ASSUME NEW u \in Request, tx'[u] # NoTx
        PROVE  Faithful(tx[u])'
    <3>1. Faithful(tx'[u])
      <4>1. CASE Fresh(tx'[u])
        <5>1. tx'[u].op \in Keepers /\ tx'[u].at = "lock"
          BY <4>1 DEF Fresh
        <5> QED BY <4>1, <5>1 DEF Fresh, Faithful, Written, Found
      <4> QED BY <1>2, <2>2, <4>1 DEF RefInv
    <3> QED BY <1>2, <2>1, <3>1, FaithfulStays
  <2>3. RowsPlaced'
    BY <1>2, <2>1 DEF RefInv, RowsPlaced, Existing, Pending
  <2> QED BY <1>1, <2>2, <2>3 DEF RefInv
<1> QED BY <1>1, <1>2, NextCases, StatementKeepsRef, CommitKeepsRef

LEMMA RefInit == Init => RefInv
<1> SUFFICES ASSUME Init PROVE RefInv
  OBVIOUS
<1>1. FinalInv
  BY TxInit DEF Init, FinalInv
<1>2. RowsPlaced
  BY DEF Init, RowsPlaced, Pending, Existing
<1> QED BY <1>1, <1>2 DEF Init, RefInv

-----------------------------------------------------------------------------
(* The rules of the two modules. *)

LEMMA AtomicBusy ==
  ASSUME NEW c, NEW rows
  PROVE  Atomic!Busy(c, rows) <=> Busy(c, rows)
  BY DEF Atomic!Busy, Busy, Atomic!Working, Working

LEMMA AtomicAutoPool ==
  ASSUME NEW rows, NEW caps
  PROVE  Atomic!AutoPool(rows, caps) = AutoPool(rows, caps)
  BY AtomicBusy DEF Atomic!AutoPool, AutoPool, Atomic!AutoEligible, AutoEligible

LEMMA AtomicCardinality == \A S : Atomic!Cardinality(S) = Cardinality(S)
  BY Zenon DEF Atomic!Cardinality, Cardinality

LEMMA AtomicPicked ==
  ASSUME NEW c, NEW pool, NEW o, NEW n
  PROVE  Atomic!Picked(c, pool, o, n) <=> Picked(c, pool, o, n)
<1>1. Atomic!Rank(c, pool) = Rank(c, pool)
  BY AtomicCardinality, Zenon DEF Atomic!Rank, Rank
<1> QED BY <1>1, AtomicCardinality, Zenon DEF Atomic!Picked, Picked

LEMMA AtomicWrites ==
  /\ \A row, s : Atomic!Detached(row, s) = Detached(row, s)
  /\ \A row : Atomic!Released(row) = Released(row)
  /\ \A row, c, k : Atomic!AssignedTo(row, c, k) = AssignedTo(row, c, k)
  BY Zenon DEF Atomic!Detached, Detached, Atomic!Released, Released, Atomic!AssignedTo, AssignedTo

\* What is kept of a row is written as the row is.
LEMMA AtomicRows ==
  ASSUME NEW row \in TxOrderRow
  PROVE  /\ AtomicRow(row).status = row.status /\ AtomicRow(row).captain = row.captain
         /\ AtomicRow(row).mode = row.mode /\ AtomicRow(row).archived = row.archived
         /\ AtomicRow(row) \in OrderRow
  BY DEF AtomicRow, TxOrderRow, OrderRow

Kept(s, c, m, a, b) == [status |-> s, captain |-> c, mode |-> m, archived |-> a, by |-> b]

LEMMA KeptWrites ==
  ASSUME NEW s, NEW c, NEW m, NEW a, NEW b, NEW x, NEW k
  PROVE  /\ Detached(Kept(s, c, m, a, b), x) = Kept(x, NoCaptain, m, a, "AUTO")
         /\ AssignedTo(Kept(s, c, m, a, b), x, k) = Kept("ASSIGNED", x, m, a, k)
<1>1. [Kept(s, c, m, a, b) EXCEPT !.status = x] = Kept(x, c, m, a, b)
  BY DEF Kept
<1>2. [Kept(x, c, m, a, b) EXCEPT !.captain = NoCaptain] = Kept(x, NoCaptain, m, a, b)
  BY DEF Kept
<1>3. [Kept(x, NoCaptain, m, a, b) EXCEPT !.by = "AUTO"] = Kept(x, NoCaptain, m, a, "AUTO")
  BY DEF Kept
<1>4. Detached(Kept(s, c, m, a, b), x) = Kept(x, NoCaptain, m, a, "AUTO")
  BY <1>1, <1>2, <1>3, Zenon DEF Detached
<1>5. [Kept(s, c, m, a, b) EXCEPT !.status = "ASSIGNED"] = Kept("ASSIGNED", c, m, a, b)
  BY DEF Kept
<1>6. [Kept("ASSIGNED", c, m, a, b) EXCEPT !.captain = x] = Kept("ASSIGNED", x, m, a, b)
  BY DEF Kept
<1>7. [Kept("ASSIGNED", x, m, a, b) EXCEPT !.by = k] = Kept("ASSIGNED", x, m, a, k)
  BY DEF Kept
<1>8. AssignedTo(Kept(s, c, m, a, b), x, k) = Kept("ASSIGNED", x, m, a, k)
  BY <1>5, <1>6, <1>7, Zenon DEF AssignedTo
<1> QED BY <1>4, <1>8

LEMMA AtomicDetached ==
  ASSUME NEW row \in TxOrderRow, NEW s
  PROVE  AtomicRow(Detached(row, s)) = Detached(AtomicRow(row), s)
<1>1. /\ Detached(row, s).status = s /\ Detached(row, s).captain = NoCaptain
      /\ Detached(row, s).mode = row.mode /\ Detached(row, s).archived = row.archived
      /\ Detached(row, s).by = "AUTO"
  BY DEF TxOrderRow, Detached
<1>2. AtomicRow(Detached(row, s)) = Kept(s, NoCaptain, row.mode, row.archived, "AUTO")
  BY <1>1, Zenon DEF AtomicRow, Kept
<1>3. AtomicRow(row) = Kept(row.status, row.captain, row.mode, row.archived, row.by)
  BY Zenon DEF AtomicRow, Kept
<1>4. Detached(Kept(row.status, row.captain, row.mode, row.archived, row.by), s)
      = Kept(s, NoCaptain, row.mode, row.archived, "AUTO")
  BY KeptWrites
<1> QED BY <1>2, <1>3, <1>4, Zenon

LEMMA AtomicReleased ==
  ASSUME NEW row \in TxOrderRow
  PROVE  AtomicRow(Released(row)) = Released(AtomicRow(row))
  BY AtomicDetached DEF Released

LEMMA AtomicAssigned ==
  ASSUME NEW row \in TxOrderRow, NEW c, NEW k
  PROVE  AtomicRow(AssignedTo(row, c, k)) = AssignedTo(AtomicRow(row), c, k)
<1>1. /\ AssignedTo(row, c, k).status = "ASSIGNED" /\ AssignedTo(row, c, k).captain = c
      /\ AssignedTo(row, c, k).mode = row.mode /\ AssignedTo(row, c, k).archived = row.archived
      /\ AssignedTo(row, c, k).by = k
  BY DEF TxOrderRow, AssignedTo
<1>2. AtomicRow(AssignedTo(row, c, k)) = Kept("ASSIGNED", c, row.mode, row.archived, k)
  BY <1>1, Zenon DEF AtomicRow, Kept
<1>3. AtomicRow(row) = Kept(row.status, row.captain, row.mode, row.archived, row.by)
  BY Zenon DEF AtomicRow, Kept
<1>4. AssignedTo(Kept(row.status, row.captain, row.mode, row.archived, row.by), c, k)
      = Kept("ASSIGNED", c, row.mode, row.archived, k)
  BY KeptWrites
<1> QED BY <1>2, <1>3, <1>4, Zenon

LEMMA AtomicFields ==
  ASSUME NEW row \in TxOrderRow, NEW x
  PROVE  /\ AtomicRow([row EXCEPT !.status = x]) = [AtomicRow(row) EXCEPT !.status = x]
         /\ AtomicRow([row EXCEPT !.mode = x]) = [AtomicRow(row) EXCEPT !.mode = x]
         /\ AtomicRow([row EXCEPT !.before = x]) = AtomicRow(row)
  BY DEF AtomicRow, TxOrderRow

\* Who is busy is seen in what is kept.
LEMMA AtomicPool ==
  ASSUME NEW rows \in [Order -> TxOrderRow]
  PROVE  AutoPool([o \in Order |-> AtomicRow(rows[o])], Ready) = AutoPool(rows, Ready)
<1> DEFINE kept == [o \in Order |-> AtomicRow(rows[o])]
<1>1. \A o \in Order : kept[o].status = rows[o].status /\ kept[o].captain = rows[o].captain
  BY AtomicRows
<1>2. DOMAIN kept = Order /\ DOMAIN rows = Order
  OBVIOUS
<1> HIDE DEF kept
<1>3. \A c : Busy(c, kept) <=> Busy(c, rows)
  BY <1>1, <1>2 DEF Busy
<1>4. AutoPool(kept, Ready) = AutoPool(rows, Ready)
  BY <1>3, Zenon DEF AutoPool
<1> QED BY <1>4 DEF kept

-----------------------------------------------------------------------------
(* What a commit does to what is kept. *)

\* The rows left open when t has closed its own.
OpenAfter(t) == [l \in LogId |-> IF l \in DOMAIN tx[t].logs THEN NoLog ELSE AtomicOffer[l]]

\* What t commits of the log when it offers its order to c.
Offering(t, l, c, k) == [m \in DOMAIN tx[t].logs \cup {l} |->
    IF m = l THEN [order |-> tx[t].order, captain |-> c, kind |-> k, response |-> "PENDING"]
             ELSE tx[t].logs[m]]

LEMMA CommitOrder ==
  ASSUME RefInv, NEW t \in Request, tx[t] # NoTx, NEW row, NEW logs, Commit(t, row, logs)
  PROVE  AtomicOrder' = [AtomicOrder EXCEPT ![tx[t].order] = AtomicRow(row)]
<1>1. /\ order' = [order EXCEPT ![tx[t].order] = row] /\ tx[t].order \in Order
      /\ order \in [Order -> TxOrderRow]
  BY DEF Commit, RefInv, FinalInv, TxInv, TxRow, RowsOK
<1>2. \A o \in Order : order'[o] = IF o = tx[t].order THEN row ELSE order[o]
  BY <1>1
<1>3. AtomicOrder' = [o \in Order |-> AtomicRow(order'[o])]
  BY DEF AtomicOrder, AtomicRow
<1> QED BY <1>1, <1>2, <1>3 DEF AtomicOrder

\* Without an offer.
LEMMA CommitCloses ==
  ASSUME RefInv, NEW t \in Request, tx[t] # NoTx, NEW row, Commit(t, row, tx[t].logs)
  PROVE  AtomicOffer' = OpenAfter(t)
<1>1. /\ \A l \in LogId : log'[l] = IF l \in DOMAIN tx[t].logs THEN tx[t].logs[l] ELSE log[l]
      /\ due' = due
  BY DEF Commit, Over, RefInv, FinalInv, TxInv, RowsOK
<1>2. \A l \in DOMAIN tx[t].logs : tx[t].logs[l].response # "PENDING"
  BY DEF RefInv, FinalInv, TxInv, Sound, Writes
<1>3. \A l \in LogId : Pending(l)' <=> Pending(l) /\ l \notin DOMAIN tx[t].logs
  BY <1>1, <1>2 DEF Pending
<1> QED BY <1>1, <1>3 DEF AtomicOffer, OpenAfter

\* With a new row.
LEMMA CommitOpens ==
  ASSUME RefInv, NEW t \in Request, tx[t] # NoTx, NEW row, NEW c \in Captain, NEW k \in Kind,
         NEW l \in LogId, log[l] = NoLog, Commit(t, row, Offering(t, l, c, k))
  PROVE  /\ ~Atomic!Live(l)
         /\ AtomicOffer' = [OpenAfter(t) EXCEPT ![l] = Atomic!NewOffer(tx[t].order, c, k)]
<1> DEFINE new == [order |-> tx[t].order, captain |-> c, kind |-> k, response |-> "PENDING"]
<1>1. ~Atomic!Live(l)
  BY DEF Atomic!Live, AtomicOffer, Pending
<1>2. l \notin DOMAIN tx[t].logs /\ l \notin due
  BY DEF RefInv, FinalInv, TxInv, Sound, Writes, RowsPlaced, Existing
<1>3. /\ \A m \in LogId : log'[m] = IF m = l THEN new
                                    ELSE IF m \in DOMAIN tx[t].logs THEN tx[t].logs[m] ELSE log[m]
      /\ due' = due
  BY DEF Commit, Over, Offering, RefInv, FinalInv, TxInv, RowsOK
<1>4. \A m \in DOMAIN tx[t].logs : tx[t].logs[m].response # "PENDING"
  BY DEF RefInv, FinalInv, TxInv, Sound, Writes
<1>5. new # NoLog
  <2>1. tx[t].order \in Order
    BY DEF RefInv, FinalInv, TxInv, TxRow
  <2>2. new \in LogRow
    BY <2>1 DEF LogRow, Response
  <2> QED BY <2>2, NoLogAssumption
<1>6. \A m \in LogId : Pending(m)' <=> m = l \/ (Pending(m) /\ m \notin DOMAIN tx[t].logs)
  BY <1>3, <1>4, <1>5 DEF Pending
<1>7. \A m \in LogId : AtomicOffer'[m] = IF m = l THEN Atomic!NewOffer(tx[t].order, c, k) ELSE OpenAfter(t)[m]
  <2>1. AtomicOffer'[l] = Atomic!NewOffer(tx[t].order, c, k)
    <3>1. AtomicOffer'[l] = [order |-> log'[l].order, captain |-> log'[l].captain,
                             kind |-> log'[l].kind, due |-> l \in due']
      BY <1>6 DEF AtomicOffer
    <3>2. (l \in due') = FALSE
      BY <1>2, <1>3
    <3>3. /\ log'[l].order = tx[t].order /\ log'[l].captain = c /\ log'[l].kind = k
      BY <1>3
    <3> QED BY <3>1, <3>2, <3>3, Zenon DEF Atomic!NewOffer
  <2>2. ASSUME NEW m \in LogId, m # l
        PROVE  AtomicOffer'[m] = OpenAfter(t)[m]
    <3>1. CASE Pending(m)'
      <4>1. Pending(m) /\ m \notin DOMAIN tx[t].logs /\ log'[m] = log[m]
        BY <1>3, <1>6, <2>2, <3>1
      <4>2. AtomicOffer'[m] = [order |-> log'[m].order, captain |-> log'[m].captain,
                               kind |-> log'[m].kind, due |-> m \in due']
        BY <3>1 DEF AtomicOffer
      <4> QED BY <1>3, <4>1, <4>2, Zenon DEF AtomicOffer, OpenAfter
    <3>2. CASE ~Pending(m)'
      BY <1>6, <2>2, <3>2 DEF AtomicOffer, OpenAfter
    <3> QED BY <3>1, <3>2
  <2> QED BY <2>1, <2>2
<1>8. AtomicOffer' = [m \in LogId |-> AtomicOffer'[m]]
  BY DEF AtomicOffer
<1>9. OpenAfter(t) = [m \in LogId |-> OpenAfter(t)[m]]
  BY DEF OpenAfter
<1> QED BY <1>1, <1>7, <1>8, <1>9

\* A row is kept while it is open.
LEMMA AtomicLive ==
  ASSUME RefInv, NEW l \in LogId
  PROVE  /\ Atomic!Live(l) <=> Pending(l)
         /\ Pending(l) => /\ AtomicOffer[l].order = log[l].order /\ AtomicOffer[l].kind = log[l].kind
                          /\ AtomicOffer[l].due <=> l \in due
<1>1. ~Pending(l) => AtomicOffer[l] = NoLog
  BY DEF AtomicOffer
<1>2. Pending(l) => AtomicOffer[l] = [order |-> log[l].order, captain |-> log[l].captain,
                                      kind |-> log[l].kind, due |-> l \in due]
  BY DEF AtomicOffer
<1>3. Pending(l) => AtomicOffer[l] # NoLog
  <2> SUFFICES ASSUME Pending(l) PROVE AtomicOffer[l] # NoLog
    OBVIOUS
  <2>1. log[l] \in LogRow
    BY DEF Pending, RefInv, FinalInv, TxInv, RowsOK
  <2>2. log[l].order \in Order /\ log[l].captain \in Captain /\ log[l].kind \in Kind
    BY <2>1 DEF LogRow
  <2>3. (l \in due) \in BOOLEAN
    OBVIOUS
  <2>4. ASSUME NEW o \in Order, NEW c \in Captain, NEW k \in Kind, NEW x \in BOOLEAN
        PROVE  [order |-> o, captain |-> c, kind |-> k, due |-> x] \in Atomic!OfferRow
    BY DEF Atomic!OfferRow, Atomic!Kind, Kind
  <2>5. AtomicOffer[l] \in Atomic!OfferRow
    BY <1>2, <2>2, <2>3, <2>4, Zenon
  <2> QED BY <2>5, NoOfferAssumption
<1>4. Pending(l) => (AtomicOffer[l].due <=> l \in due)
  <2>1. ASSUME NEW x PROVE [order |-> log[l].order, captain |-> log[l].captain,
                            kind |-> log[l].kind, due |-> x].due = x
    OBVIOUS
  <2> QED BY <1>2, <2>1, Zenon
<1> QED BY <1>1, <1>2, <1>3, <1>4 DEF Atomic!Live

\* The rows closed are those Distribution's handlers close: the desk's ...
LEMMA DeskCloses ==
  ASSUME RefInv, NEW t \in Request, tx[t] # NoTx, At(t, "write"), tx[t].op \in Desk
  PROVE  OpenAfter(t) = Atomic!CancelPending(tx[t].order)
<1>1. /\ \A l \in PendingOf(tx[t].order) : l \in DOMAIN tx[t].logs
      /\ \A l \in DOMAIN tx[t].logs : Pending(l) /\ log[l].order = tx[t].order
  BY DEF RefInv, FinalInv, TxInv, Sound, Settled, Opens, Writes, At
<1>2. \A l \in LogId : l \in DOMAIN tx[t].logs <=> Pending(l) /\ log[l].order = tx[t].order
  BY <1>1 DEF PendingOf
<1>3. \A l \in LogId : l \in DOMAIN tx[t].logs <=> Atomic!Live(l) /\ AtomicOffer[l].order = tx[t].order
  BY <1>2, AtomicLive
<1> QED BY <1>3, Zenon DEF OpenAfter, Atomic!CancelPending

\* ... and the tick's.
LEMMA TickCloses ==
  ASSUME RefInv, NEW t \in Request, tx[t] # NoTx, At(t, "write"), tx[t].op = "EXPIRE"
  PROVE  /\ OpenAfter(t) = Atomic!Without(tx[t].row)
         /\ tx[t].row \in LogId /\ Atomic!Live(tx[t].row) /\ AtomicOffer[tx[t].row].due
         /\ AtomicOffer[tx[t].row].order = tx[t].order
<1>1. /\ DOMAIN tx[t].logs = {tx[t].row} /\ Pending(tx[t].row) /\ tx[t].row \in due
      /\ tx[t].row \in LogId /\ log[tx[t].row].order = tx[t].order
  BY DEF RefInv, FinalInv, TxInv, Sound, Aims, Opens, At, Faithful, Written
<1>2. OpenAfter(t) = Atomic!Without(tx[t].row)
  BY <1>1, Zenon DEF OpenAfter, Atomic!Without
<1> QED BY <1>1, <1>2, AtomicLive

-----------------------------------------------------------------------------
(* The rounds. *)

LEMMA CommitCounts ==
  ASSUME \A o, p \in Order : o = p,
         RefInv, NEW t \in Request, tx[t] # NoTx, NEW row, NEW logs, Commit(t, row, logs),
         row.before = Seen(t).before,
         logs = tx[t].logs \/ \E l \in LogId : log[l] = NoLog /\ \E c, k : logs = Offering(t, l, c, k)
  PROVE  AtomicRounds' = [AtomicRounds EXCEPT ![tx[t].order] = RoundsOf(tx[t])]
<1> DEFINE o == tx[t].order
           mine == Over(log, tx[t].logs)
<1>1. /\ o \in Order /\ order'[o] = row /\ DOMAIN log = LogId
      /\ \A l \in DOMAIN tx[t].logs : log[l] # NoLog
      /\ \A l \in LogId : log'[l] = IF l \in DOMAIN logs THEN logs[l] ELSE log[l]
  BY DEF Commit, Over, RefInv, FinalInv, TxInv, TxRow, RowsOK, Sound, Writes
<1>2. \A m \in LogId : mine[m] = IF m \in DOMAIN tx[t].logs THEN tx[t].logs[m] ELSE log[m]
  BY <1>1 DEF Over
<1> HIDE DEF mine
<1>3. \A m \in LogId : log'[m] = mine[m] \/ (mine[m] = NoLog /\ log'[m].response = "PENDING")
  <2>1. CASE logs = tx[t].logs
    BY <1>1, <1>2, <2>1
  <2>2. CASE \E l \in LogId : log[l] = NoLog /\ \E c, k : logs = Offering(t, l, c, k)
    BY <1>1, <1>2, <2>2 DEF Offering
  <2> QED BY <2>1, <2>2
<1>4. Completed(o, order'[o], log') = Completed(o, Seen(t), mine)
  BY <1>1, <1>3, Zenon DEF Completed
<1>5. Completed(o, Seen(t), mine) = DoneOf(tx[t])
  BY Reads DEF DoneOf, mine
<1>6. AtomicRounds' = [p \in Order |-> Cardinality(Completed(p, order'[p], log'))]
  BY DEF AtomicRounds
<1>7. \A p \in Order : p = o
  BY <1>1
<1>8. AtomicRounds = [p \in Order |-> AtomicRounds[p]]
  BY DEF AtomicRounds
<1> QED BY <1>1, <1>4, <1>5, <1>6, <1>7, <1>8 DEF RoundsOf

\* A start or a resend counts from nothing.
LEMMA RestartCounts ==
  ASSUME RefInv, NEW t \in Request, tx[t] # NoTx, At(t, "write"), tx[t].op \in Restart
  PROVE  RoundsOf(tx[t]) = 0
<1>1. Seen(t) = Restarted(tx[t])
  BY DEF Seen, Orders, Over, RefInv, FinalInv, TxInv, RowsOK, TxRow, At, Faithful, Written
<1>2. Seen(t).before = Existing
  <2>1. order[tx[t].order] \in TxOrderRow
    BY DEF RefInv, FinalInv, TxInv, RowsOK, TxRow
  <2> QED BY <1>1, <2>1 DEF Restarted, Released, Detached, TxOrderRow
<1>3. \A l \in LogId : Over(log, tx[t].logs)[l] # NoLog => l \in Existing
  BY OverTyped DEF Existing, RefInv, FinalInv
<1>4. DoneOf(tx[t]) = {}
  BY <1>2, <1>3, Reads DEF DoneOf, Completed
<1> QED BY <1>4, FS_EmptySet DEF RoundsOf

\* The rest of the desk counts nothing: a cancelled row is not an attempt.
LEMMA DeskCounts ==
  ASSUME RefInv, NEW t \in Request, tx[t] # NoTx, At(t, "write"), tx[t].op \in Desk \ Restart
  PROVE  /\ Seen(t) = order[tx[t].order]
         /\ RoundsOf(tx[t]) = AtomicRounds[tx[t].order]
<1>1. Seen(t) = order[tx[t].order]
  BY SeenCommitted DEF RefInv, FinalInv, TxInv, Sound, Writes
<1>2. \A l \in DOMAIN tx[t].logs : Pending(l) /\ tx[t].logs[l].response = "CANCELLED"
  BY DEF RefInv, FinalInv, Opens, Faithful, Written
<1>3. \A l \in LogId : Over(log, tx[t].logs)[l] = IF l \in DOMAIN tx[t].logs THEN tx[t].logs[l] ELSE log[l]
  BY DEF Over, RefInv, FinalInv, TxInv, RowsOK
<1>4. DoneOf(tx[t]) = Completed(tx[t].order, order[tx[t].order], log)
  <2> DEFINE mine == Over(log, tx[t].logs)
  <2>1. \A l \in LogId : \/ mine[l] = log[l]
                         \/ mine[l].response = "CANCELLED" /\ log[l].response = "PENDING"
    BY <1>2, <1>3 DEF Pending
  <2>2. DoneOf(tx[t]) = Completed(tx[t].order, order[tx[t].order], mine)
    BY <1>1, Reads DEF DoneOf
  <2> HIDE DEF mine
  <2> QED BY <2>1, <2>2 DEF Completed
<1>5. tx[t].order \in Order
  BY DEF RefInv, FinalInv, TxInv, TxRow
<1> QED BY <1>1, <1>4, <1>5 DEF RoundsOf, AtomicRounds

\* The tick counts its row, if it is an automatic one.
LEMMA TickCounts ==
  ASSUME RefInv, NEW t \in Request, tx[t] # NoTx, At(t, "write"), tx[t].op = "EXPIRE"
  PROVE  /\ Seen(t) = order[tx[t].order]
         /\ RoundsOf(tx[t]) = Atomic!RoundsAfter(tx[t].row)
<1> DEFINE o == tx[t].order
           l == tx[t].row
           mine == Over(log, tx[t].logs)
           done == Completed(o, order[o], log)
<1>1. Seen(t) = order[o]
  BY SeenCommitted DEF RefInv, FinalInv, TxInv, Sound, Writes, Restart
<1>2. /\ DOMAIN tx[t].logs = {l} /\ tx[t].logs[l].response = "EXPIRED" /\ Pending(l)
      /\ l \in LogId /\ log[l].order = o /\ o \in Order /\ l \notin order[o].before
      /\ tx[t].logs[l].order = o /\ tx[t].logs[l].kind = log[l].kind
  BY DEF RefInv, FinalInv, TxInv, TxRow, Sound, Aims, Writes, Opens, At, Faithful, Written, RowsPlaced
<1>3. tx[t].logs[l] # NoLog
  BY <1>2, LogPartOut, NoLogAssumption DEF RefInv, FinalInv, TxInv, TxRow
<1>4. \A m \in LogId : mine[m] = IF m = l THEN tx[t].logs[l] ELSE log[m]
  BY <1>2 DEF Over, RefInv, FinalInv, TxInv, RowsOK
<1>5. DoneOf(tx[t]) = Completed(o, order[o], mine)
  BY <1>1, Reads DEF DoneOf
<1> HIDE DEF mine
<1>6. Completed(o, order[o], mine) = IF log[l].kind = "AUTO" THEN done \cup {l} ELSE done
  BY <1>2, <1>3, <1>4 DEF Completed, Pending
<1>7. l \notin done
  BY <1>2 DEF Completed, Pending
<1>8. IsFiniteSet(done) /\ Cardinality(done) \in Nat
  <2>1. done \subseteq {m \in LogId : log[m] # NoLog}
    BY DEF Completed
  <2> QED BY <2>1, FS_Subset, FS_CardinalityType DEF RefInv, FinalInv, TxInv, RowsOK
<1>9. RoundsOf(tx[t]) = Cardinality(done) + (IF log[l].kind = "AUTO" THEN 1 ELSE 0)
  <2> HIDE DEF done
  <2>1. Cardinality(done \cup {l}) = Cardinality(done) + 1
    BY <1>7, <1>8, FS_AddElement
  <2>2. RoundsOf(tx[t]) = Cardinality(IF log[l].kind = "AUTO" THEN done \cup {l} ELSE done)
    BY <1>5, <1>6 DEF RoundsOf
  <2> QED BY <1>8, <2>1, <2>2
<1>10. AtomicRounds[o] = Cardinality(done)
  BY <1>2 DEF AtomicRounds
<1>11. AtomicOffer[l].order = o /\ AtomicOffer[l].kind = log[l].kind
  BY <1>2, AtomicLive
<1> QED BY <1>1, <1>9, <1>10, <1>11 DEF Atomic!RoundsAfter

-----------------------------------------------------------------------------
(* The steps. *)

\* Distribution's rows do not look at a transaction.
LEMMA AtomicStutters ==
  ASSUME UNCHANGED <<order, log, due>>
  PROVE  UNCHANGED Atomic!vars
<1>1. AtomicOrder' = AtomicOrder
  BY DEF AtomicOrder, AtomicRow
<1>2. AtomicOffer' = AtomicOffer
  BY DEF AtomicOffer, Pending
<1>3. AtomicRounds' = AtomicRounds
  BY DEF AtomicRounds, Completed
<1> QED BY <1>1, <1>2, <1>3 DEF Atomic!vars, Ready

LEMMA WindowImplements ==
  ASSUME RefInv, NEW l \in LogId, WindowElapses(l)
  PROVE  Atomic!WindowElapses(l)
<1>1. Pending(l) /\ l \notin due /\ due' = due \cup {l} /\ UNCHANGED <<order, log>>
  BY DEF WindowElapses
<1>2. Atomic!Live(l) /\ ~AtomicOffer[l].due
  BY <1>1, AtomicLive
<1>3. AtomicOrder' = AtomicOrder /\ AtomicRounds' = AtomicRounds
  BY <1>1 DEF AtomicOrder, AtomicRow, AtomicRounds, Completed
<1>4. AtomicOffer[l] = [order |-> log[l].order, captain |-> log[l].captain,
                        kind |-> log[l].kind, due |-> l \in due]
  BY <1>1 DEF AtomicOffer
<1>5. AtomicOffer'[l] = [order |-> log[l].order, captain |-> log[l].captain,
                         kind |-> log[l].kind, due |-> TRUE]
  <2>1. AtomicOffer'[l] = [order |-> log'[l].order, captain |-> log'[l].captain,
                           kind |-> log'[l].kind, due |-> l \in due']
    BY <1>1 DEF AtomicOffer, Pending
  <2>2. (l \in due') = TRUE
    BY <1>1
  <2> QED BY <1>1, <2>1, <2>2
<1>6. [AtomicOffer[l] EXCEPT !.due = TRUE] = AtomicOffer'[l]
  <2>1. ASSUME NEW a, NEW b, NEW k, NEW d, NEW x
        PROVE  [[order |-> a, captain |-> b, kind |-> k, due |-> d] EXCEPT !.due = x]
               = [order |-> a, captain |-> b, kind |-> k, due |-> x]
    OBVIOUS
  <2>2. [[order |-> log[l].order, captain |-> log[l].captain,
          kind |-> log[l].kind, due |-> l \in due] EXCEPT !.due = TRUE]
        = [order |-> log[l].order, captain |-> log[l].captain, kind |-> log[l].kind, due |-> TRUE]
    BY <2>1, Zenon
  <2> QED BY <1>4, <1>5, <2>2, Zenon
<1>7. \A m \in LogId : m # l => AtomicOffer'[m] = AtomicOffer[m]
  <2> SUFFICES ASSUME NEW m \in LogId, m # l PROVE AtomicOffer'[m] = AtomicOffer[m]
    OBVIOUS
  <2>1. (m \in due') = (m \in due) /\ (Pending(m)' <=> Pending(m)) /\ log' = log
    BY <1>1 DEF Pending
  <2> QED BY <2>1, Zenon DEF AtomicOffer
<1>8. AtomicOffer' = [AtomicOffer EXCEPT ![l].due = TRUE]
  <2>1. /\ AtomicOffer = [m \in LogId |-> AtomicOffer[m]]
        /\ AtomicOffer' = [m \in LogId |-> AtomicOffer'[m]]
    BY DEF AtomicOffer
  <2>2. AtomicOffer' = [AtomicOffer EXCEPT ![l] = [AtomicOffer[l] EXCEPT !.due = TRUE]]
    BY <1>6, <1>7, <2>1
  <2> QED BY <2>2
<1> QED BY <1>2, <1>3, <1>8 DEF Atomic!WindowElapses, Ready

\* The committed row of an order, as Distribution sees it.
LEMMA AtomicSees ==
  ASSUME RefInv, NEW o \in Order
  PROVE  /\ AtomicOrder[o] = AtomicRow(order[o]) /\ order[o] \in TxOrderRow
         /\ AtomicOrder[o].status = order[o].status /\ AtomicOrder[o].captain = order[o].captain
         /\ AtomicOrder[o].mode = order[o].mode /\ ~AtomicOrder[o].archived
<1>1. order[o] \in TxOrderRow /\ ~order[o].archived
  BY DEF RefInv, FinalInv, TxInv, RowsOK, RowsPlaced
<1> QED BY <1>1, AtomicRows DEF AtomicOrder

\* The row t writes over, as Distribution has it.
LEMMA AtomicSeen ==
  ASSUME RefInv, NEW t \in Request, tx[t] # NoTx, At(t, "write")
  PROVE  AtomicRow(Seen(t)) = IF tx[t].op = "RESEND"
                              THEN [Released(AtomicOrder[tx[t].order]) EXCEPT !.mode = "AUTO"]
                              ELSE AtomicOrder[tx[t].order]
<1> DEFINE o == tx[t].order
<1>1. /\ o \in Order /\ order[o] \in TxOrderRow /\ AtomicOrder[o] = AtomicRow(order[o])
      /\ tx[t].op \in Keepers
  BY AtomicSees DEF RefInv, FinalInv, TxInv, TxRow, Faithful
<1>2. CASE tx[t].op \notin Restart
  <2>1. Seen(t) = order[o]
    BY <1>2, SeenCommitted DEF RefInv, FinalInv, TxInv, Sound, Writes
  <2> QED BY <1>1, <1>2, <2>1 DEF Restart
<1>3. CASE tx[t].op \in Restart
  <2> DEFINE row == [order[o] EXCEPT !.before = Existing]
  <2>1. Seen(t) = Restarted(tx[t])
    BY <1>3 DEF Seen, Orders, Over, RefInv, FinalInv, TxInv, RowsOK, TxRow, At, Faithful, Written
  <2>2. row \in TxOrderRow /\ AtomicRow(row) = AtomicRow(order[o])
    BY <1>1, AtomicFields DEF TxOrderRow, Existing
  <2>3. Released(row) \in TxOrderRow
    BY <2>2, ReleasedTyped DEF OrderStatus
  <2>4. AtomicRow([Released(row) EXCEPT !.mode = "AUTO"]) = [AtomicRow(Released(row)) EXCEPT !.mode = "AUTO"]
    BY <2>3, AtomicFields
  <2>5. AtomicRow(Released(row)) = Released(AtomicOrder[o])
    BY <1>1, <2>2, AtomicReleased
  <2> HIDE DEF row
  <2>6. CASE tx[t].op = "RESEND"
    <3>1. Seen(t) = [Released(row) EXCEPT !.mode = "AUTO"]
      BY <2>1, <2>6, Zenon DEF Restarted, row
    <3>2. AtomicRow(Seen(t)) = [Released(AtomicOrder[o]) EXCEPT !.mode = "AUTO"]
      BY <2>4, <2>5, <3>1, Zenon
    <3> QED BY <2>6, <3>2, Zenon
  <2>7. CASE tx[t].op # "RESEND"
    <3>1. Seen(t) = row
      BY <2>1, <2>7, Zenon DEF Restarted, row
    <3> QED BY <1>1, <2>2, <2>7, <3>1, Zenon
  <2> QED BY <2>6, <2>7
<1> QED BY <1>2, <1>3

-----------------------------------------------------------------------------
(* The commits. *)

\* An offer, unfolded: the row it writes and the row it adds.
LEMMA OfferCommits ==
  ASSUME RefInv, NEW t \in Request, tx[t] # NoTx, CommitOffer(t)
  PROVE  LET k == CASE tx[t].op = "ASSIGN" -> "MANUAL" [] tx[t].op = "REASSIGN" -> "REASSIGN" [] OTHER -> "AUTO"
             row == AssignedTo([Seen(t) EXCEPT !.mode = IF k = "MANUAL" THEN "MANUAL" ELSE @], tx[t].captain, k)
         IN  /\ At(t, "write") /\ tx[t].captain \in Captain /\ k \in Kind
             /\ row.before = Seen(t).before
             /\ \E l \in LogId : log[l] = NoLog /\ Commit(t, row, Offering(t, l, tx[t].captain, k))
<1> DEFINE c == tx[t].captain
           k == CASE tx[t].op = "ASSIGN" -> "MANUAL" [] tx[t].op = "REASSIGN" -> "REASSIGN" [] OTHER -> "AUTO"
           row == AssignedTo([Seen(t) EXCEPT !.mode = IF k = "MANUAL" THEN "MANUAL" ELSE @], c, k)
<1>1. At(t, "write") /\ c \in Captain
  BY DEF CommitOffer, Commit, RefInv, FinalInv, TxInv, TxRow
<1>2. k \in Kind
  BY DEF Kind
<1>3. row.before = Seen(t).before
  <2>1. Seen(t) \in TxOrderRow
    BY SeenTyped DEF RefInv, FinalInv
  <2> QED BY <2>1 DEF AssignedTo, TxOrderRow
<1>4. \E l \in LogId : log[l] = NoLog /\ Commit(t, row, Offering(t, l, c, k))
  BY Zenon DEF CommitOffer, Offering
<1> QED BY <1>1, <1>2, <1>3, <1>4, Zenon

\* The chain: the offer to the next captain of the pool, or the release, of Distribution.
LEMMA ChainImplements ==
  ASSUME RefInv, NEW t \in Request, tx[t] # NoTx, At(t, "write"), Chained(tx[t]),
         CommitOffer(t) \/ CommitRelease(t)
  PROVE  Atomic!OfferNext(tx[t].order, AtomicRow(Seen(t)), OpenAfter(t), RoundsOf(tx[t]))
<1> DEFINE o == tx[t].order
           c == tx[t].captain
           rows == [AtomicOrder EXCEPT ![o] = AtomicRow(Seen(t))]
           n == RoundsOf(tx[t])
<1>1. /\ TxInv /\ o \in Order /\ tx[t].op \in Restart \cup {"EXPIRE"} /\ Found(tx[t])
      /\ Seen(t) \in TxOrderRow /\ Orders(t) \in [Order -> TxOrderRow]
      /\ DOMAIN tx[t].orders \subseteq {o} /\ DOMAIN order = Order
  BY SeenTyped DEF RefInv, FinalInv, TxInv, TxRow, Chained, Faithful, RowsOK, Sound, Writes
<1>2. rows = [p \in Order |-> AtomicRow(Orders(t)[p])]
  BY <1>1 DEF AtomicOrder, Seen, Orders, Over
<1>3. Atomic!AutoPool(rows, Ready) = PoolOf(tx[t])
  BY <1>1, <1>2, AtomicPool, AtomicAutoPool, Reads
<1>4. CASE CommitRelease(t)
  <2>1. c = NoCaptain /\ Commit(t, Released(Seen(t)), tx[t].logs)
    BY <1>4 DEF CommitRelease
  <2>2. PoolOf(tx[t]) = {} \/ n >= MaxAttempts
    BY <1>1, <2>1 DEF Found, At
  <2>3. AtomicOrder' = [AtomicOrder EXCEPT ![o] = Atomic!Released(AtomicRow(Seen(t)))]
    BY <1>1, <2>1, CommitOrder, AtomicReleased, AtomicWrites
  <2>4. AtomicOffer' = OpenAfter(t)
    BY <2>1, CommitCloses
  <2> QED BY <1>3, <2>2, <2>3, <2>4 DEF Atomic!OfferNext
<1>5. CASE CommitOffer(t)
  <2>1. /\ c \in Captain /\ c # NoCaptain /\ "AUTO" \in Kind
        /\ tx[t].op # "ASSIGN" /\ tx[t].op # "REASSIGN"
    BY <1>1, <1>5, OfferCommits, CaptainAssumption DEF Restart, Kind
  <2>2. PICK l \in LogId : /\ log[l] = NoLog
                           /\ Commit(t, AssignedTo([Seen(t) EXCEPT !.mode = Seen(t).mode], c, "AUTO"),
                                     Offering(t, l, c, "AUTO"))
    BY <1>5, <2>1, OfferCommits
  <2>3. [Seen(t) EXCEPT !.mode = Seen(t).mode] = Seen(t)
    BY <1>1 DEF TxOrderRow
  <2>4. Commit(t, AssignedTo(Seen(t), c, "AUTO"), Offering(t, l, c, "AUTO"))
    BY <2>2, <2>3, Zenon
  <2>5. n < MaxAttempts /\ c \in PoolOf(tx[t]) /\ Picked(c, PoolOf(tx[t]), o, n)
    BY <1>1, <2>1 DEF Found, At
  <2>6. AtomicOrder' = [AtomicOrder EXCEPT ![o] = Atomic!AssignedTo(AtomicRow(Seen(t)), c, "AUTO")]
    BY <1>1, <2>4, CommitOrder, AtomicAssigned, AtomicWrites
  <2>7. /\ ~Atomic!Live(l)
        /\ AtomicOffer' = [OpenAfter(t) EXCEPT ![l] = Atomic!NewOffer(o, c, "AUTO")]
    BY <2>1, <2>2, <2>4, CommitOpens
  <2>8. Atomic!Picked(c, PoolOf(tx[t]), o, n)
    BY <2>5, AtomicPicked
  <2> QED BY <1>3, <2>5, <2>6, <2>7, <2>8 DEF Atomic!OfferNext
<1> QED BY <1>4, <1>5

\* What it counts.
LEMMA ChainCounts ==
  ASSUME \A o, p \in Order : o = p,
         RefInv, NEW t \in Request, tx[t] # NoTx, CommitOffer(t) \/ CommitRelease(t)
  PROVE  AtomicRounds' = [AtomicRounds EXCEPT ![tx[t].order] = RoundsOf(tx[t])]
<1>1. CASE CommitRelease(t)
  <2>1. Released(Seen(t)).before = Seen(t).before
    BY SeenTyped, ReleasedTyped DEF RefInv, FinalInv, OrderStatus
  <2> QED BY <1>1, <2>1, CommitCounts DEF CommitRelease
<1>2. CASE CommitOffer(t)
  <2> DEFINE k == CASE tx[t].op = "ASSIGN" -> "MANUAL" [] tx[t].op = "REASSIGN" -> "REASSIGN" [] OTHER -> "AUTO"
             row == AssignedTo([Seen(t) EXCEPT !.mode = IF k = "MANUAL" THEN "MANUAL" ELSE @], tx[t].captain, k)
  <2>1. /\ row.before = Seen(t).before
        /\ \E l \in LogId : log[l] = NoLog /\ Commit(t, row, Offering(t, l, tx[t].captain, k))
    BY <1>2, OfferCommits, Zenon
  <2> HIDE DEF row, k
  <2>2. PICK l \in LogId : log[l] = NoLog /\ Commit(t, row, Offering(t, l, tx[t].captain, k))
    BY <2>1
  <2> QED BY <2>1, <2>2, CommitCounts
<1> QED BY <1>1, <1>2

LEMMA StartImplements ==
  ASSUME \A o, p \in Order : o = p,
         RefInv, NEW t \in Request, tx[t] # NoTx, At(t, "write"), tx[t].op \in Restart,
         CommitOffer(t) \/ CommitRelease(t)
  PROVE  Atomic!StartAuto(tx[t].order) \/ Atomic!Resend(tx[t].order)
<1> DEFINE o == tx[t].order
<1>1. /\ o \in Order /\ Chained(tx[t]) /\ tx[t].op \in Desk
      /\ Allowed(tx[t].op, order[o], tx[t].status)
  BY DEF RefInv, FinalInv, TxInv, TxRow, Chained, Desk, Faithful, At
<1>2. Atomic!OfferNext(o, AtomicRow(Seen(t)), Atomic!CancelPending(o), 0)
  BY <1>1, ChainImplements, DeskCloses, RestartCounts
<1>3. AtomicRounds' = [AtomicRounds EXCEPT ![o] = 0]
  BY ChainCounts, RestartCounts
<1>4. /\ ~AtomicOrder[o].archived /\ AtomicOrder[o].mode = order[o].mode
      /\ AtomicOrder[o].status = order[o].status
  BY <1>1, AtomicSees
<1>5. CASE tx[t].op = "START"
  <2>1. AtomicRow(Seen(t)) = AtomicOrder[o]
    BY <1>5, AtomicSeen
  <2>2. order[o].mode = "AUTO" /\ order[o].status \in {"PENDING", "CONFIRMED"}
    BY <1>1, <1>5 DEF Allowed
  <2> QED BY <1>2, <1>3, <1>4, <2>1, <2>2 DEF Atomic!StartAuto, Ready
<1>6. CASE tx[t].op = "RESEND"
  <2>1. AtomicRow(Seen(t)) = [Released(AtomicOrder[o]) EXCEPT !.mode = "AUTO"]
    BY <1>6, AtomicSeen
  <2>2. Atomic!Released(AtomicOrder[o]) = Released(AtomicOrder[o])
    BY AtomicWrites, Zenon
  <2> QED BY <1>2, <1>3, <1>4, <2>1, <2>2 DEF Atomic!Resend, Ready
<1> QED BY <1>5, <1>6 DEF Restart

LEMMA ExpireImplements ==
  ASSUME \A o, p \in Order : o = p,
         RefInv, NEW t \in Request, tx[t] # NoTx, At(t, "write"), tx[t].op = "EXPIRE",
         CommitOffer(t) \/ CommitRelease(t)
  PROVE  Atomic!Expire(tx[t].row)
<1> DEFINE o == tx[t].order
           l == tx[t].row
           chain == AtomicOrder[o].mode = "AUTO" /\ AtomicOrder[o].status = "ASSIGNED"
<1>1. /\ o \in Order /\ l \in LogId /\ Atomic!Live(l) /\ AtomicOffer[l].due /\ AtomicOffer[l].order = o
      /\ OpenAfter(t) = Atomic!Without(l) /\ RoundsOf(tx[t]) = Atomic!RoundsAfter(l)
      /\ Found(tx[t])
  BY TickCloses, TickCounts DEF RefInv, FinalInv, TxInv, TxRow, Faithful
<1>2. AtomicRounds' = [AtomicRounds EXCEPT ![o] = Atomic!RoundsAfter(l)]
  BY <1>1, ChainCounts
<1>3. AtomicRow(Seen(t)) = AtomicOrder[o] /\ ~AtomicOrder[o].archived
  BY <1>1, AtomicSeen, AtomicSees
<1>4. chain <=> Chained(tx[t])
  BY <1>1, AtomicSees DEF Chained, Restart
<1>5. chain => Atomic!OfferNext(o, AtomicOrder[o], Atomic!Without(l), Atomic!RoundsAfter(l))
  BY <1>1, <1>3, <1>4, ChainImplements
<1>6. ~chain => /\ AtomicOrder' = [AtomicOrder EXCEPT ![o] = Atomic!Released(AtomicOrder[o])]
                /\ AtomicOffer' = Atomic!Without(l)
  <2> SUFFICES ASSUME ~Chained(tx[t])
               PROVE  /\ AtomicOrder' = [AtomicOrder EXCEPT ![o] = Atomic!Released(AtomicOrder[o])]
                      /\ AtomicOffer' = Atomic!Without(l)
    BY <1>4
  <2>1. CommitRelease(t)
    BY <1>1 DEF CommitOffer, Found, At
  <2>2. Commit(t, Released(Seen(t)), tx[t].logs) /\ Seen(t) \in TxOrderRow
    BY <2>1, SeenTyped DEF CommitRelease, RefInv, FinalInv
  <2>3. AtomicRow(Released(Seen(t))) = Atomic!Released(AtomicOrder[o])
    BY <1>3, <2>2, AtomicReleased, AtomicWrites
  <2> QED BY <1>1, <2>2, <2>3, CommitOrder, CommitCloses
<1>7. Atomic!AfterClose(l, chain)
  <2> HIDE DEF chain
  <2> QED BY <1>1, <1>2, <1>5, <1>6 DEF Atomic!AfterClose, Ready
<1> QED BY <1>1, <1>3, <1>7 DEF Atomic!Expire

LEMMA AssignImplements ==
  ASSUME \A o, p \in Order : o = p,
         RefInv, NEW t \in Request, tx[t] # NoTx, tx[t].op \in {"ASSIGN", "REASSIGN"}, CommitOffer(t)
  PROVE  Atomic!AssignManual(tx[t].order, tx[t].captain) \/ Atomic!Reassign(tx[t].order, tx[t].captain)
<1> DEFINE o == tx[t].order
           c == tx[t].captain
<1>1. /\ o \in Order /\ tx[t].op \in Desk \ Restart /\ At(t, "write") /\ c \in Captain
      /\ Allowed(tx[t].op, order[o], tx[t].status)
  BY OfferCommits DEF RefInv, FinalInv, TxInv, TxRow, Desk, Restart, Faithful, At
<1>2. /\ ~AtomicOrder[o].archived /\ AtomicOrder[o].status = order[o].status
      /\ AtomicRow(Seen(t)) = AtomicOrder[o] /\ Seen(t) \in TxOrderRow
  BY <1>1, AtomicSees, AtomicSeen, SeenTyped DEF RefInv, FinalInv
<1>3. AtomicRounds' = AtomicRounds
  <2>1. AtomicRounds = [p \in Order |-> AtomicRounds[p]]
    BY DEF AtomicRounds
  <2> QED BY <1>1, <2>1, ChainCounts, DeskCounts
<1>4. ASSUME NEW row \in TxOrderRow, NEW k \in Kind, NEW l \in LogId, log[l] = NoLog,
             Commit(t, AssignedTo(row, c, k), Offering(t, l, c, k))
      PROVE  Atomic!Assign(o, c, k, AtomicRow(row))
  <2>1. AtomicOrder' = [AtomicOrder EXCEPT ![o] = Atomic!AssignedTo(AtomicRow(row), c, k)]
    BY <1>4, CommitOrder, AtomicAssigned, AtomicWrites
  <2>2. ~Atomic!Live(l) /\ AtomicOffer' = [Atomic!CancelPending(o) EXCEPT ![l] = Atomic!NewOffer(o, c, k)]
    BY <1>1, <1>4, CommitOpens, DeskCloses
  <2>3. Atomic!ManualEligible(Ready[c])
    BY <1>1 DEF Atomic!ManualEligible, Ready
  <2> QED BY <1>2, <1>3, <2>1, <2>2, <2>3 DEF Atomic!Assign, Ready
<1>5. CASE tx[t].op = "ASSIGN"
  <2>1. PICK l \in LogId : /\ log[l] = NoLog
                           /\ Commit(t, AssignedTo([Seen(t) EXCEPT !.mode = "MANUAL"], c, "MANUAL"),
                                     Offering(t, l, c, "MANUAL"))
    BY <1>5, OfferCommits
  <2>2. /\ [Seen(t) EXCEPT !.mode = "MANUAL"] \in TxOrderRow
        /\ AtomicRow([Seen(t) EXCEPT !.mode = "MANUAL"]) = [AtomicOrder[o] EXCEPT !.mode = "MANUAL"]
    BY <1>2, AtomicFields DEF TxOrderRow
  <2>3. "MANUAL" \in Kind
    BY DEF Kind
  <2>4. Atomic!Assign(o, c, "MANUAL", [AtomicOrder[o] EXCEPT !.mode = "MANUAL"])
    BY <1>4, <2>1, <2>2, <2>3
  <2>5. AtomicOrder[o].status \in {"PENDING", "CONFIRMED", "ASSIGNED"}
    BY <1>1, <1>2, <1>5 DEF Allowed
  <2> QED BY <2>4, <2>5 DEF Atomic!AssignManual
<1>6. CASE tx[t].op = "REASSIGN"
  <2>1. PICK l \in LogId : /\ log[l] = NoLog
                           /\ Commit(t, AssignedTo([Seen(t) EXCEPT !.mode = Seen(t).mode], c, "REASSIGN"),
                                     Offering(t, l, c, "REASSIGN"))
    BY <1>6, OfferCommits
  <2>2. [Seen(t) EXCEPT !.mode = Seen(t).mode] = Seen(t)
    BY <1>2 DEF TxOrderRow
  <2>3. Commit(t, AssignedTo(Seen(t), c, "REASSIGN"), Offering(t, l, c, "REASSIGN"))
    BY <2>1, <2>2, Zenon
  <2>4. "REASSIGN" \in Kind
    BY DEF Kind
  <2>5. Atomic!Assign(o, c, "REASSIGN", AtomicOrder[o])
    BY <1>2, <1>4, <2>1, <2>3, <2>4
  <2> QED BY <2>5 DEF Atomic!Reassign
<1> QED BY <1>5, <1>6

\* The desk's updates that offer the order to nobody.
LEMMA DeskImplements ==
  ASSUME \A o, p \in Order : o = p,
         RefInv, NEW t \in Request, tx[t] # NoTx, CommitStatus(t)
  PROVE  \/ Atomic!CancelAssignment(tx[t].order)
         \/ \E s \in OrderStatus : Atomic!AdminOverride(tx[t].order, s)
<1> DEFINE o == tx[t].order
           s == tx[t].status
<1>1. /\ o \in Order /\ tx[t].op \in {"CANCEL", "ADMIN"} /\ At(t, "write") /\ Sound(tx[t])
      /\ Allowed(tx[t].op, order[o], s)
  <2>1. At(t, "write") /\ tx[t].op \in {"STATUS", "CANCEL", "ADMIN"}
    BY DEF CommitStatus, Commit
  <2> QED BY <2>1 DEF RefInv, FinalInv, TxInv, TxRow, Faithful, Keepers, Desk, Restart, At
<1>2. /\ ~AtomicOrder[o].archived /\ AtomicOrder[o].status = order[o].status
      /\ AtomicOrder[o].captain = order[o].captain /\ AtomicOrder[o].mode = order[o].mode
      /\ AtomicRow(Seen(t)) = AtomicOrder[o] /\ Seen(t) \in TxOrderRow
  BY <1>1, AtomicSees, AtomicSeen, SeenTyped DEF RefInv, FinalInv
<1>3. OpenAfter(t) = Atomic!CancelPending(o) /\ RoundsOf(tx[t]) = AtomicRounds[o]
  BY <1>1, DeskCloses, DeskCounts DEF Desk, Restart
<1>4. ASSUME NEW row, row.before = Seen(t).before, Commit(t, row, tx[t].logs)
      PROVE  /\ AtomicOrder' = [AtomicOrder EXCEPT ![o] = AtomicRow(row)]
             /\ AtomicOffer' = Atomic!CancelPending(o)
             /\ AtomicRounds' = AtomicRounds
  <2>1. AtomicRounds = [p \in Order |-> AtomicRounds[p]]
    BY DEF AtomicRounds
  <2>2. AtomicRounds' = [AtomicRounds EXCEPT ![o] = AtomicRounds[o]]
    BY <1>3, <1>4, CommitCounts
  <2> QED BY <1>1, <1>3, <1>4, <2>1, <2>2, CommitOrder, CommitCloses
<1>5. CASE tx[t].op = "CANCEL"
  <2>1. Commit(t, Detached(Seen(t), "CONFIRMED"), tx[t].logs)
    BY <1>5 DEF CommitStatus
  <2>2. Detached(Seen(t), "CONFIRMED").before = Seen(t).before
    BY <1>2, ReleasedTyped DEF OrderStatus
  <2>3. AtomicRow(Detached(Seen(t), "CONFIRMED")) = Atomic!Detached(AtomicOrder[o], "CONFIRMED")
    BY <1>2, AtomicDetached, AtomicWrites
  <2>4. order[o].captain # NoCaptain /\ order[o].status \notin {"DELIVERED", "CANCELLED"}
    BY <1>1, <1>5 DEF Allowed
  <2> QED BY <1>2, <1>4, <2>1, <2>2, <2>3, <2>4 DEF Atomic!CancelAssignment, Ready
<1>6. CASE tx[t].op = "ADMIN"
  <2>1. /\ s \in OverrideTargets /\ s \in Atomic!OverrideTargets /\ s \in OrderStatus
        /\ AtomicOrder[o].status # s
    BY <1>1, <1>2, <1>6 DEF Sound, Aims, Allowed, OverrideTargets, Atomic!OverrideTargets, OrderStatus
  <2>2. Atomic!DeductIfDelivered(s, AtomicOrder[o].captain)
    BY DEF Atomic!DeductIfDelivered, Atomic!Deduct, Ready
  <2>3. CASE s = "DELIVERED"
    <3>1. Commit(t, [Seen(t) EXCEPT !.status = s], tx[t].logs)
      BY <1>6, <2>3 DEF CommitStatus
    <3>2. [Seen(t) EXCEPT !.status = s].before = Seen(t).before
      BY <1>2 DEF TxOrderRow
    <3>3. AtomicRow([Seen(t) EXCEPT !.status = s]) = [AtomicOrder[o] EXCEPT !.status = s]
      <4>1. Seen(t) \in TxOrderRow
        BY <1>2
      <4>2. AtomicRow([Seen(t) EXCEPT !.status = s]) = [AtomicRow(Seen(t)) EXCEPT !.status = s]
        BY <4>1, AtomicFields
      <4> QED BY <1>2, <4>2
    <3>4. AtomicOrder' = [AtomicOrder EXCEPT ![o].status = s]
      BY <1>4, <3>1, <3>2, <3>3
    <3>5. AtomicOffer' = Atomic!CancelPending(o) /\ AtomicRounds' = AtomicRounds
      BY <1>4, <3>1, <3>2
    <3> QED BY <1>2, <2>1, <2>2, <2>3, <3>4, <3>5 DEF Atomic!AdminOverride
  <2>4. CASE s # "DELIVERED"
    <3> DEFINE det == Detached(Seen(t), s)
               row == [det EXCEPT !.mode = IF s = "PENDING" THEN "AUTO" ELSE @]
    <3>1. Commit(t, row, tx[t].logs)
      BY <1>6, <2>4 DEF CommitStatus
    <3>2. det \in TxOrderRow /\ det.before = Seen(t).before
          /\ AtomicRow(det) = Detached(AtomicOrder[o], s)
      BY <1>2, <2>1, ReleasedTyped, AtomicDetached
    <3>3. AtomicRow(det).mode = det.mode
      BY <3>2, AtomicRows
    <3> DEFINE m == IF s = "PENDING" THEN "AUTO" ELSE det.mode
    <3>4. row = [det EXCEPT !.mode = m]
      OBVIOUS
    <3> HIDE DEF det, m
    <3>5. [det EXCEPT !.mode = m].before = det.before
      BY <3>2 DEF TxOrderRow
    <3>6. AtomicRow([det EXCEPT !.mode = m]) = [AtomicRow(det) EXCEPT !.mode = m]
      BY <3>2, AtomicFields
    <3>7. /\ AtomicOrder' = [AtomicOrder EXCEPT ![o] = [AtomicRow(det) EXCEPT !.mode = m]]
          /\ AtomicOffer' = Atomic!CancelPending(o) /\ AtomicRounds' = AtomicRounds
      <4>1. Commit(t, [det EXCEPT !.mode = m], tx[t].logs)
        BY <3>1, <3>4
      <4> QED BY <1>4, <3>2, <3>5, <3>6, <4>1
    <3>8. Atomic!Detached(AtomicOrder[o], s) = AtomicRow(det)
      BY <3>2, AtomicWrites
    <3>9. m = IF s = "PENDING" THEN "AUTO" ELSE AtomicRow(det).mode
      BY <3>3 DEF m
    <3>10. [AtomicRow(det) EXCEPT !.mode = m]
           = [Atomic!Detached(AtomicOrder[o], s) EXCEPT !.mode = IF s = "PENDING" THEN "AUTO" ELSE @]
      BY <3>8, <3>9
    <3> QED BY <1>2, <2>1, <2>2, <2>4, <3>7, <3>10 DEF Atomic!AdminOverride
  <2> QED BY <2>1, <2>3, <2>4
<1> QED BY <1>1, <1>5, <1>6

LEMMA CommitImplements ==
  ASSUME \A o, p \in Order : o = p,
         RefInv, NEW t \in Request, tx[t] # NoTx,
         CommitOffer(t) \/ CommitRelease(t) \/ CommitAccept(t) \/ CommitStatus(t)
  PROVE  Atomic!Next
<1>1. tx[t].order \in Order /\ tx[t].op \in Keepers /\ tx[t] \in TxRow /\ Sound(tx[t])
  BY DEF RefInv, FinalInv, TxInv, TxRow, Faithful
<1>2. At(t, "write")
  BY DEF CommitOffer, CommitRelease, CommitAccept, CommitStatus, Commit
<1>3. CASE CommitStatus(t)
  <2>1. \/ Atomic!CancelAssignment(tx[t].order)
        \/ \E s \in OrderStatus : Atomic!AdminOverride(tx[t].order, s)
    BY <1>3, DeskImplements
  <2>2. Atomic!Dispatch(tx[t].order)
    BY <2>1 DEF Atomic!Dispatch, OrderStatus, Atomic!OrderStatus
  <2> QED BY <1>1, <2>2 DEF Atomic!Next
<1>4. CASE CommitOffer(t) \/ CommitRelease(t)
  <2>1. CASE tx[t].op \in Restart
    <3>1. Atomic!Dispatch(tx[t].order)
      BY <1>2, <1>4, <2>1, StartImplements DEF Atomic!Dispatch
    <3> QED BY <1>1, <3>1 DEF Atomic!Next
  <2>2. CASE tx[t].op = "EXPIRE"
    <3>1. tx[t].row \in LogId
      BY <1>1, <2>2 DEF Sound, Aims
    <3>2. Atomic!Expire(tx[t].row)
      BY <1>2, <1>4, <2>2, ExpireImplements
    <3> QED BY <3>1, <3>2 DEF Atomic!Next
  <2>3. CASE tx[t].op \notin Restart \cup {"EXPIRE"}
    <3>1. CommitOffer(t) /\ tx[t].captain # NoCaptain
      BY <1>1, <1>4, <2>3 DEF CommitRelease, CommitOffer, Keepers, Desk, Restart
    <3>2. tx[t].op \in {"ASSIGN", "REASSIGN"} /\ tx[t].captain \in Captain
      BY <1>1, <2>3, <3>1 DEF Sound, Aims, TxRow, Keepers, Desk, Restart
    <3>3. Atomic!Dispatch(tx[t].order)
      BY <3>1, <3>2, AssignImplements DEF Atomic!Dispatch
    <3> QED BY <1>1, <3>3 DEF Atomic!Next
  <2> QED BY <2>1, <2>2, <2>3
<1>5. ~CommitAccept(t)
  BY <1>1 DEF CommitAccept, Keepers, Desk, Restart
<1> QED BY <1>3, <1>4, <1>5

LEMMA InitImplements == Init => Atomic!Init
<1> SUFFICES ASSUME Init PROVE Atomic!Init
  OBVIOUS
<1>1. \A l \in LogId : ~Pending(l) /\ log[l] = NoLog
  BY DEF Init, Pending
<1>2. AtomicOffer = [l \in LogId |-> NoLog]
  BY <1>1 DEF AtomicOffer
<1>3. AtomicRounds = [o \in Order |-> 0]
  <2>1. \A o \in Order : Completed(o, order[o], log) = {}
    BY <1>1 DEF Completed
  <2> QED BY <2>1, FS_EmptySet DEF AtomicRounds
<1>4. AtomicOrder \in [Order -> Atomic!NewOrder]
  <2>1. \A o \in Order : AtomicRow(order[o]) \in Atomic!NewOrder
    BY DEF Init, AtomicRow, Atomic!NewOrder
  <2> QED BY <2>1 DEF AtomicOrder
<1> QED BY <1>2, <1>3, <1>4 DEF Atomic!Init, Ready

LEMMA StepImplements ==
  ASSUME \A o, p \in Order : o = p,
         RefInv, [Next]_vars
  PROVE  [Atomic!Next]_(Atomic!vars)
<1>1. CASE UNCHANGED <<order, log, due>>
  BY <1>1, AtomicStutters
<1>2. ASSUME NEW l \in LogId, WindowElapses(l)
      PROVE  Atomic!Next
  BY <1>2, WindowImplements DEF Atomic!Next
<1>3. ASSUME NEW t \in Request, Step(t)
      PROVE  [Atomic!Next]_(Atomic!vars)
  <2>1. CASE CommitOffer(t) \/ CommitRelease(t) \/ CommitAccept(t) \/ CommitStatus(t)
    BY <1>3, <2>1, CommitImplements DEF Step
  <2>2. CASE Statement(t)
    BY <1>1, <1>3, <2>2, StatementDoes DEF Step, RefInv, FinalInv
  <2> QED BY <1>3, <2>1, <2>2 DEF Step, Statement
<1>4. ASSUME NEW t \in Request,
             \/ Rollback(t)
             \/ \E o \in Order : Call(t, o) \/ \E s \in OrderStatus : Deliver(t, o, s)
             \/ \E l \in LogId : Scan(t, l) \/ \E op \in {"ACCEPT", "REJECT"} : Answer(t, op, l)
      PROVE  UNCHANGED <<order, log, due>>
  BY <1>4 DEF Rollback, Call, Deliver, Scan, Answer
<1> QED BY <1>1, <1>2, <1>3, <1>4 DEF Next, vars

\* What a handler that locks the order first has read is still so when it commits: the rows it
\* closes are open, the pool it chose from and the rounds it counted are those at its commit.
THEOREM ReadsStayTrue ==
  ASSUME Ops \subseteq Keepers, \A o, p \in Order : o = p
  PROVE  Spec => []RefInv
<1>1. RefInv /\ [Next]_vars => RefInv'
  BY RefStep
<1> QED BY <1>1, RefInit, PTL DEF Spec

\* The refinement: the desk's handlers and the tick, cut into statements and interleaved with
\* each other, with rollbacks and with the windows that elapse, do nothing to the order and its
\* rows that the handlers of Distribution do not do in one step.
THEOREM ImplementsDistribution ==
  ASSUME Ops \subseteq Keepers, \A o, p \in Order : o = p
  PROVE  Spec => RefinesDistribution
<1>1. RefInv /\ [Next]_vars => [Atomic!Next]_(Atomic!vars)
  BY StepImplements
<1> QED BY <1>1, InitImplements, ReadsStayTrue, PTL DEF Spec, RefinesDistribution, Atomic!Spec
=============================================================================
