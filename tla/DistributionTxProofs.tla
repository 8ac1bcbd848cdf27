------------------------ MODULE DistributionTxProofs ------------------------
(***************************************************************************)
(* Proofs about the transactions of DistributionTx, for any orders,          *)
(* captains, log ids, requests and attempts.                                *)
(***************************************************************************)
EXTENDS DistributionTx, FiniteSetTheorems, TLAPS

(* What a transaction may be like. *)

\* The handlers that lock the order before they read or write anything.
Keepers == Desk \cup {"EXPIRE"}

Handler == Keepers \cup {"ACCEPT", "REJECT", "STATUS"}

Place == {"lock", "row", "others", "cancel", "reset", "pool", "captain", "write"}

\* Rows written so far.
LogPart == UNION {[S -> LogRow] : S \in SUBSET LogId}
OrderPart == UNION {[S -> TxOrderRow] : S \in SUBSET Order}

TxRow == [op : Handler, at : Place, order : Order, captain : Captain \cup {NoCaptain},
          row : LogId \cup {NoLog}, status : OrderStatus \cup {"NONE"}, pool : SUBSET Captain,
          rounds : Nat, holds : SUBSET (Order \cup Captain), logs : LogPart, orders : OrderPart]

\* The statements a handler runs.
Placed(r) ==
    /\ r.op \in Desk \ Restart => r.at \in {"lock", "cancel", "write"}
    /\ r.op \in Restart => r.at \in {"lock", "cancel", "reset", "pool", "captain", "write"}
    /\ r.op = "EXPIRE" => r.at \in {"lock", "row", "pool", "captain", "write"}
    /\ r.op = "REJECT" => r.at \in {"row", "lock", "pool", "captain", "write"}
    /\ r.op = "ACCEPT" => r.at \in {"row", "others", "write"}
    /\ r.op = "STATUS" => r.at = "write"

\* It has its order's lock: a reject only once its log row is closed.
Locking(r) ==
    \/ r.op \in Keepers /\ r.at # "lock"
    \/ r.op = "REJECT" /\ r.at \notin {"row", "lock"}

\* The advisory locks: its order's and, while it tries captains, theirs.
HoldsLocks(r) ==
    /\ Locking(r) => r.order \in r.holds
    /\ ~Locking(r) => r.holds = {}
    /\ \A x \in r.holds : x \in Order => x = r.order
    /\ \A x \in r.holds : x \in Captain => r.at \in {"captain", "write"}

\* Whom a handler may be about to offer the order to, the status it sets, the row it answers.
Aims(r) ==
    /\ r.op \in {"ACCEPT", "STATUS", "CANCEL", "ADMIN"} => r.captain = NoCaptain
    /\ r.op \in {"ASSIGN", "REASSIGN"} => r.captain \in Captain
    /\ r.op = "ADMIN" => r.status \in OverrideTargets
    /\ r.op = "STATUS" => r.status \in OrderStatus
    /\ r.op \in {"EXPIRE", "ACCEPT", "REJECT"} =>
          r.row \in LogId /\ log[r.row] # NoLog /\ log[r.row].order = r.order

\* The rows it has written are closed rows of its order, and but for the response as committed.
Writes(r) ==
    /\ r.at \in {"row", "cancel"} \/ (r.at = "lock" /\ r.op \in Keepers) \/ r.op = "STATUS"
          => DOMAIN r.logs = {}
    /\ r.op = "ACCEPT" /\ r.at = "others" => DOMAIN r.logs = {r.row}
    /\ \A l \in DOMAIN r.logs :
          /\ log[l] # NoLog /\ log[l].order = r.order
          /\ r.logs[l].order = r.order
          /\ r.logs[l].captain = log[l].captain /\ r.logs[l].kind = log[l].kind
          /\ r.logs[l].response # "PENDING"
    /\ DOMAIN r.orders \subseteq {r.order}
    /\ DOMAIN r.orders # {} => r.op \in Restart /\ r.at \in {"pool", "captain", "write"}

\* A desk handler that has cancelled the order's rows finds no new one until it commits.
Settled(r) ==
    r.op \in Desk /\ r.at \in {"reset", "pool", "captain", "write"}
    => PendingOf(r.order) \subseteq DOMAIN r.logs

Sound(r) == r \in TxRow /\ Placed(r) /\ HoldsLocks(r) /\ Aims(r) /\ Writes(r) /\ Settled(r)

RowsOK ==
    /\ order \in [Order -> TxOrderRow]
    /\ log \in [LogId -> LogRow \cup {NoLog}]
    /\ due \subseteq LogId
    /\ IsFiniteSet({l \in LogId : log[l] # NoLog})

Exclusion ==
    \A t, u \in Request : tx[t] # NoTx /\ tx[u] # NoTx /\ t # u => tx[t].holds \cap tx[u].holds = {}

TxInv ==
    /\ RowsOK
    /\ tx \in [Request -> TxRow \cup {NoTx}]
    /\ \A t \in Request : tx[t] # NoTx => Sound(tx[t])
    /\ Exclusion

-----------------------------------------------------------------------------
(* Without rejects: the tick, too, closes every open row of its order. *)

Closes(r) ==
    r.op = "EXPIRE" =>
      /\ r.at = "row" => PendingOf(r.order) \subseteq {r.row}
      /\ r.at \in {"pool", "captain", "write"} => PendingOf(r.order) \subseteq DOMAIN r.logs

NoRejects == \A t \in Request : tx[t] # NoTx => tx[t].op # "REJECT" /\ Closes(tx[t])

OneInv == TxInv /\ NoRejects /\ OnePending

\* Without answers by captains, what a transaction is about to close is still open.
Opens(r) ==
    /\ r.op \in Keepers \cup {"STATUS"}
    /\ r.op = "EXPIRE" /\ r.at = "row" => Pending(r.row)
    /\ \A l \in DOMAIN r.logs : Pending(l)

FinalInv == TxInv /\ \A t \in Request : tx[t] # NoTx => Opens(tx[t])

-----------------------------------------------------------------------------
(* Who waits for whom: a wait goes up this order. *)

Level(t) ==
    CASE tx[t].at = "lock" -> 0
      [] tx[t].at \in {"row", "cancel"} -> 1
      [] tx[t].at = "others" -> IF Pending(tx[t].row) THEN 3 ELSE 2
      [] tx[t].at \in {"reset", "pool"} -> 5
      [] tx[t].at = "captain" -> 6
      [] tx[t].at = "write" -> IF Locking(tx[t]) THEN 7 ELSE 4

\* The one exception: two chains, of different orders, that try captains at the same time.
BothTryCaptains(t, u) == At(t, "captain") /\ At(u, "captain") /\ tx[t].order # tx[u].order

WaitsRise ==
    \A t, u \in Request : WaitsFor(t, u) => Level(t) < Level(u) \/ BothTryCaptains(t, u)

-----------------------------------------------------------------------------
(* Values. *)

LEMMA LogPartIn ==
  ASSUME NEW S \in SUBSET LogId, NEW f \in [S -> LogRow]
  PROVE  f \in LogPart
  BY DEF LogPart

LEMMA LogPartOut ==
  ASSUME NEW f \in LogPart
  PROVE  DOMAIN f \subseteq LogId /\ \A l \in DOMAIN f : f[l] \in LogRow
  BY DEF LogPart

LEMMA OrderPartIn ==
  ASSUME NEW S \in SUBSET Order, NEW f \in [S -> TxOrderRow]
  PROVE  f \in OrderPart
  BY DEF OrderPart

LEMMA OrderPartOut ==
  ASSUME NEW f \in OrderPart
  PROVE  DOMAIN f \subseteq Order /\ \A o \in DOMAIN f : f[o] \in TxOrderRow
  BY DEF OrderPart

\* A transaction that has begun and run no statement.
LEMMA BegunTyped ==
  ASSUME NEW op \in Handler, NEW at \in Place, NEW o \in Order,
         NEW c \in Captain \cup {NoCaptain}, NEW l \in LogId \cup {NoLog},
         NEW s \in OrderStatus \cup {"NONE"}
  PROVE  /\ Begun(op, at, o, c, l, s) \in TxRow
         /\ DOMAIN Begun(op, at, o, c, l, s).logs = {}
         /\ DOMAIN Begun(op, at, o, c, l, s).orders = {}
<1>1. <<>> \in LogPart /\ <<>> \in OrderPart
  <2>1. <<>> \in [{} -> LogRow] /\ <<>> \in [{} -> TxOrderRow]
    OBVIOUS
  <2> QED BY <2>1, LogPartIn, OrderPartIn
<1>2. DOMAIN <<>> = {}
  OBVIOUS
<1> QED BY <1>1, <1>2 DEF Begun, TxRow

\* What a transaction must be like after a step of its own that commits nothing.
LEMMA MoveKeeps ==
  ASSUME TxInv, NEW t \in Request, NEW r, Sound(r),
         tx' \in [Request -> TxRow \cup {NoTx}], tx'[t] = r,
         \A u \in Request \ {t} : tx'[u] = tx[u],
         \A u \in Request \ {t} : tx[u] # NoTx => tx[u].holds \cap r.holds = {},
         UNCHANGED <<order, log, due>>
  PROVE  TxInv'
<1>1. \A q : Sound(q) => Sound(q)'
  BY DEF Sound, Aims, Writes, Settled, PendingOf, Pending
<1>2. \A u \in Request : tx'[u] # NoTx => Sound(tx[u])'
  <2> SUFFICES ASSUME NEW u \in Request, tx'[u] # NoTx PROVE Sound(tx[u])'
    OBVIOUS
  <2>1. Sound(tx'[u])
    BY DEF TxInv
  <2> QED BY <2>1, <1>1
<1>3. Exclusion'
  BY DEF TxInv, Exclusion
<1>4. RowsOK'
  BY DEF TxInv, RowsOK
<1> QED BY <1>2, <1>3, <1>4 DEF TxInv

LEMMA TxInit == Init => TxInv
<1> SUFFICES ASSUME Init PROVE TxInv
  OBVIOUS
<1>1. RowsOK
  <2>1. order \in [Order -> TxOrderRow]
    BY DEF Init, TxOrderRow, OrderStatus, Kind
  <2>2. {l \in LogId : log[l] # NoLog} = {}
    BY DEF Init
  <2> QED BY <2>1, <2>2, FS_EmptySet DEF Init, RowsOK
<1> QED BY <1>1 DEF Init, TxInv, Exclusion

-----------------------------------------------------------------------------
(* How transactions begin and end. *)

LEMMA CallKeeps ==
  ASSUME TxInv, NEW t \in Request, NEW o \in Order, Call(t, o)
  PROVE  TxInv'
<1>1. PICK op \in Desk, c \in Captain \cup {NoCaptain}, s \in OverrideTargets \cup {"NONE"} :
         /\ (c # NoCaptain) <=> op \in {"ASSIGN", "REASSIGN"}
         /\ (s # "NONE") <=> op = "ADMIN"
         /\ tx' = [tx EXCEPT ![t] = Begun(op, "lock", o, c, NoLog, s)]
  BY DEF Call, Begins
<1> DEFINE r == Begun(op, "lock", o, c, NoLog, s)
<1>2. /\ r \in TxRow /\ DOMAIN r.logs = {} /\ DOMAIN r.orders = {}
      /\ r.op = op /\ r.at = "lock" /\ r.order = o /\ r.captain = c /\ r.status = s /\ r.holds = {}
  <2>1. op \in Handler /\ "lock" \in Place /\ s \in OrderStatus \cup {"NONE"}
    BY DEF Handler, Keepers, Place, OverrideTargets, OrderStatus
  <2> QED BY <2>1, BegunTyped DEF Begun
<1>3. Sound(r)
  BY <1>1, <1>2 DEF Sound, Placed, HoldsLocks, Locking, Aims, Writes, Settled, Desk, Restart, Keepers
<1> QED BY <1>1, <1>2, <1>3, MoveKeeps DEF TxInv, Call

LEMMA ScanKeeps ==
  ASSUME TxInv, NEW t \in Request, NEW l \in LogId, Scan(t, l)
  PROVE  TxInv'
<1> DEFINE r == Begun("EXPIRE", "lock", log[l].order, NoCaptain, l, "NONE")
<1>1. log[l] # NoLog /\ log[l].order \in Order
  BY DEF Scan, Pending, TxInv, RowsOK, LogRow
<1>2. /\ r \in TxRow /\ DOMAIN r.logs = {} /\ DOMAIN r.orders = {}
      /\ r.op = "EXPIRE" /\ r.at = "lock" /\ r.order = log[l].order /\ r.row = l /\ r.holds = {}
  <2>1. "EXPIRE" \in Handler /\ "lock" \in Place
    BY DEF Handler, Keepers, Place
  <2> QED BY <1>1, <2>1, BegunTyped DEF Begun
<1>3. Sound(r)
  BY <1>1, <1>2 DEF Sound, Placed, HoldsLocks, Locking, Aims, Writes, Settled, Desk, Restart, Keepers
<1> QED BY <1>2, <1>3, MoveKeeps DEF TxInv, Scan, Begins

LEMMA AnswerKeeps ==
  ASSUME TxInv, NEW t \in Request, NEW op \in {"ACCEPT", "REJECT"}, NEW l \in LogId, Answer(t, op, l)
  PROVE  TxInv'
<1> DEFINE r == Begun(op, "row", log[l].order, NoCaptain, l, "NONE")
<1>1. log[l] # NoLog /\ log[l].order \in Order
  BY DEF Answer, Pending, TxInv, RowsOK, LogRow
<1>2. /\ r \in TxRow /\ DOMAIN r.logs = {} /\ DOMAIN r.orders = {}
      /\ r.op = op /\ r.at = "row" /\ r.order = log[l].order /\ r.row = l /\ r.captain = NoCaptain
      /\ r.holds = {}
  <2>1. op \in Handler /\ "row" \in Place
    BY DEF Handler, Place
  <2> QED BY <1>1, <2>1, BegunTyped DEF Begun
<1>3. Sound(r)
  BY <1>1, <1>2 DEF Sound, Placed, HoldsLocks, Locking, Aims, Writes, Settled, Desk, Restart, Keepers
<1> QED BY <1>2, <1>3, MoveKeeps DEF TxInv, Answer, Begins

LEMMA DeliverKeeps ==
  ASSUME TxInv, NEW t \in Request, NEW o \in Order, NEW s \in OrderStatus, Deliver(t, o, s)
  PROVE  TxInv'
<1> DEFINE r == Begun("STATUS", "write", o, NoCaptain, NoLog, s)
<1>2. /\ r \in TxRow /\ DOMAIN r.logs = {} /\ DOMAIN r.orders = {}
      /\ r.op = "STATUS" /\ r.at = "write" /\ r.order = o /\ r.captain = NoCaptain /\ r.status = s
      /\ r.holds = {}
  <2>1. "STATUS" \in Handler /\ "write" \in Place
    BY DEF Handler, Place
  <2> QED BY <2>1, BegunTyped DEF Begun
<1>3. Sound(r)
  BY <1>2 DEF Sound, Placed, HoldsLocks, Locking, Aims, Writes, Settled, Desk, Restart, Keepers
<1> QED BY <1>2, <1>3, MoveKeeps DEF TxInv, Deliver, Begins

LEMMA RollbackKeeps ==
  ASSUME TxInv, NEW t \in Request, Rollback(t)
  PROVE  TxInv'
<1>1. \A q : Sound(q) => Sound(q)'
  BY DEF Rollback, Sound, Aims, Writes, Settled, PendingOf, Pending
<1>2. \A u \in Request : tx'[u] = NoTx \/ (u # t /\ tx'[u] = tx[u])
  BY DEF TxInv, Rollback
<1>3. \A u \in Request : tx'[u] # NoTx => Sound(tx[u])'
  <2> SUFFICES ASSUME NEW u \in Request, tx'[u] # NoTx PROVE Sound(tx[u])'
    OBVIOUS
  <2>1. Sound(tx'[u])
    BY <1>2 DEF TxInv
  <2> QED BY <2>1, <1>1
<1>4. Exclusion' /\ RowsOK' /\ tx' \in [Request -> TxRow \cup {NoTx}]
  BY <1>2 DEF TxInv, Exclusion, RowsOK, Rollback
<1> QED BY <1>3, <1>4 DEF TxInv

LEMMA WindowKeeps ==
  ASSUME TxInv, NEW l \in LogId, WindowElapses(l)
  PROVE  TxInv'
<1>1. \A q : Sound(q) => Sound(q)'
  BY DEF WindowElapses, Sound, Aims, Writes, Settled, PendingOf, Pending
<1>2. \A u \in Request : tx'[u] # NoTx => Sound(tx[u])'
  <2> SUFFICES ASSUME NEW u \in Request, tx'[u] # NoTx PROVE Sound(tx[u])'
    OBVIOUS
  <2>1. Sound(tx'[u])
    BY DEF TxInv, WindowElapses
  <2> QED BY <2>1, <1>1
<1>3. Exclusion' /\ RowsOK' /\ tx' \in [Request -> TxRow \cup {NoTx}]
  BY DEF TxInv, Exclusion, RowsOK, WindowElapses
<1> QED BY <1>2, <1>3 DEF TxInv

-----------------------------------------------------------------------------
(* What a transaction reads. *)

LEMMA SeenTyped ==
  ASSUME TxInv, NEW t \in Request, tx[t] # NoTx
  PROVE  /\ Orders(t) \in [Order -> TxOrderRow]
         /\ Seen(t) \in TxOrderRow
<1>1. tx[t].orders \in OrderPart /\ tx[t].order \in Order
  BY DEF TxInv, Sound, TxRow
<1>2. \A o \in DOMAIN tx[t].orders : tx[t].orders[o] \in TxOrderRow
  BY <1>1, OrderPartOut
<1>3. Orders(t) \in [Order -> TxOrderRow]
  BY <1>2 DEF Orders, Over, TxInv, RowsOK
<1> QED BY <1>1, <1>3 DEF Seen

LEMMA OverTyped ==
  ASSUME TxInv, NEW t \in Request, tx[t] # NoTx
  PROVE  /\ Over(log, tx[t].logs) \in [LogId -> LogRow \cup {NoLog}]
         /\ \A l \in LogId : Over(log, tx[t].logs)[l] # NoLog => log[l] # NoLog
<1>1. tx[t].logs \in LogPart /\ Writes(tx[t])
  BY DEF TxInv, Sound, TxRow
<1>2. \A l \in DOMAIN tx[t].logs : tx[t].logs[l] \in LogRow /\ log[l] # NoLog
  BY <1>1, LogPartOut DEF Writes
<1> QED BY <1>2 DEF Over, TxInv, RowsOK

\* The attempts are counted over finitely many rows.
LEMMA RoundsTyped ==
  ASSUME TxInv, NEW t \in Request, tx[t] # NoTx
  PROVE  Rounds(t) \in Nat
<1> DEFINE done == Completed(tx[t].order, Seen(t), Over(log, tx[t].logs))
<1>1. done \subseteq {l \in LogId : log[l] # NoLog}
  BY OverTyped DEF Completed
<1>2. IsFiniteSet(done)
  BY <1>1, FS_Subset DEF TxInv, RowsOK
<1> QED BY <1>2, FS_CardinalityType DEF Rounds

LEMMA ReleasedTyped ==
  ASSUME NEW row \in TxOrderRow, NEW s \in OrderStatus
  PROVE  /\ Detached(row, s) \in TxOrderRow
         /\ Detached(row, s).archived = row.archived /\ Detached(row, s).before = row.before
         /\ Released(row) \in TxOrderRow
         /\ Released(row).archived = row.archived /\ Released(row).before = row.before
  BY DEF Detached, Released, TxOrderRow, OrderStatus, Kind

-----------------------------------------------------------------------------
(* The statements. *)

\* The order's lock, which nobody else has.
LEMMA LockedDoes ==
  ASSUME TxInv, NEW t \in Request, tx[t] # NoTx, NEW place \in Place, Locked(t, place)
  PROVE  /\ tx[t] \in TxRow /\ Sound(tx[t]) /\ tx[t].at = "lock" /\ tx[t].holds = {}
         /\ tx' \in [Request -> TxRow \cup {NoTx}] /\ tx'[t] \in TxRow
         /\ \A u \in Request \ {t} : tx'[u] = tx[u]
         /\ tx'[t].op = tx[t].op /\ tx'[t].order = tx[t].order /\ tx'[t].captain = tx[t].captain
         /\ tx'[t].row = tx[t].row /\ tx'[t].status = tx[t].status /\ tx'[t].pool = tx[t].pool
         /\ tx'[t].rounds = tx[t].rounds /\ tx'[t].logs = tx[t].logs /\ tx'[t].orders = tx[t].orders
         /\ tx'[t].at = place /\ tx'[t].holds = {tx[t].order}
<1>1. tx[t] \in TxRow /\ Sound(tx[t]) /\ tx[t].at = "lock"
  BY DEF TxInv, Locked, At
<1>2. tx[t].holds = {}
  BY <1>1 DEF Sound, HoldsLocks, Locking, Keepers, Desk, Restart
<1>3. /\ tx' \in [Request -> TxRow \cup {NoTx}] /\ tx'[t] \in TxRow
      /\ \A u \in Request \ {t} : tx'[u] = tx[u]
      /\ tx'[t] = [tx[t] EXCEPT !.at = place, !.holds = @ \cup {tx[t].order}]
  BY <1>1 DEF Locked, TxInv, TxRow
<1> QED BY <1>1, <1>2, <1>3 DEF TxRow

LEMMA LockedKeeps ==
  ASSUME TxInv, NEW t \in Request, tx[t] # NoTx, NEW place \in Place, Locked(t, place),
         \/ tx[t].op \in Desk /\ place = "cancel"
         \/ tx[t].op = "EXPIRE" /\ place = "row"
         \/ tx[t].op = "REJECT" /\ place \in {"pool", "write"}
  PROVE  TxInv'
<1>1. /\ tx[t] \in TxRow /\ Sound(tx[t]) /\ tx[t].at = "lock" /\ tx'[t] \in TxRow
      /\ tx'[t].op = tx[t].op /\ tx'[t].order = tx[t].order /\ tx'[t].captain = tx[t].captain
      /\ tx'[t].row = tx[t].row /\ tx'[t].status = tx[t].status
      /\ tx'[t].logs = tx[t].logs /\ tx'[t].orders = tx[t].orders
      /\ tx'[t].at = place /\ tx'[t].holds = {tx[t].order}
  BY LockedDoes
<1>2. Sound(tx'[t])
  <2>1. Placed(tx'[t])
    BY <1>1 DEF Placed, Sound, Desk, Restart
  <2>2. HoldsLocks(tx'[t])
    <3>1. tx[t].order \in Order /\ tx[t].order \notin Captain
      BY <1>1, KeysAssumption DEF TxRow
    <3> QED BY <1>1, <3>1 DEF HoldsLocks, Locking, Keepers, Desk, Restart
  <2>3. Aims(tx'[t])
    BY <1>1 DEF Sound, Aims
  <2>4. Writes(tx'[t])
    BY <1>1 DEF Sound, Writes, Keepers, Desk, Restart
  <2>5. Settled(tx'[t])
    BY <1>1 DEF Settled, Desk, Restart
  <2> QED BY <1>1, <2>1, <2>2, <2>3, <2>4, <2>5 DEF Sound
<1>3. \A u \in Request \ {t} : tx[u] # NoTx => tx[u].holds \cap tx'[t].holds = {}
  BY <1>1 DEF Locked, Holding, Others
<1>4. tx' \in [Request -> TxRow \cup {NoTx}] /\ \A u \in Request \ {t} : tx'[u] = tx[u]
  BY LockedDoes
<1> QED BY <1>2, <1>3, <1>4, MoveKeeps DEF Locked

LEMMA LockKeeps ==
  ASSUME TxInv, NEW t \in Request, tx[t] # NoTx, Lock(t)
  PROVE  TxInv'
<1>1. CASE tx[t].op \in Desk /\ Locked(t, "cancel")
  BY <1>1, LockedKeeps DEF Place
<1>2. CASE tx[t].op = "EXPIRE" /\ Locked(t, "row")
  BY <1>2, LockedKeeps DEF Place
<1>3. CASE tx[t].op = "REJECT" /\ Locked(t, "pool")
  BY <1>3, LockedKeeps DEF Place
<1>4. CASE tx[t].op = "REJECT" /\ Locked(t, "write")
  BY <1>4, LockedKeeps DEF Place
<1> QED BY <1>1, <1>2, <1>3, <1>4 DEF Lock

\* The statement at "row" closes exactly the row the handler answers.
LEMMA UpdateRowDoes ==
  ASSUME TxInv, NEW t \in Request, tx[t] # NoTx, UpdateRow(t)
  PROVE  /\ tx[t] \in TxRow /\ Sound(tx[t]) /\ tx[t].at = "row"
         /\ tx[t].op \in {"EXPIRE", "ACCEPT", "REJECT"} /\ tx[t].row \in LogId /\ log[tx[t].row] \in LogRow
         /\ tx' \in [Request -> TxRow \cup {NoTx}] /\ tx'[t] \in TxRow
         /\ \A u \in Request \ {t} : tx'[u] = tx[u]
         /\ tx'[t].op = tx[t].op /\ tx'[t].status = tx[t].status
         /\ tx'[t].order = tx[t].order /\ tx'[t].captain = tx[t].captain
         /\ tx'[t].row = tx[t].row /\ tx'[t].holds = tx[t].holds /\ tx'[t].orders = tx[t].orders
         /\ tx[t].op = "ACCEPT" => tx'[t].at = "others"
         /\ tx[t].op = "REJECT" => tx'[t].at = "lock"
         /\ tx[t].op = "EXPIRE" => tx'[t].at \in {"pool", "write"}
         /\ tx'[t].logs = [m \in {tx[t].row} |-> [log[tx[t].row] EXCEPT !.response = Closing(tx[t].op)]]
<1> DEFINE l == tx[t].row
           written == [m \in {l} |-> [log[l] EXCEPT !.response = Closing(tx[t].op)]]
<1>1. tx[t] \in TxRow /\ Sound(tx[t]) /\ tx[t].at = "row"
  BY DEF TxInv, UpdateRow, At
<1>2. tx[t].op \in {"EXPIRE", "ACCEPT", "REJECT"}
  BY <1>1 DEF Sound, Placed, TxRow, Handler, Keepers, Desk, Restart
<1>3. l \in LogId /\ log[l] \in LogRow
  BY <1>1, <1>2 DEF Sound, Aims, TxInv, RowsOK
<1>4. Closing(tx[t].op) \in Response
  BY <1>2 DEF Closing, Response
<1>5. written \in LogPart
  <2>1. [log[l] EXCEPT !.response = Closing(tx[t].op)] \in LogRow
    BY <1>3, <1>4 DEF LogRow
  <2>2. {l} \in SUBSET LogId /\ written \in [{l} -> LogRow]
    BY <1>3, <2>1
  <2> QED BY <2>2, LogPartIn
<1>6. PICK place \in {"others", "lock", "pool", "write"} :
         /\ tx[t].op = "ACCEPT" => place = "others"
         /\ tx[t].op = "REJECT" => place = "lock"
         /\ tx[t].op = "EXPIRE" => place \in {"pool", "write"}
         /\ tx' = [tx EXCEPT ![t].at = place, ![t].logs = written]
  BY <1>2 DEF UpdateRow
<1>7. /\ tx' \in [Request -> TxRow \cup {NoTx}] /\ tx'[t] \in TxRow
      /\ \A u \in Request \ {t} : tx'[u] = tx[u]
      /\ tx'[t] = [tx[t] EXCEPT !.at = place, !.logs = written]
  <2> HIDE DEF written
  <2>1. place \in Place
    BY <1>6 DEF Place
  <2> QED BY <1>1, <1>5, <1>6, <2>1 DEF TxInv, TxRow
<1>8. /\ tx'[t].op = tx[t].op /\ tx'[t].status = tx[t].status
      /\ tx'[t].order = tx[t].order /\ tx'[t].captain = tx[t].captain
      /\ tx'[t].row = tx[t].row /\ tx'[t].holds = tx[t].holds /\ tx'[t].orders = tx[t].orders
      /\ tx'[t].at = place /\ tx'[t].logs = written
  <2> HIDE DEF written
  <2> QED BY <1>1, <1>7 DEF TxRow
<1> QED BY <1>1, <1>2, <1>3, <1>6, <1>7, <1>8

LEMMA UpdateRowKeeps ==
  ASSUME TxInv, NEW t \in Request, tx[t] # NoTx, UpdateRow(t)
  PROVE  TxInv'
<1> DEFINE l == tx[t].row
<1>1. /\ Sound(tx[t]) /\ tx[t].at = "row" /\ tx[t].op \in {"EXPIRE", "ACCEPT", "REJECT"}
      /\ l \in LogId /\ log[l] \in LogRow /\ log[l] # NoLog /\ log[l].order = tx[t].order
      /\ tx'[t] \in TxRow
  BY UpdateRowDoes, NoLogAssumption DEF Sound, Aims
<1>2. /\ tx'[t].op = tx[t].op /\ tx'[t].status = tx[t].status
      /\ tx'[t].order = tx[t].order /\ tx'[t].captain = tx[t].captain
      /\ tx'[t].row = l /\ tx'[t].holds = tx[t].holds /\ tx'[t].orders = tx[t].orders
      /\ tx[t].op = "ACCEPT" => tx'[t].at = "others"
      /\ tx[t].op = "REJECT" => tx'[t].at = "lock"
      /\ tx[t].op = "EXPIRE" => tx'[t].at \in {"pool", "write"}
  BY UpdateRowDoes
<1>3. /\ DOMAIN tx'[t].logs = {l}
      /\ tx'[t].logs[l].order = log[l].order /\ tx'[t].logs[l].captain = log[l].captain
      /\ tx'[t].logs[l].kind = log[l].kind /\ tx'[t].logs[l].response # "PENDING"
  <2>1. Closing(tx[t].op) # "PENDING"
    BY <1>1 DEF Closing
  <2>2. tx'[t].logs = [m \in {l} |-> [log[l] EXCEPT !.response = Closing(tx[t].op)]]
    BY UpdateRowDoes
  <2> QED BY <1>1, <2>1, <2>2 DEF LogRow
<1>4. Sound(tx'[t])
  <2>1. Placed(tx'[t])
    BY <1>1, <1>2 DEF Placed, Desk, Restart
  <2>2. HoldsLocks(tx'[t])
    BY <1>1, <1>2 DEF Sound, HoldsLocks, Locking, Keepers, Desk, Restart
  <2>3. Aims(tx'[t])
    BY <1>1, <1>2 DEF Sound, Aims
  <2>4. Writes(tx'[t])
    BY <1>1, <1>2, <1>3 DEF Sound, Writes, Keepers, Desk, Restart
  <2>5. Settled(tx'[t])
    BY <1>1, <1>2 DEF Settled, Desk, Restart
  <2> QED BY <1>1, <2>1, <2>2, <2>3, <2>4, <2>5 DEF Sound
<1>5. \A u \in Request \ {t} : tx[u] # NoTx => tx[u].holds \cap tx'[t].holds = {}
  BY <1>2 DEF TxInv, Exclusion
<1>6. tx' \in [Request -> TxRow \cup {NoTx}] /\ \A u \in Request \ {t} : tx'[u] = tx[u]
  BY UpdateRowDoes
<1> QED BY <1>4, <1>5, <1>6, MoveKeeps DEF UpdateRow

\* updateMany: the rows written so far and the order's open ones, which are closed.
LEMMA CancelRowsDoes ==
  ASSUME TxInv, NEW t \in Request, tx[t] # NoTx, CancelRows(t)
  PROVE  /\ tx[t] \in TxRow /\ Sound(tx[t]) /\ tx[t].at \in {"cancel", "others"}
         /\ tx[t].op \in Desk \cup {"ACCEPT"}
         /\ tx' \in [Request -> TxRow \cup {NoTx}] /\ tx'[t] \in TxRow
         /\ \A u \in Request \ {t} : tx'[u] = tx[u]
         /\ tx'[t].op = tx[t].op /\ tx'[t].status = tx[t].status
         /\ tx'[t].order = tx[t].order /\ tx'[t].captain = tx[t].captain
         /\ tx'[t].row = tx[t].row /\ tx'[t].holds = tx[t].holds /\ tx'[t].orders = tx[t].orders
         /\ tx'[t].at = IF tx[t].op \in Restart THEN "reset" ELSE "write"
         /\ DOMAIN tx'[t].logs = DOMAIN tx[t].logs \cup PendingOf(tx[t].order)
         /\ \A l \in DOMAIN tx[t].logs : tx'[t].logs[l] = tx[t].logs[l]
         /\ \A l \in PendingOf(tx[t].order) \ DOMAIN tx[t].logs :
               tx'[t].logs[l] = [log[l] EXCEPT !.response = "CANCELLED"]
<1> DEFINE rows == PendingOf(tx[t].order) \ DOMAIN tx[t].logs
           place == IF tx[t].op \in Restart THEN "reset" ELSE "write"
           written == [l \in DOMAIN tx[t].logs \cup rows |->
                          IF l \in rows THEN [log[l] EXCEPT !.response = "CANCELLED"] ELSE tx[t].logs[l]]
<1>1. tx[t] \in TxRow /\ Sound(tx[t]) /\ tx[t].at \in {"cancel", "others"}
  BY DEF TxInv, CancelRows, At
<1>2. tx[t].op \in Desk \cup {"ACCEPT"}
  BY <1>1 DEF Sound, Placed, TxRow, Handler, Keepers, Desk, Restart
<1>3. tx' = [tx EXCEPT ![t].at = place, ![t].logs = written]
  BY DEF CancelRows
<1>4. written \in LogPart
  <2>1. \A l \in rows : l \in LogId /\ [log[l] EXCEPT !.response = "CANCELLED"] \in LogRow
    BY DEF PendingOf, Pending, TxInv, RowsOK, LogRow, Response
  <2>2. \A l \in DOMAIN tx[t].logs : l \in LogId /\ tx[t].logs[l] \in LogRow
    BY <1>1, LogPartOut DEF TxRow
  <2>3. DOMAIN tx[t].logs \cup rows \in SUBSET LogId
    BY <2>1, <2>2
  <2>4. written \in [DOMAIN tx[t].logs \cup rows -> LogRow]
    <3> HIDE DEF rows
    <3> QED BY <2>1, <2>2
  <2> HIDE DEF written, rows
  <2> QED BY <2>3, <2>4, LogPartIn
<1>5. DOMAIN written = DOMAIN tx[t].logs \cup PendingOf(tx[t].order)
  OBVIOUS
<1>6. /\ \A l \in DOMAIN tx[t].logs : written[l] = tx[t].logs[l]
      /\ \A l \in rows : written[l] = [log[l] EXCEPT !.response = "CANCELLED"]
  <2> HIDE DEF rows
  <2>1. \A l \in DOMAIN tx[t].logs : l \notin rows
    BY DEF rows
  <2> QED BY <2>1
<1> HIDE DEF written
<1>7. /\ tx' \in [Request -> TxRow \cup {NoTx}] /\ tx'[t] \in TxRow
      /\ \A u \in Request \ {t} : tx'[u] = tx[u]
      /\ tx'[t] = [tx[t] EXCEPT !.at = place, !.logs = written]
  <2>1. place \in Place
    BY DEF Place
  <2> HIDE DEF place
  <2> QED BY <1>1, <1>3, <1>4, <2>1 DEF TxInv, TxRow
<1>8. /\ tx'[t].op = tx[t].op /\ tx'[t].status = tx[t].status
      /\ tx'[t].order = tx[t].order /\ tx'[t].captain = tx[t].captain
      /\ tx'[t].row = tx[t].row /\ tx'[t].holds = tx[t].holds /\ tx'[t].orders = tx[t].orders
      /\ tx'[t].at = place /\ tx'[t].logs = written
  BY <1>1, <1>7 DEF TxRow
<1> QED BY <1>1, <1>2, <1>5, <1>6, <1>7, <1>8

LEMMA CancelRowsKeeps ==
  ASSUME TxInv, NEW t \in Request, tx[t] # NoTx, CancelRows(t)
  PROVE  TxInv'
<1>1. /\ Sound(tx[t]) /\ tx[t].at \in {"cancel", "others"} /\ tx[t].op \in Desk \cup {"ACCEPT"}
      /\ tx'[t] \in TxRow /\ tx[t] \in TxRow
  BY CancelRowsDoes
<1>2. /\ tx'[t].op = tx[t].op /\ tx'[t].status = tx[t].status
      /\ tx'[t].order = tx[t].order /\ tx'[t].captain = tx[t].captain
      /\ tx'[t].row = tx[t].row /\ tx'[t].holds = tx[t].holds /\ tx'[t].orders = tx[t].orders
      /\ tx'[t].at = IF tx[t].op \in Restart THEN "reset" ELSE "write"
  BY CancelRowsDoes
<1>3. DOMAIN tx'[t].logs = DOMAIN tx[t].logs \cup PendingOf(tx[t].order)
  BY CancelRowsDoes
<1>4. ASSUME NEW l \in DOMAIN tx'[t].logs
      PROVE  /\ log[l] # NoLog /\ log[l].order = tx[t].order
             /\ tx'[t].logs[l].order = tx[t].order
             /\ tx'[t].logs[l].captain = log[l].captain /\ tx'[t].logs[l].kind = log[l].kind
             /\ tx'[t].logs[l].response # "PENDING"
  <2>1. CASE l \in DOMAIN tx[t].logs
    <3>1. tx'[t].logs[l] = tx[t].logs[l]
      BY <2>1, CancelRowsDoes
    <3> QED BY <1>1, <2>1, <3>1 DEF Sound, Writes
  <2>2. CASE l \notin DOMAIN tx[t].logs
    <3>1. l \in PendingOf(tx[t].order) \ DOMAIN tx[t].logs
      BY <1>3, <2>2
    <3>2. tx'[t].logs[l] = [log[l] EXCEPT !.response = "CANCELLED"]
      BY <3>1, CancelRowsDoes
    <3>3. log[l] \in LogRow /\ log[l] # NoLog /\ log[l].order = tx[t].order
      BY <3>1 DEF PendingOf, Pending, TxInv, RowsOK
    <3> QED BY <3>2, <3>3 DEF LogRow
  <2> QED BY <2>1, <2>2
<1>5. Sound(tx'[t])
  <2>1. Placed(tx'[t])
    BY <1>1, <1>2 DEF Placed, Desk, Restart
  <2>2. HoldsLocks(tx'[t])
    BY <1>1, <1>2 DEF Sound, Placed, HoldsLocks, Locking, Keepers, Desk, Restart
  <2>3. Aims(tx'[t])
    BY <1>1, <1>2 DEF Sound, Aims
  <2>4. Writes(tx'[t])
    <3>1. DOMAIN tx[t].orders = {} /\ tx'[t].at \in {"reset", "write"} /\ DOMAIN tx'[t].orders = {}
      BY <1>1, <1>2 DEF Sound, Writes
    <3> QED BY <1>1, <1>2, <1>4, <3>1 DEF Writes, Desk, Restart
  <2>5. Settled(tx'[t])
    BY <1>2, <1>3 DEF Settled
  <2> QED BY <1>1, <2>1, <2>2, <2>3, <2>4, <2>5 DEF Sound
<1>6. \A u \in Request \ {t} : tx[u] # NoTx => tx[u].holds \cap tx'[t].holds = {}
  BY <1>2 DEF TxInv, Exclusion
<1>7. tx' \in [Request -> TxRow \cup {NoTx}] /\ \A u \in Request \ {t} : tx'[u] = tx[u]
  BY CancelRowsDoes
<1> QED BY <1>5, <1>6, <1>7, MoveKeeps DEF CancelRows

LEMMA ResetDoes ==
  ASSUME TxInv, NEW t \in Request, tx[t] # NoTx, Reset(t)
  PROVE  /\ tx[t] \in TxRow /\ Sound(tx[t]) /\ tx[t].at = "reset" /\ tx[t].op \in Restart
         /\ tx' \in [Request -> TxRow \cup {NoTx}] /\ tx'[t] \in TxRow
         /\ \A u \in Request \ {t} : tx'[u] = tx[u]
         /\ tx'[t].op = tx[t].op /\ tx'[t].order = tx[t].order /\ tx'[t].captain = tx[t].captain
         /\ tx'[t].row = tx[t].row /\ tx'[t].status = tx[t].status /\ tx'[t].pool = tx[t].pool
         /\ tx'[t].rounds = tx[t].rounds /\ tx'[t].logs = tx[t].logs /\ tx'[t].holds = tx[t].holds
         /\ tx'[t].at = "pool" /\ DOMAIN tx'[t].orders = {tx[t].order}
         /\ LET row == [Seen(t) EXCEPT !.before = {l \in LogId : log[l] # NoLog}]
            IN  tx'[t].orders[tx[t].order] =
                  IF tx[t].op = "RESEND" THEN [Released(row) EXCEPT !.mode = "AUTO"] ELSE row
<1> DEFINE row == [Seen(t) EXCEPT !.before = {l \in LogId : log[l] # NoLog}]
           new == IF tx[t].op = "RESEND" THEN [Released(row) EXCEPT !.mode = "AUTO"] ELSE row
           written == [o \in {tx[t].order} |-> new]
<1>1. tx[t] \in TxRow /\ Sound(tx[t]) /\ tx[t].at = "reset"
  BY DEF TxInv, Reset, At
<1>2. tx[t].op \in Restart /\ tx[t].order \in Order
  BY <1>1 DEF Sound, Placed, TxRow, Handler, Keepers, Desk, Restart
<1>3. written \in OrderPart /\ DOMAIN written = {tx[t].order} /\ written[tx[t].order] = new
  <2>1. row \in TxOrderRow
    BY SeenTyped DEF TxOrderRow
  <2>2. new \in TxOrderRow
    BY <2>1, ReleasedTyped DEF TxOrderRow, OrderStatus
  <2> HIDE DEF new
  <2>3. written \in [{tx[t].order} -> TxOrderRow]
    BY <2>2
  <2>4. DOMAIN written = {tx[t].order} /\ written[tx[t].order] = new
    OBVIOUS
  <2> HIDE DEF written
  <2> QED BY <1>2, <2>3, <2>4, OrderPartIn
<1>4. tx' = [tx EXCEPT ![t].at = "pool", ![t].orders = written]
  BY DEF Reset
<1> HIDE DEF written
<1>5. /\ tx' \in [Request -> TxRow \cup {NoTx}] /\ tx'[t] \in TxRow
      /\ \A u \in Request \ {t} : tx'[u] = tx[u]
      /\ tx'[t] = [tx[t] EXCEPT !.at = "pool", !.orders = written]
  BY <1>1, <1>3, <1>4 DEF TxInv, TxRow, Place
<1>6. /\ tx'[t].op = tx[t].op /\ tx'[t].order = tx[t].order /\ tx'[t].captain = tx[t].captain
      /\ tx'[t].row = tx[t].row /\ tx'[t].status = tx[t].status /\ tx'[t].pool = tx[t].pool
      /\ tx'[t].rounds = tx[t].rounds /\ tx'[t].logs = tx[t].logs /\ tx'[t].holds = tx[t].holds
      /\ tx'[t].at = "pool" /\ tx'[t].orders = written
  BY <1>1, <1>5 DEF TxRow
<1> QED BY <1>1, <1>2, <1>3, <1>5, <1>6

LEMMA ResetKeeps ==
  ASSUME TxInv, NEW t \in Request, tx[t] # NoTx, Reset(t)
  PROVE  TxInv'
<1>1. /\ Sound(tx[t]) /\ tx[t].at = "reset" /\ tx[t].op \in Restart /\ tx'[t] \in TxRow
      /\ tx'[t].op = tx[t].op /\ tx'[t].order = tx[t].order /\ tx'[t].captain = tx[t].captain
      /\ tx'[t].row = tx[t].row /\ tx'[t].status = tx[t].status
      /\ tx'[t].logs = tx[t].logs /\ tx'[t].holds = tx[t].holds
      /\ tx'[t].at = "pool" /\ DOMAIN tx'[t].orders = {tx[t].order}
  BY ResetDoes
<1>2. Sound(tx'[t])
  <2>1. Placed(tx'[t])
    BY <1>1 DEF Placed, Restart, Desk
  <2>2. HoldsLocks(tx'[t])
    BY <1>1 DEF Sound, HoldsLocks, Locking, Keepers, Restart, Desk
  <2>3. Aims(tx'[t])
    BY <1>1 DEF Sound, Aims
  <2>4. Writes(tx'[t])
    BY <1>1 DEF Sound, Writes
  <2>5. Settled(tx'[t])
    BY <1>1 DEF Sound, Settled
  <2> QED BY <1>1, <2>1, <2>2, <2>3, <2>4, <2>5 DEF Sound
<1>3. \A u \in Request \ {t} : tx[u] # NoTx => tx[u].holds \cap tx'[t].holds = {}
  BY <1>1 DEF TxInv, Exclusion
<1>4. tx' \in [Request -> TxRow \cup {NoTx}] /\ \A u \in Request \ {t} : tx'[u] = tx[u]
  BY ResetDoes
<1> QED BY <1>2, <1>3, <1>4, MoveKeeps DEF Reset

LEMMA ReadPoolDoes ==
  ASSUME TxInv, NEW t \in Request, tx[t] # NoTx, ReadPool(t)
  PROVE  /\ tx[t] \in TxRow /\ Sound(tx[t]) /\ tx[t].at = "pool"
         /\ tx' \in [Request -> TxRow \cup {NoTx}] /\ tx'[t] \in TxRow
         /\ \A u \in Request \ {t} : tx'[u] = tx[u]
         /\ tx'[t].op = tx[t].op /\ tx'[t].order = tx[t].order /\ tx'[t].captain = tx[t].captain
         /\ tx'[t].row = tx[t].row /\ tx'[t].status = tx[t].status /\ tx'[t].logs = tx[t].logs
         /\ tx'[t].orders = tx[t].orders /\ tx'[t].holds = tx[t].holds
         /\ tx'[t].rounds = Rounds(t) /\ Rounds(t) \in Nat
         /\ \/ /\ AutoPool(Orders(t), Ready) = {} \/ Rounds(t) >= MaxAttempts
               /\ tx'[t].at = "write" /\ tx'[t].pool = {}
            \/ /\ AutoPool(Orders(t), Ready) # {} /\ Rounds(t) < MaxAttempts
               /\ tx'[t].at = "captain" /\ tx'[t].pool = AutoPool(Orders(t), Ready)
<1>1. tx[t] \in TxRow /\ Sound(tx[t]) /\ tx[t].at = "pool"
  BY DEF TxInv, ReadPool, At
<1>2. Rounds(t) \in Nat /\ AutoPool(Orders(t), Ready) \in SUBSET Captain
  BY RoundsTyped DEF AutoPool
<1>3. PICK place \in {"captain", "write"}, pool \in SUBSET Captain, n \in Nat :
         /\ tx' = [tx EXCEPT ![t].at = place, ![t].pool = pool, ![t].rounds = n]
         /\ n = Rounds(t)
         /\ \/ /\ AutoPool(Orders(t), Ready) = {} \/ Rounds(t) >= MaxAttempts
               /\ place = "write" /\ pool = {}
            \/ /\ AutoPool(Orders(t), Ready) # {} /\ Rounds(t) < MaxAttempts
               /\ place = "captain" /\ pool = AutoPool(Orders(t), Ready)
  <2> DEFINE place == IF AutoPool(Orders(t), Ready) = {} \/ Rounds(t) >= MaxAttempts THEN "write" ELSE "captain"
             pool == IF Rounds(t) >= MaxAttempts THEN {} ELSE AutoPool(Orders(t), Ready)
  <2>1. place \in {"captain", "write"} /\ pool \in SUBSET Captain
    BY <1>2
  <2>2. tx' = [tx EXCEPT ![t].at = place, ![t].pool = pool, ![t].rounds = Rounds(t)]
    BY DEF ReadPool
  <2>3. \/ /\ AutoPool(Orders(t), Ready) = {} \/ Rounds(t) >= MaxAttempts
           /\ place = "write" /\ pool = {}
        \/ /\ AutoPool(Orders(t), Ready) # {} /\ Rounds(t) < MaxAttempts
           /\ place = "captain" /\ pool = AutoPool(Orders(t), Ready)
    BY <1>2, AttemptsAssumption
  <2> HIDE DEF place, pool
  <2> QED BY <1>2, <2>1, <2>2, <2>3
<1>4. /\ tx' \in [Request -> TxRow \cup {NoTx}] /\ tx'[t] \in TxRow
      /\ \A u \in Request \ {t} : tx'[u] = tx[u]
      /\ tx'[t] = [tx[t] EXCEPT !.at = place, !.pool = pool, !.rounds = n]
  BY <1>1, <1>3 DEF TxInv, TxRow, Place
<1>5. /\ tx'[t].op = tx[t].op /\ tx'[t].order = tx[t].order /\ tx'[t].captain = tx[t].captain
      /\ tx'[t].row = tx[t].row /\ tx'[t].status = tx[t].status /\ tx'[t].logs = tx[t].logs
      /\ tx'[t].orders = tx[t].orders /\ tx'[t].holds = tx[t].holds
      /\ tx'[t].at = place /\ tx'[t].pool = pool /\ tx'[t].rounds = n
  BY <1>1, <1>4 DEF TxRow
<1> QED BY <1>1, <1>2, <1>3, <1>4, <1>5

LEMMA ReadPoolKeeps ==
  ASSUME TxInv, NEW t \in Request, tx[t] # NoTx, ReadPool(t)
  PROVE  TxInv'
<1>1. /\ Sound(tx[t]) /\ tx[t].at = "pool" /\ tx'[t] \in TxRow /\ tx'[t].at \in {"captain", "write"}
      /\ tx'[t].op = tx[t].op /\ tx'[t].order = tx[t].order /\ tx'[t].captain = tx[t].captain
      /\ tx'[t].row = tx[t].row /\ tx'[t].status = tx[t].status /\ tx'[t].logs = tx[t].logs
      /\ tx'[t].orders = tx[t].orders /\ tx'[t].holds = tx[t].holds
  BY ReadPoolDoes
<1>2. Sound(tx'[t])
  <2>1. Placed(tx'[t])
    BY <1>1 DEF Sound, Placed, Restart, Desk
  <2>2. HoldsLocks(tx'[t])
    BY <1>1 DEF Sound, HoldsLocks, Locking
  <2>3. Aims(tx'[t])
    BY <1>1 DEF Sound, Aims
  <2>4. Writes(tx'[t])
    BY <1>1 DEF Sound, Writes
  <2>5. Settled(tx'[t])
    BY <1>1 DEF Sound, Settled
  <2> QED BY <1>1, <2>1, <2>2, <2>3, <2>4, <2>5 DEF Sound
<1>3. \A u \in Request \ {t} : tx[u] # NoTx => tx[u].holds \cap tx'[t].holds = {}
  BY <1>1 DEF TxInv, Exclusion
<1>4. tx' \in [Request -> TxRow \cup {NoTx}] /\ \A u \in Request \ {t} : tx'[u] = tx[u]
  BY ReadPoolDoes
<1> QED BY <1>2, <1>3, <1>4, MoveKeeps DEF ReadPool

LEMMA LockCaptainDoes ==
  ASSUME TxInv, NEW t \in Request, tx[t] # NoTx, NEW c \in Captain, LockCaptain(t, c)
  PROVE  /\ tx[t] \in TxRow /\ Sound(tx[t]) /\ tx[t].at = "captain"
         /\ tx[t].op \in Restart \cup {"EXPIRE", "REJECT"}
         /\ tx' \in [Request -> TxRow \cup {NoTx}] /\ tx'[t] \in TxRow
         /\ \A u \in Request \ {t} : tx'[u] = tx[u]
         /\ tx'[t].op = tx[t].op /\ tx'[t].order = tx[t].order /\ tx'[t].row = tx[t].row
         /\ tx'[t].status = tx[t].status /\ tx'[t].rounds = tx[t].rounds
         /\ tx'[t].logs = tx[t].logs /\ tx'[t].orders = tx[t].orders
         /\ tx'[t].holds = tx[t].holds \cup {c} /\ tx'[t].pool = tx[t].pool \ {c}
         /\ tx'[t].at \in {"captain", "write"}
         /\ tx'[t].captain = IF Busy(c, Orders(t)) THEN NoCaptain ELSE c
         /\ ~Busy(c, Orders(t)) => tx'[t].at = "write"
<1>1. tx[t] \in TxRow /\ Sound(tx[t]) /\ tx[t].at = "captain"
  BY DEF TxInv, LockCaptain, At
<1>2. PICK place \in {"captain", "write"}, d \in Captain \cup {NoCaptain} :
         /\ tx' = [tx EXCEPT ![t].holds = @ \cup {c}, ![t].pool = tx[t].pool \ {c},
                             ![t].captain = d, ![t].at = place]
         /\ d = IF Busy(c, Orders(t)) THEN NoCaptain ELSE c
         /\ ~Busy(c, Orders(t)) => place = "write"
  <2> DEFINE d == IF Busy(c, Orders(t)) THEN NoCaptain ELSE c
             place == IF Busy(c, Orders(t)) /\ tx[t].pool # {c} THEN "captain" ELSE "write"
  <2>1. d \in Captain \cup {NoCaptain} /\ place \in {"captain", "write"}
    OBVIOUS
  <2>2. tx' = [tx EXCEPT ![t].holds = @ \cup {c}, ![t].pool = tx[t].pool \ {c},
                         ![t].captain = d, ![t].at = place]
    BY DEF LockCaptain
  <2>3. ~Busy(c, Orders(t)) => place = "write"
    OBVIOUS
  <2> HIDE DEF place
  <2> QED BY <2>1, <2>2, <2>3
<1>3. /\ tx' \in [Request -> TxRow \cup {NoTx}] /\ tx'[t] \in TxRow
      /\ \A u \in Request \ {t} : tx'[u] = tx[u]
      /\ tx'[t] = [tx[t] EXCEPT !.holds = @ \cup {c}, !.pool = tx[t].pool \ {c}, !.captain = d, !.at = place]
  <2>1. tx[t].holds \cup {c} \in SUBSET (Order \cup Captain) /\ tx[t].pool \ {c} \in SUBSET Captain
    BY <1>1 DEF TxRow
  <2>2. tx' = [tx EXCEPT ![t] = [tx[t] EXCEPT !.holds = @ \cup {c}, !.pool = tx[t].pool \ {c},
                                              !.captain = d, !.at = place]]
    BY <1>2 DEF TxInv
  <2>3. [tx[t] EXCEPT !.holds = @ \cup {c}, !.pool = tx[t].pool \ {c}, !.captain = d, !.at = place] \in TxRow
    BY <1>1, <2>1 DEF TxRow, Place
  <2> QED BY <2>2, <2>3 DEF TxInv
<1>4. /\ tx'[t].op = tx[t].op /\ tx'[t].order = tx[t].order /\ tx'[t].row = tx[t].row
      /\ tx'[t].status = tx[t].status /\ tx'[t].rounds = tx[t].rounds
      /\ tx'[t].logs = tx[t].logs /\ tx'[t].orders = tx[t].orders
      /\ tx'[t].at = place /\ tx'[t].holds = tx[t].holds \cup {c} /\ tx'[t].captain = d
      /\ tx'[t].pool = tx[t].pool \ {c}
  BY <1>1, <1>3 DEF TxRow
<1>5. tx[t].op \in Restart \cup {"EXPIRE", "REJECT"}
  BY <1>1 DEF Sound, Placed, TxRow, Handler, Keepers, Restart, Desk
<1> QED BY <1>1, <1>2, <1>3, <1>4, <1>5

LEMMA LockCaptainKeeps ==
  ASSUME TxInv, NEW t \in Request, tx[t] # NoTx, NEW c \in Captain, LockCaptain(t, c)
  PROVE  TxInv'
<1>1. /\ Sound(tx[t]) /\ tx[t].at = "captain" /\ tx[t].op \in Restart \cup {"EXPIRE", "REJECT"}
      /\ tx'[t] \in TxRow /\ tx'[t].at \in {"captain", "write"}
      /\ tx'[t].op = tx[t].op /\ tx'[t].order = tx[t].order /\ tx'[t].row = tx[t].row
      /\ tx'[t].status = tx[t].status /\ tx'[t].logs = tx[t].logs /\ tx'[t].orders = tx[t].orders
      /\ tx'[t].holds = tx[t].holds \cup {c}
  BY LockCaptainDoes
<1>2. Sound(tx'[t])
  <2>1. Placed(tx'[t])
    BY <1>1 DEF Placed, Restart, Desk
  <2>2. HoldsLocks(tx'[t])
    <3>1. c \notin Order
      BY KeysAssumption
    <3>2. Locking(tx[t]) /\ Locking(tx'[t])
      BY <1>1 DEF Locking, Keepers, Desk
    <3> QED BY <1>1, <3>1, <3>2 DEF Sound, HoldsLocks
  <2>3. Aims(tx'[t])
    BY <1>1 DEF Sound, Aims, Restart
  <2>4. Writes(tx'[t])
    BY <1>1 DEF Sound, Writes
  <2>5. Settled(tx'[t])
    BY <1>1 DEF Sound, Settled
  <2> QED BY <1>1, <2>1, <2>2, <2>3, <2>4, <2>5 DEF Sound
<1>3. \A u \in Request \ {t} : tx[u] # NoTx => tx[u].holds \cap tx'[t].holds = {}
  BY <1>1 DEF TxInv, Exclusion, LockCaptain, Holding, Others
<1>4. tx' \in [Request -> TxRow \cup {NoTx}] /\ \A u \in Request \ {t} : tx'[u] = tx[u]
  BY LockCaptainDoes
<1> QED BY <1>2, <1>3, <1>4, MoveKeeps DEF LockCaptain

-----------------------------------------------------------------------------
(* The commits. *)

\* What is common to them: t writes its order's row and closes the rows it has in tx[t].logs;
\* an offer adds a row of the order at most.
Commits(t, row, logs) ==
    /\ Commit(t, row, logs)
    /\ row \in TxOrderRow /\ row.archived = Seen(t).archived /\ row.before = Seen(t).before
    /\ \A l \in DOMAIN tx[t].logs : l \in DOMAIN logs /\ logs[l] = tx[t].logs[l]
    /\ \/ DOMAIN logs = DOMAIN tx[t].logs
       \/ /\ Locking(tx[t])
          /\ \E l \in LogId : /\ log[l] = NoLog
                              /\ logs[l] \in LogRow /\ logs[l].order = tx[t].order
                              /\ DOMAIN logs = DOMAIN tx[t].logs \cup {l}

LEMMA CommitOfferDoes ==
  ASSUME TxInv, NEW t \in Request, tx[t] # NoTx, CommitOffer(t)
  PROVE  \E row, logs : Commits(t, row, logs)
<1> DEFINE c == tx[t].captain
           k == CASE tx[t].op = "ASSIGN" -> "MANUAL" [] tx[t].op = "REASSIGN" -> "REASSIGN" [] OTHER -> "AUTO"
           row == AssignedTo([Seen(t) EXCEPT !.mode = IF k = "MANUAL" THEN "MANUAL" ELSE @], c, k)
           written(l) == [m \in DOMAIN tx[t].logs \cup {l} |->
                    IF m = l THEN [order |-> tx[t].order, captain |-> c, kind |-> k, response |-> "PENDING"]
                             ELSE tx[t].logs[m]]
<1>1. tx[t] \in TxRow /\ Sound(tx[t]) /\ tx[t].at = "write" /\ c \in Captain
  BY DEF TxInv, CommitOffer, Commit, At, TxRow
<1>2. Locking(tx[t])
  BY <1>1, CaptainAssumption DEF Sound, Aims, Locking, TxRow, Handler
<1>3. k \in Kind
  BY DEF Kind
<1>4. row \in TxOrderRow /\ row.archived = Seen(t).archived /\ row.before = Seen(t).before
  <2> HIDE DEF k
  <2> QED BY <1>1, <1>3, SeenTyped DEF AssignedTo, TxOrderRow, OrderStatus
<1>5. PICK l \in LogId : log[l] = NoLog /\ Commit(t, row, written(l))
  BY DEF CommitOffer
<1>6. l \notin DOMAIN tx[t].logs
  BY <1>1, <1>5 DEF Sound, Writes
<1>7. written(l)[l] \in LogRow /\ written(l)[l].order = tx[t].order
  <2> HIDE DEF k
  <2> QED BY <1>1, <1>3 DEF LogRow, TxRow, Response
<1>8. \A m \in DOMAIN tx[t].logs : m \in DOMAIN written(l) /\ written(l)[m] = tx[t].logs[m]
  BY <1>6
<1>9. Commits(t, row, written(l))
  <2> HIDE DEF k, row
  <2>1. DOMAIN written(l) = DOMAIN tx[t].logs \cup {l}
    OBVIOUS
  <2> HIDE DEF written
  <2> QED BY <1>2, <1>4, <1>5, <1>7, <1>8, <2>1 DEF Commits
<1> QED BY <1>9

LEMMA CommitReleaseDoes ==
  ASSUME TxInv, NEW t \in Request, tx[t] # NoTx, CommitRelease(t)
  PROVE  \E row, logs : Commits(t, row, logs)
<1>1. /\ Released(Seen(t)) \in TxOrderRow
      /\ Released(Seen(t)).archived = Seen(t).archived /\ Released(Seen(t)).before = Seen(t).before
  BY SeenTyped, ReleasedTyped DEF OrderStatus
<1> QED BY <1>1 DEF CommitRelease, Commits

LEMMA CommitAcceptDoes ==
  ASSUME TxInv, NEW t \in Request, tx[t] # NoTx, CommitAccept(t)
  PROVE  \E row, logs : Commits(t, row, logs)
<1>1. tx[t] \in TxRow /\ Sound(tx[t]) /\ tx[t].op = "ACCEPT"
  BY DEF TxInv, CommitAccept
<1>2. log[tx[t].row] \in LogRow
  BY <1>1 DEF TxInv, RowsOK, Sound, Aims
<1> DEFINE row == [Seen(t) EXCEPT !.status = "ACCEPTED", !.captain = log[tx[t].row].captain,
                                  !.by = log[tx[t].row].kind]
<1>3. row \in TxOrderRow /\ row.archived = Seen(t).archived /\ row.before = Seen(t).before
  BY <1>2, SeenTyped DEF TxOrderRow, LogRow, OrderStatus
<1> QED BY <1>3 DEF CommitAccept, Commits

LEMMA CommitStatusDoes ==
  ASSUME TxInv, NEW t \in Request, tx[t] # NoTx, CommitStatus(t)
  PROVE  \E row, logs : Commits(t, row, logs)
<1> DEFINE s == tx[t].status
<1>1. tx[t] \in TxRow /\ Sound(tx[t])
  BY DEF TxInv
<1>2. CASE tx[t].op \in {"STATUS", "ADMIN"} /\ Commit(t, [Seen(t) EXCEPT !.status = s], tx[t].logs)
  <2> DEFINE row == [Seen(t) EXCEPT !.status = s]
  <2>1. row \in TxOrderRow /\ row.archived = Seen(t).archived /\ row.before = Seen(t).before
    BY <1>1, <1>2, SeenTyped DEF Sound, Aims, OverrideTargets, OrderStatus, TxOrderRow
  <2> QED BY <1>2, <2>1 DEF Commits
<1>3. CASE /\ tx[t].op = "ADMIN"
           /\ Commit(t, [Detached(Seen(t), s) EXCEPT !.mode = IF s = "PENDING" THEN "AUTO" ELSE @], tx[t].logs)
  <2> DEFINE row == [Detached(Seen(t), s) EXCEPT !.mode = IF s = "PENDING" THEN "AUTO" ELSE @]
  <2>1. /\ Detached(Seen(t), s) \in TxOrderRow /\ Detached(Seen(t), s).archived = Seen(t).archived
        /\ Detached(Seen(t), s).before = Seen(t).before
    BY <1>1, <1>3, SeenTyped, ReleasedTyped DEF Sound, Aims, OverrideTargets, OrderStatus
  <2>2. row \in TxOrderRow /\ row.archived = Seen(t).archived /\ row.before = Seen(t).before
    BY <2>1 DEF TxOrderRow
  <2> QED BY <1>3, <2>2 DEF Commits
<1>4. CASE tx[t].op = "CANCEL" /\ Commit(t, Detached(Seen(t), "CONFIRMED"), tx[t].logs)
  <2> DEFINE row == Detached(Seen(t), "CONFIRMED")
  <2>1. row \in TxOrderRow /\ row.archived = Seen(t).archived /\ row.before = Seen(t).before
    BY SeenTyped, ReleasedTyped DEF OrderStatus
  <2> QED BY <1>4, <2>1 DEF Commits
<1> QED BY <1>2, <1>3, <1>4 DEF CommitStatus

\* The rows after a commit: nothing vanishes or moves, only closed rows are written over
\* committed ones, and a row is added only under the order's lock.
LEMMA CommitDoes ==
  ASSUME TxInv, NEW t \in Request, tx[t] # NoTx, NEW row, NEW logs, Commits(t, row, logs)
  PROVE  /\ RowsOK'
         /\ tx' \in [Request -> TxRow \cup {NoTx}]
         /\ tx'[t] = NoTx /\ \A u \in Request \ {t} : tx'[u] = tx[u]
         /\ \A l \in LogId : log[l] # NoLog =>
               /\ log'[l] # NoLog /\ log'[l].order = log[l].order
               /\ log'[l].captain = log[l].captain /\ log'[l].kind = log[l].kind
               /\ Pending(l)' => Pending(l) /\ l \notin DOMAIN tx[t].logs
         /\ \A l \in LogId : log[l] # NoLog /\ l \notin DOMAIN tx[t].logs => log'[l] = log[l]
         /\ \A l \in LogId : log'[l] # log[l] => log'[l].order = tx[t].order
         /\ \A o \in Order : o # tx[t].order => PendingOf(o)' = PendingOf(o)
         /\ ~Locking(tx[t]) => \A l \in LogId : Pending(l)' => Pending(l)
         /\ \A l, m \in LogId : log[l] = NoLog /\ log[m] = NoLog /\ log'[l] # NoLog /\ log'[m] # NoLog
                               => l = m
<1>1. tx[t] \in TxRow /\ Sound(tx[t]) /\ tx[t].order \in Order
  BY DEF TxInv, TxRow
<1>2. \A l \in LogId : log'[l] = IF l \in DOMAIN logs THEN logs[l] ELSE log[l]
  BY DEF Commits, Commit, Over, TxInv, RowsOK
<1>3. \A l \in DOMAIN tx[t].logs :
         /\ log[l] # NoLog /\ log[l].order = tx[t].order /\ log'[l] \in LogRow
         /\ log'[l].order = tx[t].order /\ log'[l].captain = log[l].captain /\ log'[l].kind = log[l].kind
         /\ log'[l].response # "PENDING" /\ l \in LogId
  BY <1>1, <1>2, LogPartOut DEF Sound, Writes, TxRow, Commits
<1>4. PICK S \in SUBSET LogId :
         /\ \A l \in LogId : l \in S \/ l \in DOMAIN tx[t].logs \/ log'[l] = log[l]
         /\ \A l \in S : log[l] = NoLog /\ log'[l] \in LogRow /\ log'[l].order = tx[t].order
         /\ IsFiniteSet(S) /\ (S # {} => Locking(tx[t])) /\ (\A l, m \in S : l = m)
  <2>1. CASE DOMAIN logs = DOMAIN tx[t].logs
    <3>1. \A l \in LogId : l \in DOMAIN tx[t].logs \/ log'[l] = log[l]
      BY <1>2, <2>1
    <3> QED BY <3>1, FS_EmptySet
  <2>2. CASE DOMAIN logs # DOMAIN tx[t].logs
    <3>1. PICK l \in LogId : /\ log[l] = NoLog
                             /\ logs[l] \in LogRow /\ logs[l].order = tx[t].order
                             /\ DOMAIN logs = DOMAIN tx[t].logs \cup {l}
      BY <2>2 DEF Commits
    <3>2. log'[l] = logs[l] /\ \A m \in LogId : m = l \/ m \in DOMAIN tx[t].logs \/ log'[m] = log[m]
      BY <1>2, <3>1
    <3>3. IsFiniteSet({l}) /\ Locking(tx[t])
      BY <2>2, FS_Singleton DEF Commits
    <3> QED BY <3>1, <3>2, <3>3
  <2> QED BY <2>1, <2>2
<1>5. \A l \in LogId : log'[l] = log[l] \/ l \in S \/ l \in DOMAIN tx[t].logs
  BY <1>4
<1>6. RowsOK'
  <2>1. order' \in [Order -> TxOrderRow] /\ due' \subseteq LogId
    BY <1>1 DEF Commits, Commit, TxInv, RowsOK
  <2>2. log' \in [LogId -> LogRow \cup {NoLog}]
    <3>1. \A l \in LogId : log'[l] \in LogRow \cup {NoLog}
      BY <1>3, <1>4 DEF TxInv, RowsOK
    <3>2. log' = [l \in LogId |-> log'[l]]
      BY DEF Commits, Commit, Over, TxInv, RowsOK
    <3> QED BY <3>1, <3>2
  <2>3. {l \in LogId : log'[l] # NoLog} \subseteq {l \in LogId : log[l] # NoLog} \cup S
    BY <1>3, <1>4
  <2>4. IsFiniteSet({l \in LogId : log'[l] # NoLog})
    BY <1>4, <2>3, FS_Union, FS_Subset DEF TxInv, RowsOK
  <2> QED BY <2>1, <2>2, <2>4 DEF RowsOK
<1>7. /\ tx' \in [Request -> TxRow \cup {NoTx}]
      /\ tx'[t] = NoTx /\ \A u \in Request \ {t} : tx'[u] = tx[u]
  BY DEF Commits, Commit, TxInv
<1>8. ASSUME NEW l \in LogId, log[l] # NoLog
      PROVE  /\ log'[l] # NoLog /\ log'[l].order = log[l].order
             /\ log'[l].captain = log[l].captain /\ log'[l].kind = log[l].kind
             /\ Pending(l)' => Pending(l) /\ l \notin DOMAIN tx[t].logs
  BY <1>3, <1>4, <1>8, NoLogAssumption DEF Pending
<1>9. ASSUME NEW l \in LogId, log'[l] # log[l]
      PROVE  log'[l].order = tx[t].order /\ (log[l] # NoLog => log[l].order = tx[t].order)
  BY <1>3, <1>4, <1>9
<1>10. ASSUME NEW o \in Order, o # tx[t].order
       PROVE  PendingOf(o)' = PendingOf(o)
  <2>1. ASSUME NEW l \in LogId
        PROVE  l \in PendingOf(o)' <=> l \in PendingOf(o)
    <3>1. CASE log'[l] = log[l]
      BY <3>1 DEF PendingOf, Pending
    <3>2. CASE log'[l] # log[l]
      BY <1>9, <1>10, <3>2 DEF PendingOf, Pending
    <3> QED BY <3>1, <3>2
  <2> QED BY <2>1 DEF PendingOf
<1>11. ASSUME ~Locking(tx[t]), NEW l \in LogId, Pending(l)'
       PROVE  Pending(l)
  BY <1>3, <1>4, <1>11 DEF Pending
<1>12. \A l \in LogId : log[l] # NoLog /\ l \notin DOMAIN tx[t].logs => log'[l] = log[l]
  BY <1>4
<1>13. \A l, m \in LogId : log[l] = NoLog /\ log[m] = NoLog /\ log'[l] # NoLog /\ log'[m] # NoLog
                            => l = m
  BY <1>3, <1>4
<1> QED BY <1>6, <1>7, <1>8, <1>9, <1>10, <1>11, <1>12, <1>13

\* The order's lock: two handlers that have it are of different orders.
LEMMA LockIsExclusive ==
  ASSUME TxInv, NEW t \in Request, NEW u \in Request, t # u, tx[t] # NoTx, tx[u] # NoTx,
         Locking(tx[t]), Locking(tx[u])
  PROVE  tx[t].order # tx[u].order
<1>1. tx[t].order \in tx[t].holds /\ tx[u].order \in tx[u].holds
  BY DEF TxInv, Sound, HoldsLocks
<1> QED BY <1>1 DEF TxInv, Exclusion

\* A commit makes no row of an order PENDING that another handler has locked.
LEMMA CommitSpares ==
  ASSUME TxInv, NEW t \in Request, tx[t] # NoTx, NEW row, NEW logs, Commits(t, row, logs),
         NEW u \in Request, u # t, tx[u] # NoTx, Locking(tx[u])
  PROVE  PendingOf(tx[u].order)' \subseteq PendingOf(tx[u].order) /\ tx'[u] = tx[u]
<1>1. tx[u].order \in Order /\ tx'[u] = tx[u]
  BY CommitDoes DEF TxInv, TxRow
<1>2. CASE Locking(tx[t])
  <2>1. tx[u].order # tx[t].order
    BY <1>2, LockIsExclusive
  <2>2. \A o \in Order : o # tx[t].order => PendingOf(o)' = PendingOf(o)
    BY CommitDoes
  <2>3. PendingOf(tx[u].order)' = {l \in LogId : Pending(l)' /\ log'[l].order = tx[u].order}
    BY <1>1 DEF PendingOf
  <2>4. \A o : PendingOf(o)' = {l \in LogId : Pending(l)' /\ log'[l].order = o}
    BY DEF PendingOf
  <2> QED BY <1>1, <2>1, <2>2, <2>3, <2>4
<1>3. CASE ~Locking(tx[t])
  <2>1. ASSUME NEW l \in PendingOf(tx[u].order)'
        PROVE  l \in PendingOf(tx[u].order)
    <3>1. l \in LogId /\ Pending(l)' /\ log'[l].order = tx[u].order
      BY <1>1 DEF PendingOf
    <3>2. Pending(l)
      BY <1>3, <3>1, CommitDoes
    <3> QED BY <3>1, <3>2, CommitDoes DEF PendingOf, Pending
  <2> QED BY <1>1, <2>1
<1> QED BY <1>2, <1>3

LEMMA CommitKeeps ==
  ASSUME TxInv, NEW t \in Request, tx[t] # NoTx, NEW row, NEW logs, Commits(t, row, logs)
  PROVE  TxInv'
<1>1. ASSUME NEW u \in Request, tx'[u] # NoTx
      PROVE  Sound(tx[u])'
  <2>1. u # t /\ tx'[u] = tx[u] /\ Sound(tx[u]) /\ tx[u] \in TxRow /\ tx[u] # NoTx
    BY <1>1, CommitDoes DEF TxInv, Sound
  <2>2. Aims(tx[u])'
    BY <2>1, CommitDoes DEF Sound, Aims
  <2>3. Writes(tx[u])'
    <3>1. DOMAIN tx[u].logs \subseteq LogId
      BY <2>1, LogPartOut DEF TxRow
    <3> QED BY <2>1, <3>1, CommitDoes DEF Sound, Writes
  <2>4. Settled(tx[u])'
    <3> SUFFICES ASSUME tx[u].op \in Desk, tx[u].at \in {"reset", "pool", "captain", "write"}
                 PROVE  PendingOf(tx[u].order)' \subseteq DOMAIN tx[u].logs
      BY <2>1 DEF Settled
    <3>1. Locking(tx[u]) /\ PendingOf(tx[u].order) \subseteq DOMAIN tx[u].logs /\ tx[u].order \in Order
      BY <2>1 DEF Sound, Settled, Locking, Keepers, TxRow
    <3> QED BY <2>1, <3>1, CommitSpares
  <2> QED BY <2>1, <2>2, <2>3, <2>4 DEF Sound, Placed, HoldsLocks, Locking
<1>2. Exclusion'
  BY CommitDoes DEF TxInv, Exclusion
<1>3. RowsOK' /\ tx' \in [Request -> TxRow \cup {NoTx}]
  BY CommitDoes
<1> QED BY <1>1, <1>2, <1>3 DEF TxInv

\* Every step keeps the invariant.
LEMMA StepCommits ==
  ASSUME TxInv, NEW t \in Request, tx[t] # NoTx,
         CommitOffer(t) \/ CommitRelease(t) \/ CommitAccept(t) \/ CommitStatus(t)
  PROVE  \E row, logs : Commits(t, row, logs)
  BY CommitOfferDoes, CommitReleaseDoes, CommitAcceptDoes, CommitStatusDoes

LEMMA TxStep == TxInv /\ [Next]_vars => TxInv'
<1> SUFFICES ASSUME TxInv, [Next]_vars PROVE TxInv'
  OBVIOUS
<1>1. ASSUME NEW t \in Request, Step(t)
      PROVE  TxInv'
  <2>1. CASE Lock(t)
    BY <1>1, <2>1, LockKeeps DEF Step
  <2>2. CASE UpdateRow(t)
    BY <1>1, <2>2, UpdateRowKeeps DEF Step
  <2>3. CASE CancelRows(t)
    BY <1>1, <2>3, CancelRowsKeeps DEF Step
  <2>4. CASE Reset(t)
    BY <1>1, <2>4, ResetKeeps DEF Step
  <2>5. CASE ReadPool(t)
    BY <1>1, <2>5, ReadPoolKeeps DEF Step
  <2>6. CASE \E c \in Captain : LockCaptain(t, c)
    BY <1>1, <2>6, LockCaptainKeeps DEF Step
  <2>7. CASE CommitOffer(t) \/ CommitRelease(t) \/ CommitAccept(t) \/ CommitStatus(t)
    BY <1>1, <2>7, StepCommits, CommitKeeps DEF Step
  <2> QED BY <1>1, <2>1, <2>2, <2>3, <2>4, <2>5, <2>6, <2>7 DEF Step
<1>2. ASSUME UNCHANGED vars PROVE TxInv'
  <2>1. \A q : Sound(q) => Sound(q)'
    BY <1>2 DEF vars, Sound, Aims, Writes, Settled, PendingOf, Pending
  <2>2. \A u \in Request : tx'[u] # NoTx => Sound(tx[u])'
    BY <1>2, <2>1 DEF vars, TxInv
  <2> QED BY <1>2, <2>2 DEF vars, TxInv, RowsOK, Exclusion
<1> QED BY <1>1, <1>2, RollbackKeeps, CallKeeps, DeliverKeeps, ScanKeeps, AnswerKeeps, WindowKeeps DEF Next

\* The transactions stay sound, whichever handlers run, and in whatever order.
THEOREM TxInvariance == Spec => []TxInv
<1>1. Init => TxInv
  BY TxInit
<1>2. TxInv /\ [Next]_vars => TxInv'
  BY TxStep
<1> QED BY <1>1, <1>2, PTL DEF Spec

-----------------------------------------------------------------------------
(* The theorems that hold for every choice of handlers. *)

\* A step of t's that does not end it.
Statement(t) ==
    \/ Lock(t) \/ UpdateRow(t) \/ CancelRows(t) \/ Reset(t) \/ ReadPool(t)
    \/ \E c \in Captain : LockCaptain(t, c)

\* The step that ends it.
Finish(t) == CommitOffer(t) \/ CommitRelease(t) \/ CommitAccept(t) \/ CommitStatus(t)

\* What has just begun has written nothing, and what will lock first has not locked.
Fresh(r) ==
    /\ r.op \in Ops /\ r.op \in Handler
    /\ DOMAIN r.logs = {}
    /\ r.op \in Keepers => r.at = "lock"
    /\ r.op \notin {"ASSIGN", "REASSIGN"} => r.captain = NoCaptain
    /\ r.op = "EXPIRE" => r.row \in due

\* A step runs a statement, commits, or begins and ends transactions without touching a row.
LEMMA NextSteps ==
  ASSUME TxInv, [Next]_vars
  PROVE  \/ \E t \in Request : tx[t] # NoTx /\ Statement(t)
         \/ \E t \in Request : tx[t] # NoTx /\ Finish(t)
         \/ /\ UNCHANGED <<order, log>>
            /\ UNCHANGED due \/ \E l \in LogId : WindowElapses(l)
            /\ \A u \in Request : tx'[u] \in {NoTx, tx[u]} \/ Fresh(tx'[u])
<1>1. ASSUME NEW t \in Request, Step(t)
      PROVE  tx[t] # NoTx /\ (Statement(t) \/ Finish(t))
  BY <1>1 DEF Step, Statement, Finish
<1>2. ASSUME NEW t \in Request, NEW op, NEW at, NEW o, NEW c, NEW l, NEW s, op \in Ops, op \in Handler,
             op \in Keepers => at = "lock", op \notin {"ASSIGN", "REASSIGN"} => c = NoCaptain,
             op = "EXPIRE" => l \in due, tx' = Begins(t, Begun(op, at, o, c, l, s))
      PROVE  \A u \in Request : tx'[u] \in {NoTx, tx[u]} \/ Fresh(tx'[u])
  <2>1. DOMAIN <<>> = {}
    OBVIOUS
  <2>2. \A u \in Request : tx'[u] = IF u = t THEN Begun(op, at, o, c, l, s) ELSE tx[u]
    BY <1>2 DEF Begins, TxInv
  <2>3. Fresh(Begun(op, at, o, c, l, s))
    BY <1>2, <2>1 DEF Begun, Fresh
  <2> QED BY <2>2, <2>3
<1>3. ASSUME NEW t \in Request, NEW o \in Order, Call(t, o)
      PROVE  UNCHANGED <<order, log, due>> /\ \A u \in Request : tx'[u] \in {NoTx, tx[u]} \/ Fresh(tx'[u])
  <2>1. PICK op \in Desk, c \in Captain \cup {NoCaptain}, s \in OverrideTargets \cup {"NONE"} :
            /\ op \in Ops /\ tx' = Begins(t, Begun(op, "lock", o, c, NoLog, s))
            /\ op \notin {"ASSIGN", "REASSIGN"} => c = NoCaptain
    BY <1>3 DEF Call, MayBegin
  <2>2. op \in Handler /\ op # "EXPIRE"
    BY DEF Handler, Keepers, Desk, Restart
  <2> QED BY <1>2, <1>3, <2>1, <2>2 DEF Call
<1>4. ASSUME NEW t \in Request, NEW l \in LogId, Scan(t, l)
      PROVE  UNCHANGED <<order, log, due>> /\ \A u \in Request : tx'[u] \in {NoTx, tx[u]} \/ Fresh(tx'[u])
  BY <1>2, <1>4 DEF Scan, MayBegin, Handler, Keepers
<1>5. ASSUME NEW t \in Request, NEW op \in {"ACCEPT", "REJECT"}, NEW l \in LogId, Answer(t, op, l)
      PROVE  UNCHANGED <<order, log, due>> /\ \A u \in Request : tx'[u] \in {NoTx, tx[u]} \/ Fresh(tx'[u])
  <2>1. op \in Handler /\ op \notin Keepers
    BY DEF Handler, Keepers, Desk, Restart
  <2> QED BY <1>2, <1>5, <2>1 DEF Answer, MayBegin
<1>6. ASSUME NEW t \in Request, NEW o \in Order, NEW s \in OrderStatus, Deliver(t, o, s)
      PROVE  UNCHANGED <<order, log, due>> /\ \A u \in Request : tx'[u] \in {NoTx, tx[u]} \/ Fresh(tx'[u])
  <2>1. "STATUS" \in Handler /\ "STATUS" \notin Keepers
    BY DEF Handler, Keepers, Desk, Restart
  <2> QED BY <1>2, <1>6, <2>1 DEF Deliver, MayBegin
<1>7. ASSUME NEW t \in Request, Rollback(t)
      PROVE  UNCHANGED <<order, log, due>> /\ \A u \in Request : tx'[u] \in {NoTx, tx[u]}
  BY <1>7 DEF Rollback, TxInv
<1>8. ASSUME UNCHANGED vars \/ \E l \in LogId : WindowElapses(l)
      PROVE  /\ UNCHANGED <<order, log>>
             /\ UNCHANGED due \/ \E l \in LogId : WindowElapses(l)
             /\ \A u \in Request : tx'[u] \in {NoTx, tx[u]}
  BY <1>8 DEF vars, WindowElapses
<1> QED BY <1>1, <1>3, <1>4, <1>5, <1>6, <1>7, <1>8 DEF Next

LEMMA NextCases ==
  ASSUME TxInv, [Next]_vars
  PROVE  \/ \E t \in Request : tx[t] # NoTx /\ Statement(t)
         \/ \E t \in Request : \E row, logs : tx[t] # NoTx /\ Commits(t, row, logs)
         \/ /\ UNCHANGED <<order, log>>
            /\ UNCHANGED due \/ \E l \in LogId : WindowElapses(l)
            /\ \A u \in Request : tx'[u] \in {NoTx, tx[u]} \/ Fresh(tx'[u])
<1>1. ASSUME NEW t \in Request, tx[t] # NoTx, Finish(t)
      PROVE  \E row, logs : Commits(t, row, logs)
  BY <1>1, StepCommits DEF Finish
<1> QED BY <1>1, NextSteps

\* What a step that commits nothing leaves alone, and what it may do to t's written rows.
LEMMA StatementDoes ==
  ASSUME TxInv, NEW t \in Request, tx[t] # NoTx, Statement(t)
  PROVE  /\ UNCHANGED <<order, log, due>>
         /\ tx'[t] \in TxRow /\ \A u \in Request \ {t} : tx'[u] = tx[u]
         /\ tx'[t].op = tx[t].op /\ tx'[t].order = tx[t].order /\ tx'[t].row = tx[t].row
         /\ \/ tx[t].at = "lock" /\ Lock(t) /\ tx'[t].logs = tx[t].logs
            \/ tx[t].at = "row" /\ UpdateRow(t) /\ DOMAIN tx'[t].logs = {tx[t].row}
            \/ /\ tx[t].at \in {"cancel", "others"} /\ CancelRows(t)
               /\ DOMAIN tx'[t].logs = DOMAIN tx[t].logs \cup PendingOf(tx[t].order)
            \/ tx[t].at \in {"reset", "pool", "captain"} /\ tx'[t].logs = tx[t].logs
<1>1. CASE Lock(t)
  <2>1. PICK place \in {"cancel", "row", "pool", "write"} : Locked(t, place)
    BY <1>1 DEF Lock
  <2>2. place \in Place
    BY DEF Place
  <2>3. UNCHANGED <<order, log, due>>
    BY <2>1 DEF Locked
  <2> QED BY <1>1, <2>1, <2>2, <2>3, LockedDoes
<1>2. CASE UpdateRow(t)
  <2>1. UNCHANGED <<order, log, due>>
    BY <1>2 DEF UpdateRow
  <2>2. tx'[t].logs = [m \in {tx[t].row} |-> [log[tx[t].row] EXCEPT !.response = Closing(tx[t].op)]]
    BY <1>2, UpdateRowDoes
  <2>3. DOMAIN tx'[t].logs = {tx[t].row}
    BY <2>2
  <2> QED BY <1>2, <2>1, <2>3, UpdateRowDoes
<1>3. CASE CancelRows(t)
  <2>1. UNCHANGED <<order, log, due>>
    BY <1>3 DEF CancelRows
  <2> QED BY <1>3, <2>1, CancelRowsDoes
<1>4. CASE Reset(t)
  <2>1. UNCHANGED <<order, log, due>>
    BY <1>4 DEF Reset
  <2> QED BY <1>4, <2>1, ResetDoes
<1>5. CASE ReadPool(t)
  <2>1. UNCHANGED <<order, log, due>>
    BY <1>5 DEF ReadPool
  <2> QED BY <1>5, <2>1, ReadPoolDoes
<1>6. CASE \E c \in Captain : LockCaptain(t, c)
  <2>1. PICK c \in Captain : LockCaptain(t, c)
    BY <1>6
  <2>2. UNCHANGED <<order, log, due>>
    BY <2>1 DEF LockCaptain
  <2> QED BY <2>1, <2>2, LockCaptainDoes
<1> QED BY <1>1, <1>2, <1>3, <1>4, <1>5, <1>6 DEF Statement

\* The committed rows and the transactions keep their types.
THEOREM TxTypeSafe == Spec => []TypeOK
<1>1. TxInv => TypeOK
  <2> SUFFICES ASSUME TxInv, NEW t \in Request, tx[t] # NoTx
               PROVE  /\ tx[t].holds \subseteq Order \cup Captain
                      /\ DOMAIN tx[t].logs \subseteq LogId
                      /\ DOMAIN tx[t].orders \subseteq {tx[t].order}
    BY DEF TxInv, RowsOK, TypeOK
  <2>1. tx[t] \in TxRow /\ Writes(tx[t])
    BY DEF TxInv, Sound
  <2> QED BY <2>1, LogPartOut DEF TxRow, Writes
<1> QED BY <1>1, TxInvariance, PTL

\* Whatever runs beside it, a desk handler's commit leaves no row of its order PENDING but its own.
THEOREM DeskHasTheLastWord == Spec => DeskSettles
<1> DEFINE Settles ==
      \A t \in Request :
        tx[t] # NoTx /\ tx[t].op \in Desk /\ At(t, "write") /\ tx'[t] = NoTx /\ <<order, log>>' # <<order, log>>
        => \A l \in LogId : (Pending(l) /\ log[l].order = tx[t].order) => ~Pending(l)'
<1>1. TxInv /\ [Next]_vars => [Settles]_vars
  <2> SUFFICES ASSUME TxInv, Next, NEW t \in Request, tx[t] # NoTx, tx[t].op \in Desk, At(t, "write"),
                      tx'[t] = NoTx, <<order, log>>' # <<order, log>>,
                      NEW l \in LogId, Pending(l), log[l].order = tx[t].order
               PROVE  ~Pending(l)'
    BY DEF vars
  <2>1. PICK u \in Request : tx[u] # NoTx /\ \E row, logs : Commits(u, row, logs)
    <3>1. ~\E u \in Request : tx[u] # NoTx /\ Statement(u)
      BY StatementDoes
    <3> QED BY <3>1, NextCases
  <2>2. u = t
    BY <2>1, CommitDoes
  <2>3. l \in DOMAIN tx[t].logs
    BY DEF TxInv, Sound, Settled, At, PendingOf
  <2>4. log[l] # NoLog
    BY DEF Pending
  <2> QED BY <2>1, <2>2, <2>3, <2>4, CommitDoes
<1> QED BY <1>1, TxInvariance, PTL DEF Spec, DeskSettles

-----------------------------------------------------------------------------
(* One open row per order, as long as rejects do not run. *)

LEMMA StatementKeepsOne ==
  ASSUME OneInv, TxInv', NEW t \in Request, tx[t] # NoTx, Statement(t)
  PROVE  OneInv'
<1>0. TxInv
  BY DEF OneInv
<1>1. OnePending'
  <2>1. log' = log
    BY <1>0, StatementDoes
  <2> QED BY <2>1 DEF OneInv, OnePending, Pending
<1>2. \A o : PendingOf(o)' = PendingOf(o)
  <2>1. log' = log
    BY <1>0, StatementDoes
  <2> QED BY <2>1 DEF PendingOf, Pending
<1>3. tx[t].op # "REJECT" /\ Closes(tx[t]) /\ Sound(tx[t])
  BY DEF OneInv, NoRejects, TxInv
<1>4. tx'[t].op # "REJECT"
  BY <1>3, <1>0, StatementDoes
<1>5. Closes(tx'[t])
  <2> SUFFICES ASSUME tx'[t].op = "EXPIRE"
               PROVE  /\ tx'[t].at = "row" => PendingOf(tx'[t].order) \subseteq {tx'[t].row}
                      /\ tx'[t].at \in {"pool", "captain", "write"}
                            => PendingOf(tx'[t].order) \subseteq DOMAIN tx'[t].logs
    BY DEF Closes
  <2>1. tx[t].op = "EXPIRE" /\ tx'[t].order = tx[t].order /\ tx'[t].row = tx[t].row
    BY <1>0, StatementDoes
  <2>2. CASE tx[t].at = "lock" /\ Lock(t)
    <3>1. Pending(tx[t].row) /\ Locked(t, "row")
      BY <2>1, <2>2 DEF Lock, Desk, Restart
    <3>2. tx'[t].at = "row"
      BY <3>1, <1>0, LockedDoes DEF Place
    <3>3. PendingOf(tx[t].order) \subseteq {tx[t].row}
      BY <1>3, <2>1, <3>1 DEF OneInv, OnePending, PendingOf, Sound, Aims
    <3> QED BY <2>1, <3>2, <3>3
  <2>3. CASE tx[t].at = "row" /\ UpdateRow(t) /\ DOMAIN tx'[t].logs = {tx[t].row}
    <3>1. tx'[t].at \in {"pool", "write"}
      BY <2>1, <2>3, <1>0, UpdateRowDoes
    <3> QED BY <1>3, <2>1, <2>3, <3>1 DEF Closes
  <2>4. CASE tx[t].at \in {"cancel", "others"}
    BY <1>3, <2>1, <2>4 DEF Sound, Placed
  <2>5. CASE tx[t].at \in {"reset", "pool", "captain"} /\ tx'[t].logs = tx[t].logs
    <3>1. tx[t].at \in {"pool", "captain"}
      BY <1>3, <2>1, <2>5 DEF Sound, Placed
    <3>2. tx'[t].at # "row"
      BY <1>0, <3>1, ReadPoolDoes, LockCaptainDoes
         DEF Statement, Lock, Locked, UpdateRow, CancelRows, Reset, At
    <3> QED BY <1>3, <2>1, <2>5, <3>1, <3>2 DEF Closes
  <2> QED BY <2>2, <2>3, <2>4, <2>5, <1>0, StatementDoes
<1>6. \A r : Closes(r) => Closes(r)'
  BY <1>2 DEF Closes
<1>7. NoRejects'
  <2> SUFFICES ASSUME NEW u \in Request, tx'[u] # NoTx
               PROVE  tx'[u].op # "REJECT" /\ Closes(tx[u])'
    BY DEF NoRejects
  <2>1. CASE u = t
    BY <1>4, <1>5, <1>6, <2>1
  <2>2. CASE u # t
    <3>1. tx'[u] = tx[u]
      BY <2>2, <1>0, StatementDoes
    <3>2. Closes(tx'[u]) /\ tx'[u].op # "REJECT"
      BY <3>1 DEF OneInv, NoRejects
    <3> QED BY <3>2, <1>6
  <2> QED BY <2>1, <2>2
<1> QED BY <1>1, <1>7 DEF OneInv

LEMMA CommitKeepsOne ==
  ASSUME OneInv, TxInv', NEW t \in Request, tx[t] # NoTx, NEW row, NEW logs, Commits(t, row, logs)
  PROVE  OneInv'
<1>1. TxInv /\ tx[t] \in TxRow /\ Sound(tx[t]) /\ Closes(tx[t]) /\ tx[t].op # "REJECT" /\ tx[t].at = "write"
  BY DEF OneInv, TxInv, NoRejects, Commits, Commit, At
\* What t has locked, it has closed.
<1>2. ASSUME Locking(tx[t])
      PROVE  PendingOf(tx[t].order) \subseteq DOMAIN tx[t].logs \/ tx[t].op \notin Keepers
  BY <1>1 DEF Sound, Settled, Closes, Keepers
<1>3. Locking(tx[t]) => PendingOf(tx[t].order) \subseteq DOMAIN tx[t].logs
  BY <1>1, <1>2 DEF Locking
<1>4. ASSUME NEW l \in LogId, NEW m \in LogId, Pending(l)', Pending(m)', log'[l].order = log'[m].order
      PROVE  l = m
  <2>1. CASE log'[l].order # tx[t].order
    <3>1. log'[l] = log[l] /\ log'[m] = log[m]
      BY <1>1, <1>4, <2>1, CommitDoes
    <3> QED BY <1>4, <3>1 DEF OneInv, OnePending, Pending
  <2>2. CASE log'[l].order = tx[t].order /\ Locking(tx[t])
    <3>1. ASSUME NEW k \in LogId, Pending(k)', log'[k].order = tx[t].order, log[k] # NoLog
          PROVE  FALSE
      <4>1. Pending(k) /\ k \notin DOMAIN tx[t].logs /\ log[k].order = tx[t].order
        BY <1>1, <3>1, CommitDoes
      <4> QED BY <1>3, <2>2, <4>1 DEF PendingOf
    <3>2. log[l] = NoLog /\ log[m] = NoLog /\ log'[l] # NoLog /\ log'[m] # NoLog
      BY <1>4, <2>2, <3>1 DEF Pending
    <3> QED BY <1>1, <3>2, CommitDoes
  <2>3. CASE ~Locking(tx[t])
    <3>1. Pending(l) /\ Pending(m)
      BY <1>1, <1>4, <2>3, CommitDoes
    <3>2. log[l].order = log[m].order
      BY <1>1, <1>4, <3>1, CommitDoes DEF Pending
    <3> QED BY <3>1, <3>2 DEF OneInv, OnePending
  <2> QED BY <2>1, <2>2, <2>3
<1>5. OnePending'
  BY <1>4 DEF OnePending
<1>6. ASSUME NEW u \in Request, tx'[u] # NoTx
      PROVE  tx'[u].op # "REJECT" /\ Closes(tx[u])'
  <2>1. u # t /\ tx'[u] = tx[u] /\ tx[u] # NoTx
    BY <1>1, <1>6, CommitDoes
  <2>2. tx[u].op # "REJECT" /\ Closes(tx[u])
    BY <2>1 DEF OneInv, NoRejects
  <2>3. CASE Locking(tx[u])
    <3>1. PendingOf(tx[u].order)' \subseteq PendingOf(tx[u].order)
      BY <1>1, <2>1, <2>3, CommitSpares
    <3> QED BY <2>1, <2>2, <3>1 DEF Closes
  <2>4. CASE ~Locking(tx[u])
    BY <2>1, <2>2, <2>4 DEF Locking, Keepers, Closes
  <2> QED BY <2>3, <2>4
<1> QED BY <1>5, <1>6 DEF OneInv, NoRejects

LEMMA OneStep ==
  ASSUME "REJECT" \notin Ops, OneInv, [Next]_vars
  PROVE  OneInv'
<1>1. TxInv /\ TxInv'
  BY TxStep DEF OneInv
<1>2. CASE /\ UNCHANGED <<order, log>>
           /\ \A u \in Request : tx'[u] \in {NoTx, tx[u]} \/ Fresh(tx'[u])
  <2>1. \A r : Closes(r) => Closes(r)'
    BY <1>2 DEF Closes, PendingOf, Pending
  <2>2. ASSUME NEW u \in Request, tx'[u] # NoTx
        PROVE  tx'[u].op # "REJECT" /\ Closes(tx[u])'
    <3>1. tx'[u].op # "REJECT" /\ Closes(tx'[u])
      BY <1>2, <2>2 DEF OneInv, NoRejects, Fresh, Closes, Keepers
    <3> QED BY <2>1, <3>1
  <2>3. OnePending'
    BY <1>2 DEF OneInv, OnePending, Pending
  <2> QED BY <1>1, <2>2, <2>3 DEF OneInv, NoRejects
<1> QED BY <1>1, <1>2, NextCases, StatementKeepsOne, CommitKeepsOne

LEMMA OneInvAlways ==
  ASSUME "REJECT" \notin Ops
  PROVE  Spec => []OneInv
<1>1. Init => OneInv
  BY TxInit DEF Init, OneInv, NoRejects, OnePending, Pending
<1>2. OneInv /\ [Next]_vars => OneInv'
  BY OneStep
<1> QED BY <1>1, <1>2, PTL DEF Spec

\* As long as captains' rejects do not run beside it, an order has one open row at most: the
\* desk, the tick, accepts and deliveries keep it, for any number of requests.
THEOREM OneRowWithoutRejects ==
  ASSUME "REJECT" \notin Ops
  PROVE  Spec => []OnePending
<1>1. OneInv => OnePending
  BY DEF OneInv
<1> QED BY <1>1, OneInvAlways, PTL

-----------------------------------------------------------------------------
(* Answers, as long as captains do not answer. *)

LEMMA StatementKeepsFinal ==
  ASSUME FinalInv, TxInv', NEW t \in Request, tx[t] # NoTx, Statement(t)
  PROVE  FinalInv'
<1>0. TxInv /\ Sound(tx[t]) /\ Opens(tx[t]) /\ log' = log
  <2>1. TxInv /\ Sound(tx[t]) /\ Opens(tx[t])
    BY DEF FinalInv, TxInv
  <2> QED BY <2>1, StatementDoes
<1>1. tx'[t].op = tx[t].op /\ tx'[t].row = tx[t].row
  BY <1>0, StatementDoes
<1>2. \A l \in DOMAIN tx'[t].logs : Pending(l)
  <2>1. CASE tx[t].at = "row" /\ UpdateRow(t) /\ DOMAIN tx'[t].logs = {tx[t].row}
    <3>1. tx[t].op = "EXPIRE"
      BY <1>0, <2>1, UpdateRowDoes DEF Opens, Keepers, Desk, Restart
    <3> QED BY <1>0, <2>1, <3>1 DEF Opens
  <2>2. CASE DOMAIN tx'[t].logs = DOMAIN tx[t].logs \cup PendingOf(tx[t].order)
    BY <1>0, <2>2 DEF Opens, PendingOf
  <2>3. CASE tx'[t].logs = tx[t].logs
    BY <1>0, <2>3 DEF Opens
  <2> QED BY <1>0, <2>1, <2>2, <2>3, StatementDoes
<1>3. tx[t].op = "EXPIRE" /\ tx'[t].at = "row" => Pending(tx[t].row)
  <2> SUFFICES ASSUME tx[t].op = "EXPIRE", tx'[t].at = "row" PROVE Pending(tx[t].row)
    OBVIOUS
  <2>1. CASE Lock(t)
    BY <2>1 DEF Lock, Desk, Restart
  <2>2. CASE tx[t].at = "row"
    BY <1>0, <2>2 DEF Opens
  <2>3. CASE tx[t].at \in {"cancel", "others", "reset"}
    BY <1>0, <2>3 DEF Sound, Placed
  <2>4. CASE tx[t].at \in {"pool", "captain"}
    BY <1>0, <2>4, ReadPoolDoes, LockCaptainDoes
       DEF Statement, Lock, Locked, UpdateRow, CancelRows, Reset, At
  <2> QED BY <1>0, <2>1, <2>2, <2>3, <2>4, StatementDoes
<1>4. Opens(tx'[t])
  BY <1>0, <1>1, <1>2, <1>3 DEF Opens
<1>5. \A r : Opens(r) => Opens(r)'
  BY <1>0 DEF Opens, Pending
<1>6. ASSUME NEW u \in Request, tx'[u] # NoTx
      PROVE  Opens(tx[u])'
  <2>1. Opens(tx'[u])
    <3>1. u # t => tx'[u] = tx[u]
      BY <1>0, StatementDoes
    <3> QED BY <1>4, <1>6, <3>1 DEF FinalInv
  <2> QED BY <1>5, <2>1
<1> QED BY <1>6 DEF FinalInv

LEMMA CommitKeepsFinal ==
  ASSUME FinalInv, TxInv', NEW t \in Request, tx[t] # NoTx, NEW row, NEW logs, Commits(t, row, logs)
  PROVE  FinalInv'
<1>1. ASSUME NEW u \in Request, tx'[u] # NoTx
      PROVE  Opens(tx[u])'
  <2>1. TxInv
    BY DEF FinalInv
  <2>2. u # t /\ tx'[u] = tx[u] /\ tx[u] # NoTx /\ tx[u] \in TxRow /\ Sound(tx[u]) /\ Opens(tx[u])
        /\ tx[t].at = "write" /\ tx[t] \in TxRow /\ Sound(tx[t]) /\ Opens(tx[t])
    <3>1. u # t /\ tx'[u] = tx[u] /\ tx[t].at = "write"
      BY <1>1, <2>1, CommitDoes DEF Commits, Commit, At
    <3> QED BY <1>1, <2>1, <3>1 DEF FinalInv, TxInv, Sound
  <2>3. tx[u].op # "ACCEPT" /\ tx[t].op # "ACCEPT" /\ tx[u].op # "REJECT" /\ tx[t].op # "REJECT"
    BY <2>2 DEF Opens, Keepers, Desk, Restart
  \* A row u wants is one of its order, which t has not locked.
  <2>4. ASSUME NEW l \in LogId, Pending(l), log[l].order = tx[u].order, Locking(tx[u])
        PROVE  Pending(l)'
    <3>1. CASE Locking(tx[t])
      <4>1. tx[u].order # tx[t].order
        BY <2>1, <2>2, <2>4, <3>1, LockIsExclusive
      <4>2. l \notin DOMAIN tx[t].logs
        BY <2>2, <2>4, <4>1 DEF Sound, Writes
      <4> QED BY <2>1, <2>4, <4>2, CommitDoes DEF Pending
    <3>2. CASE ~Locking(tx[t])
      <4>1. tx[t].op = "STATUS"
        BY <2>2, <2>3, <3>2 DEF Locking, Opens
      <4>2. DOMAIN tx[t].logs = {}
        BY <2>2, <4>1 DEF Sound, Writes
      <4> QED BY <2>1, <2>4, <4>2, CommitDoes DEF Pending
    <3> QED BY <3>1, <3>2
  <2>5. tx[u].op = "EXPIRE" /\ tx[u].at = "row" => Pending(tx[u].row)'
    BY <2>2, <2>4 DEF Opens, Sound, Aims, Locking, Keepers
  <2>6. ASSUME NEW l \in DOMAIN tx[u].logs
        PROVE  Pending(l)'
    <3>1. l \in LogId /\ Pending(l) /\ log[l].order = tx[u].order
      BY <2>2, LogPartOut DEF Opens, Sound, Writes, TxRow
    <3>2. Locking(tx[u])
      <4>1. CASE tx[u].op \in Keepers
        BY <2>2, <4>1 DEF Sound, Writes, Locking
      <4>2. CASE tx[u].op = "STATUS"
        BY <2>2, <4>2 DEF Sound, Writes
      <4> QED BY <2>2, <4>1, <4>2 DEF Opens
    <3> QED BY <2>4, <3>1, <3>2
  <2> QED BY <2>2, <2>5, <2>6 DEF Opens
<1> QED BY <1>1 DEF FinalInv

LEMMA FinalStep ==
  ASSUME Ops \cap {"ACCEPT", "REJECT"} = {}, FinalInv, [Next]_vars
  PROVE  FinalInv'
<1>1. TxInv /\ TxInv'
  BY TxStep DEF FinalInv
<1>2. CASE /\ UNCHANGED <<order, log>>
           /\ \A u \in Request : tx'[u] \in {NoTx, tx[u]} \/ Fresh(tx'[u])
  <2>1. \A r : Opens(r) => Opens(r)'
    BY <1>2 DEF Opens, Pending
  <2>2. ASSUME NEW u \in Request, tx'[u] # NoTx
        PROVE  Opens(tx[u])'
    <3>1. CASE tx'[u] = tx[u]
      BY <2>1, <2>2, <3>1 DEF FinalInv
    <3>2. CASE Fresh(tx'[u])
      <4>1. Opens(tx'[u])
        BY <3>2 DEF Opens, Fresh, Handler, Keepers
      <4> QED BY <2>1, <4>1
    <3> QED BY <1>2, <2>2, <3>1, <3>2
  <2> QED BY <1>1, <2>2 DEF FinalInv
<1> QED BY <1>1, <1>2, NextCases, StatementKeepsFinal, CommitKeepsFinal

LEMMA FinalInvAlways ==
  ASSUME Ops \cap {"ACCEPT", "REJECT"} = {}
  PROVE  Spec => []FinalInv
<1>1. Init => FinalInv
  BY TxInit DEF Init, FinalInv
<1>2. FinalInv /\ [Next]_vars => FinalInv'
  BY FinalStep
<1> QED BY <1>1, <1>2, PTL DEF Spec

\* Among the handlers that lock the order first, and deliveries, a row is closed once.
THEOREM ClosedOnce ==
  ASSUME Ops \cap {"ACCEPT", "REJECT"} = {}
  PROVE  Spec => AnswerFinal
<1> DEFINE Final == \A l \in LogId : log[l] # NoLog /\ ~Pending(l) => log'[l] = log[l]
<1>1. FinalInv /\ [Next]_vars => [Final]_vars
  <2> SUFFICES ASSUME FinalInv, [Next]_vars, NEW l \in LogId, log[l] # NoLog, ~Pending(l)
               PROVE  log'[l] = log[l]
    OBVIOUS
  <2>1. TxInv
    BY DEF FinalInv
  <2>2. ASSUME NEW t \in Request, NEW row, NEW logs, tx[t] # NoTx, Commits(t, row, logs)
        PROVE  log'[l] = log[l]
    <3>1. l \notin DOMAIN tx[t].logs
      BY <2>2 DEF FinalInv, Opens
    <3> QED BY <2>1, <2>2, <3>1, CommitDoes
  <2>3. ASSUME NEW t \in Request, tx[t] # NoTx, Statement(t)
        PROVE  log'[l] = log[l]
    BY <2>1, <2>3, StatementDoes
  <2> QED BY <2>1, <2>2, <2>3, NextCases
<1> QED BY <1>1, FinalInvAlways, PTL DEF Spec, AnswerFinal

-----------------------------------------------------------------------------
(* Waiting, as long as rejects do not run. *)

\* Whoever has an order's lock, or has written a row or the order, is past its first statement.
LEMMA WaitRises ==
  ASSUME OneInv, NEW t \in Request, NEW u \in Request, WaitsFor(t, u)
  PROVE  Level(t) < Level(u) \/ BothTryCaptains(t, u)
<1>1. /\ tx[t] # NoTx /\ tx[t] \in TxRow /\ Sound(tx[t]) /\ tx[t].op # "REJECT"
      /\ tx[u] # NoTx /\ tx[u] \in TxRow /\ Sound(tx[u]) /\ tx[u].op # "REJECT" /\ t # u /\ TxInv
  BY DEF WaitsFor, Holding, WritingLog, WritingOrder, Others, OneInv, TxInv, NoRejects
<1>2. CASE At(t, "lock") /\ u \in Holding(t, tx[t].order)
  <2>1. tx[u].holds # {}
    BY <1>2 DEF Holding
  <2>2. tx[u].at # "lock" /\ Locking(tx[u])
    BY <1>1, <2>1 DEF Sound, HoldsLocks, Locking
  <2>3. tx[u].at \in {"row", "cancel", "reset", "pool", "captain", "write"}
    BY <1>1, <2>2 DEF Sound, Placed, Locking, Keepers, Desk, Restart
  <2> QED BY <1>2, <2>2, <2>3 DEF Level, At
\* A transaction that has written a log row.
<1>3. ASSUME DOMAIN tx[u].logs # {}
      PROVE  Level(u) \in {2, 3, 4, 5, 6, 7}
  <2>1. tx[u].at \in {"others", "reset", "pool", "captain", "write"}
    BY <1>1, <1>3 DEF Sound, Writes, Placed, TxRow, Place, Handler, Keepers, Desk, Restart
  <2> QED BY <2>1 DEF Level
<1>4. CASE At(t, "row") /\ u \in WritingLog(t, tx[t].row)
  <2>1. DOMAIN tx[u].logs # {}
    BY <1>4 DEF WritingLog
  <2>2. Level(t) = 1
    BY <1>4 DEF Level, At
  <2> QED BY <1>3, <2>1, <2>2
<1>5. ASSUME NEW l \in PendingOf(tx[t].order) \ DOMAIN tx[t].logs,
             At(t, "cancel"), u \in WritingLog(t, l)
      PROVE  Level(t) < Level(u)
  <2>1. DOMAIN tx[u].logs # {}
    BY <1>5 DEF WritingLog
  <2>2. Level(t) = 1
    BY <1>5 DEF Level, At
  <2> QED BY <1>3, <2>1, <2>2
<1>6. ASSUME NEW l \in PendingOf(tx[t].order) \ DOMAIN tx[t].logs,
             At(t, "others"), u \in WritingLog(t, l)
      PROVE  Level(t) < Level(u)
  <2>1. tx[t].op = "ACCEPT" /\ tx[t].row \in DOMAIN tx[t].logs /\ tx[t].row \in LogId
        /\ log[tx[t].row].order = tx[t].order
    BY <1>1, <1>6 DEF At, Sound, Placed, Writes, Aims, TxRow, Handler, Keepers, Desk, Restart
  \* The row t answers is closed already: else l would be that row.
  <2>2. ~Pending(tx[t].row)
    BY <1>6, <2>1 DEF OneInv, OnePending, PendingOf
  <2>3. Level(t) = 2
    BY <1>6, <2>2 DEF Level, At
  <2>4. l \in DOMAIN tx[u].logs /\ Pending(l)
    BY <1>6 DEF WritingLog, PendingOf
  <2>5. tx[u].at # "others" \/ Pending(tx[u].row)
    BY <1>1, <2>4 DEF Sound, Placed, Writes, TxRow, Handler, Keepers, Desk, Restart
  <2>6. Level(u) \in {3, 4, 5, 6, 7}
    <3>1. tx[u].at \in {"others", "reset", "pool", "captain", "write"}
      BY <1>1, <2>4 DEF Sound, Writes, Placed, TxRow, Place, Handler, Keepers, Desk, Restart
    <3> QED BY <2>5, <3>1 DEF Level
  <2> QED BY <2>3, <2>6
<1>7. CASE At(t, "captain") /\ \E c \in tx[t].pool : u \in Holding(t, c)
  <2>1. PICK c \in Captain : c \in tx[u].holds
    BY <1>1, <1>7 DEF Holding, TxRow
  <2>2. tx[u].at \in {"captain", "write"} /\ Locking(tx[u])
    BY <1>1, <2>1 DEF Sound, HoldsLocks
  <2>3. CASE tx[u].at = "write"
    BY <1>7, <2>2, <2>3 DEF Level, At
  <2>4. CASE tx[u].at = "captain"
    <3>1. Locking(tx[t])
      BY <1>1, <1>7 DEF At, Sound, Placed, Locking, TxRow, Handler
    <3>2. tx[t].order # tx[u].order
      BY <1>1, <2>2, <3>1, LockIsExclusive
    <3> QED BY <1>1, <1>7, <2>4, <3>2 DEF BothTryCaptains, At
  <2> QED BY <2>2, <2>3, <2>4
<1>8. CASE (At(t, "reset") \/ At(t, "write")) /\ u \in WritingOrder(t)
  <2>1. tx[u].order = tx[t].order /\ tx[u].op \in Restart /\ tx[u].at \in {"pool", "captain", "write"}
    BY <1>1, <1>8 DEF WritingOrder, Sound, Writes
  <2>2. Locking(tx[u])
    BY <2>1 DEF Locking, Keepers, Desk
  <2>3. ~Locking(tx[t])
    BY <1>1, <2>1, <2>2, LockIsExclusive
  <2>4. At(t, "write")
    BY <1>1, <1>8, <2>3 DEF At, Sound, Placed, Locking, TxRow, Handler
  <2>5. Level(t) = 4
    BY <2>3, <2>4 DEF Level, At
  <2>6. Level(u) \in {5, 6, 7}
    BY <2>1, <2>2 DEF Level
  <2> QED BY <2>5, <2>6
<1> QED BY <1>2, <1>4, <1>5, <1>6, <1>7, <1>8 DEF WaitsFor

\* Without rejects every wait, for a lock or a row, is for a transaction that is further on, so that
\* no circle of any number of transactions waits for itself; unless two chains of different orders
\* try captains: each keeps the locks of those it has tried (offerNextAutoCaptainTx).
THEOREM WaitsGoUp ==
  ASSUME "REJECT" \notin Ops
  PROVE  Spec => []WaitsRise
<1>1. OneInv => WaitsRise
  BY WaitRises DEF WaitsRise
<1> QED BY <1>1, OneInvAlways, PTL

\* Without rejects, no two transactions on one order wait for each other.
THEOREM NoMutualWait ==
  ASSUME "REJECT" \notin Ops, \A o, p \in Order : o = p
  PROVE  Spec => []NoDeadlock
<1>1. OneInv => NoDeadlock
  <2> SUFFICES ASSUME OneInv, NEW t \in Request, NEW u \in Request, WaitsFor(t, u), WaitsFor(u, t)
               PROVE  FALSE
    BY DEF NoDeadlock
  <2>1. tx[t] # NoTx /\ tx[u] # NoTx
    BY DEF WaitsFor
  <2>2. tx[t].order = tx[u].order
    BY <2>1 DEF OneInv, TxInv, TxRow
  <2>3. Level(t) \in Int /\ Level(u) \in Int
    <3>1. \A v \in Request : tx[v] # NoTx => Level(v) \in Int
      <4> SUFFICES ASSUME NEW v \in Request, tx[v] # NoTx PROVE Level(v) \in Int
        OBVIOUS
      <4>1. tx[v].at \in Place
        BY DEF OneInv, TxInv, TxRow
      <4> QED BY <4>1 DEF Level, Place
    <3> QED BY <2>1, <3>1
  <2>4. Level(t) < Level(u) /\ Level(u) < Level(t)
    BY <2>2, WaitRises DEF BothTryCaptains
  <2> QED BY <2>3, <2>4
<1> QED BY <1>1, OneInvAlways, PTL

-----------------------------------------------------------------------------
(* One automatic order per captain, for any number of orders, as long as captains neither *)
(* accept nor move an order on: both write an order from what was read outside of any      *)
(* lock.  The pool is read before the captain is locked, and may be out of date; what     *)
(* makes the rule true is the second look at him under his lock.                          *)

Chain == Restart \cup {"EXPIRE", "REJECT"}

\* The captain of this row works on it and got it from the chain.
HeldAuto(row, c) == row.captain = c /\ row.status \in Working /\ row.by = "AUTO"

\* A chain that has picked a captain keeps his lock, and he has no other order from a chain.
Reserves(r) ==
    r.op \in Chain /\ r.captain # NoCaptain =>
      /\ r.at = "write" /\ r.captain \in r.holds
      /\ \A p \in Order : HeldAuto(order[p], r.captain) => p = r.order

SingleAuto ==
    \A c \in Captain : \A o, p \in Order : HeldAuto(order[o], c) /\ HeldAuto(order[p], c) => o = p

AutoInv ==
    /\ TxInv /\ SingleAuto
    /\ \A t \in Request : tx[t] # NoTx => tx[t].op \notin {"ACCEPT", "STATUS"} /\ Reserves(tx[t])

\* A captain found free under his lock has no other order.
LEMMA PickReserves ==
  ASSUME AutoInv, NEW t \in Request, tx[t] # NoTx, NEW c \in Captain, LockCaptain(t, c)
  PROVE  Reserves(tx'[t])
<1>1. /\ TxInv /\ tx[t] \in TxRow /\ Sound(tx[t])
      /\ tx'[t].order = tx[t].order /\ tx'[t].holds = tx[t].holds \cup {c}
      /\ tx'[t].captain = IF Busy(c, Orders(t)) THEN NoCaptain ELSE c
      /\ ~Busy(c, Orders(t)) => tx'[t].at = "write"
  BY LockCaptainDoes DEF AutoInv
<1>2. CASE Busy(c, Orders(t))
  BY <1>1, <1>2 DEF Reserves
<1>3. CASE ~Busy(c, Orders(t))
  <2>1. ASSUME NEW p \in Order, HeldAuto(order[p], c)
        PROVE  p = tx[t].order
    <3>1. DOMAIN Orders(t) = Order /\ (p \notin DOMAIN tx[t].orders => Orders(t)[p] = order[p])
      BY <1>1 DEF Orders, Over, TxInv, RowsOK
    <3>2. DOMAIN tx[t].orders \subseteq {tx[t].order}
      BY <1>1 DEF Sound, Writes
    <3> QED BY <1>3, <2>1, <3>1, <3>2 DEF Busy, HeldAuto
  <2> QED BY <1>1, <1>3, <2>1 DEF Reserves
<1> QED BY <1>2, <1>3

LEMMA StatementKeepsAuto ==
  ASSUME AutoInv, TxInv', NEW t \in Request, tx[t] # NoTx, Statement(t)
  PROVE  AutoInv'
<1>1. /\ TxInv /\ Sound(tx[t]) /\ UNCHANGED order /\ tx'[t].op = tx[t].op /\ tx[t].op \notin {"ACCEPT", "STATUS"}
      /\ \A u \in Request \ {t} : tx'[u] = tx[u]
  BY StatementDoes DEF AutoInv, TxInv
<1>2. \A r : Reserves(r)' <=> Reserves(r)
  BY <1>1 DEF Reserves, HeldAuto
<1>3. Reserves(tx'[t])
  <2>1. CASE \E c \in Captain : LockCaptain(t, c)
    BY <2>1, PickReserves
  <2>2. CASE ~\E c \in Captain : LockCaptain(t, c)
    <3>1. tx'[t].captain = tx[t].captain /\ tx[t].at # "write"
      <4>1. CASE Lock(t)
        <5>1. PICK place \in {"cancel", "row", "pool", "write"} : Locked(t, place)
          BY <4>1 DEF Lock
        <5> QED BY <1>1, <5>1, LockedDoes DEF Place
      <4>2. CASE UpdateRow(t)
        BY <1>1, <4>2, UpdateRowDoes
      <4>3. CASE CancelRows(t)
        BY <1>1, <4>3, CancelRowsDoes
      <4>4. CASE Reset(t)
        BY <1>1, <4>4, ResetDoes
      <4>5. CASE ReadPool(t)
        BY <1>1, <4>5, ReadPoolDoes
      <4> QED BY <2>2, <4>1, <4>2, <4>3, <4>4, <4>5 DEF Statement
    <3> QED BY <1>1, <3>1 DEF AutoInv, Reserves
  <2> QED BY <2>1, <2>2
<1>4. ASSUME NEW u \in Request, tx'[u] # NoTx
      PROVE  tx'[u].op \notin {"ACCEPT", "STATUS"} /\ Reserves(tx'[u])
  BY <1>1, <1>3, <1>4 DEF AutoInv
<1>5. ASSUME NEW u \in Request, tx'[u] # NoTx
      PROVE  (tx[u].op \notin {"ACCEPT", "STATUS"} /\ Reserves(tx[u]))'
  <2>1. PICK r : r = tx'[u]
    OBVIOUS
  <2>2. r.op \notin {"ACCEPT", "STATUS"} /\ Reserves(r)
    BY <1>4, <1>5, <2>1
  <2>3. Reserves(r)'
    BY <1>2, <2>2
  <2> QED BY <2>1, <2>2, <2>3 DEF Reserves
<1>6. SingleAuto'
  BY <1>1 DEF AutoInv, SingleAuto, HeldAuto
<1> QED BY <1>5, <1>6 DEF AutoInv

\* What a commit writes of the order: it gives it to a captain automatically only if it is a
\* chain that has picked him.
LEMMA FinishGives ==
  ASSUME AutoInv, NEW t \in Request, tx[t] # NoTx, Finish(t)
  PROVE  /\ \A p \in Order : p # tx[t].order => order'[p] = order[p]
         /\ \A c \in Captain : HeldAuto(order'[tx[t].order], c) => tx[t].op \in Chain /\ tx[t].captain = c
         /\ tx'[t] = NoTx /\ \A u \in Request \ {t} : tx'[u] = tx[u]
<1>1. /\ TxInv /\ tx[t] \in TxRow /\ Sound(tx[t]) /\ tx[t].op \notin {"ACCEPT", "STATUS"}
      /\ Seen(t) \in TxOrderRow
  BY SeenTyped DEF AutoInv, TxInv, Sound
<1>2. PICK row : /\ \E logs : Commit(t, row, logs)
                 /\ \A c \in Captain : HeldAuto(row, c) => tx[t].op \in Chain /\ tx[t].captain = c
  <2>1. CASE CommitOffer(t)
    <3> DEFINE k == CASE tx[t].op = "ASSIGN" -> "MANUAL" [] tx[t].op = "REASSIGN" -> "REASSIGN" [] OTHER -> "AUTO"
               kept == [Seen(t) EXCEPT !.mode = IF k = "MANUAL" THEN "MANUAL" ELSE @]
               row == AssignedTo(kept, tx[t].captain, k)
    <3>1. tx[t].captain # NoCaptain /\ \E logs : Commit(t, row, logs)
      BY <2>1 DEF CommitOffer
    <3>2. tx[t].op \in {"ASSIGN", "REASSIGN"} \cup Chain
      BY <1>1, <3>1 DEF Sound, Aims, TxRow, Handler, Keepers, Desk, Chain
    <3>3. row.captain = tx[t].captain /\ row.by = k
      <4> HIDE DEF k
      <4> QED BY <1>1 DEF AssignedTo, TxOrderRow
    <3> HIDE DEF row
    <3>4. row.by = "AUTO" => tx[t].op \in Chain
      BY <3>2, <3>3
    <3> QED BY <3>1, <3>3, <3>4 DEF HeldAuto
  <2>2. CASE CommitRelease(t)
    <3>1. Released(Seen(t)).captain = NoCaptain
      BY <1>1 DEF Released, Detached, TxOrderRow
    <3> QED BY <2>2, <3>1, CaptainAssumption DEF CommitRelease, HeldAuto
  <2>3. CASE CommitAccept(t)
    BY <1>1, <2>3 DEF CommitAccept
  <2>4. CASE CommitStatus(t)
    <3> DEFINE s == tx[t].status
    <3>1. CASE s = "DELIVERED" /\ Commit(t, [Seen(t) EXCEPT !.status = s], tx[t].logs)
      <4>1. [Seen(t) EXCEPT !.status = s].status = "DELIVERED"
        BY <1>1, <3>1 DEF TxOrderRow
      <4> QED BY <3>1, <4>1 DEF HeldAuto, Working
    <3>2. CASE Commit(t, [Detached(Seen(t), s) EXCEPT !.mode = IF s = "PENDING" THEN "AUTO" ELSE @], tx[t].logs)
      <4>1. [Detached(Seen(t), s) EXCEPT !.mode = IF s = "PENDING" THEN "AUTO" ELSE @].captain = NoCaptain
        BY <1>1 DEF Detached, TxOrderRow
      <4>2. \E row : Commit(t, row, tx[t].logs) /\ row.captain = NoCaptain
        BY <3>2, <4>1
      <4> QED BY <4>2, CaptainAssumption DEF HeldAuto
    <3>3. CASE Commit(t, Detached(Seen(t), "CONFIRMED"), tx[t].logs)
      <4>1. Detached(Seen(t), "CONFIRMED").captain = NoCaptain
        BY <1>1 DEF Detached, TxOrderRow
      <4> QED BY <3>3, <4>1, CaptainAssumption DEF HeldAuto
    <3> QED BY <1>1, <2>4, <3>1, <3>2, <3>3 DEF CommitStatus
  <2> QED BY <2>1, <2>2, <2>3, <2>4 DEF Finish
<1>3. order' = [order EXCEPT ![tx[t].order] = row] /\ tx' = [tx EXCEPT ![t] = NoTx]
  BY <1>2 DEF Commit
<1>4. order'[tx[t].order] = row /\ \A p \in Order : p # tx[t].order => order'[p] = order[p]
  BY <1>1, <1>3 DEF TxInv, RowsOK, TxRow
<1>5. tx'[t] = NoTx /\ \A u \in Request \ {t} : tx'[u] = tx[u]
  BY <1>1, <1>3 DEF TxInv
<1> QED BY <1>2, <1>4, <1>5

LEMMA FinishKeepsAuto ==
  ASSUME AutoInv, TxInv', NEW t \in Request, tx[t] # NoTx, Finish(t)
  PROVE  AutoInv'
<1>1. /\ TxInv /\ Reserves(tx[t]) /\ tx[t] \in TxRow
      /\ \A p \in Order : p # tx[t].order => order'[p] = order[p]
      /\ \A c \in Captain : HeldAuto(order'[tx[t].order], c) => tx[t].op \in Chain /\ tx[t].captain = c
      /\ tx'[t] = NoTx /\ \A u \in Request \ {t} : tx'[u] = tx[u]
  BY FinishGives DEF AutoInv, TxInv, Sound
<1>2. ASSUME NEW c \in Captain, NEW o \in Order, NEW p \in Order,
             HeldAuto(order'[o], c), HeldAuto(order'[p], c), o # p
      PROVE  FALSE
  <2>1. CASE o = tx[t].order
    <3>1. tx[t].op \in Chain /\ tx[t].captain = c /\ HeldAuto(order[p], c)
      BY <1>1, <1>2, <2>1
    <3> QED BY <1>1, <1>2, <2>1, <3>1, CaptainAssumption DEF Reserves
  <2>2. CASE p = tx[t].order
    <3>1. tx[t].op \in Chain /\ tx[t].captain = c /\ HeldAuto(order[o], c)
      BY <1>1, <1>2, <2>2
    <3> QED BY <1>1, <1>2, <2>2, <3>1, CaptainAssumption DEF Reserves
  <2>3. CASE o # tx[t].order /\ p # tx[t].order
    BY <1>1, <1>2, <2>3 DEF AutoInv, SingleAuto
  <2> QED BY <2>1, <2>2, <2>3
<1>3. SingleAuto'
  BY <1>2 DEF SingleAuto, HeldAuto
<1>4. ASSUME NEW u \in Request, tx'[u] # NoTx
      PROVE  (tx[u].op \notin {"ACCEPT", "STATUS"} /\ Reserves(tx[u]))'
  <2>1. u # t /\ tx'[u] = tx[u] /\ tx[u] # NoTx /\ tx[u] \in TxRow
    BY <1>1, <1>4 DEF TxInv, Sound
  <2>2. tx[u].op \notin {"ACCEPT", "STATUS"} /\ Reserves(tx[u])
    BY <2>1 DEF AutoInv
  <2>3. ASSUME tx[u].op \in Chain, tx[u].captain # NoCaptain, NEW p \in Order,
               HeldAuto(order'[p], tx[u].captain)
        PROVE  p = tx[u].order
    <3>1. tx[u].captain \in Captain /\ tx[u].captain \in tx[u].holds
      BY <2>1, <2>2, <2>3 DEF Reserves, TxRow
    <3>2. CASE p = tx[t].order
      <4>1. tx[t].op \in Chain /\ tx[t].captain = tx[u].captain
        BY <1>1, <2>3, <3>1, <3>2
      <4>2. tx[t].captain \in tx[t].holds
        BY <1>1, <2>3, <4>1 DEF Reserves
      <4> QED BY <1>1, <2>1, <3>1, <4>1, <4>2 DEF TxInv, Exclusion
    <3>3. CASE p # tx[t].order
      BY <1>1, <2>2, <2>3, <3>3 DEF Reserves
    <3> QED BY <3>2, <3>3
  <2> QED BY <2>1, <2>2, <2>3 DEF Reserves, HeldAuto
<1> QED BY <1>3, <1>4 DEF AutoInv

LEMMA AutoStep ==
  ASSUME {"ACCEPT", "STATUS"} \cap Ops = {}, AutoInv, [Next]_vars
  PROVE  AutoInv'
<1>1. TxInv /\ TxInv'
  BY TxStep DEF AutoInv
<1>2. CASE /\ UNCHANGED order
           /\ \A u \in Request : tx'[u] \in {NoTx, tx[u]} \/ Fresh(tx'[u])
  <2>1. \A r : Reserves(r)' <=> Reserves(r)
    BY <1>2 DEF Reserves, HeldAuto
  <2>2. ASSUME NEW u \in Request, tx'[u] # NoTx
        PROVE  (tx[u].op \notin {"ACCEPT", "STATUS"} /\ Reserves(tx[u]))'
    <3>1. PICK r : r = tx'[u]
      OBVIOUS
    <3>2. r.op \notin {"ACCEPT", "STATUS"} /\ Reserves(r)
      <4>1. CASE r = tx[u]
        BY <2>2, <3>1, <4>1 DEF AutoInv
      <4>2. CASE Fresh(r)
        BY <4>2 DEF Fresh, Reserves, Chain, Restart
      <4> QED BY <1>2, <2>2, <3>1, <4>1, <4>2
    <3>3. Reserves(r)'
      BY <2>1, <3>2
    <3> QED BY <3>1, <3>2, <3>3 DEF Reserves
  <2>3. SingleAuto'
    BY <1>2 DEF AutoInv, SingleAuto, HeldAuto
  <2> QED BY <1>1, <2>2, <2>3 DEF AutoInv
<1> QED BY <1>1, <1>2, NextSteps, StatementKeepsAuto, FinishKeepsAuto

\* "Automatic distribution is single-order-only", statement by statement and for any number of
\* orders, captains and requests: of the orders a captain works on at most one came from the
\* chain, whatever the desk, the tick and rejects do at the same time.
THEOREM ChainGivesOneOrder ==
  ASSUME {"ACCEPT", "STATUS"} \cap Ops = {}
  PROVE  Spec => []Atomic!SingleAutoOrder
<1>1. Init => AutoInv
  <2> SUFFICES ASSUME Init PROVE AutoInv
    OBVIOUS
  <2>1. \A o \in Order : order[o].captain = NoCaptain
    BY DEF Init
  <2>2. SingleAuto
    BY <2>1, CaptainAssumption DEF SingleAuto, HeldAuto
  <2> QED BY <2>2, TxInit DEF Init, AutoInv
<1>2. AutoInv /\ [Next]_vars => AutoInv'
  BY AutoStep
<1>3. AutoInv => Atomic!SingleAutoOrder
  <2> SUFFICES ASSUME AutoInv, NEW o \in Order, NEW p \in Order,
                      AtomicOrder[o].captain # NoCaptain, AtomicOrder[o].captain = AtomicOrder[p].captain,
                      {AtomicOrder[o].status, AtomicOrder[p].status} \subseteq Working,
                      AtomicOrder[o].by = "AUTO", AtomicOrder[p].by = "AUTO"
               PROVE  o = p
    BY DEF Atomic!SingleAutoOrder, Atomic!Working, Working
  <2>1. /\ AtomicOrder[o].captain = order[o].captain /\ AtomicOrder[o].status = order[o].status
        /\ AtomicOrder[o].by = order[o].by
        /\ AtomicOrder[p].captain = order[p].captain /\ AtomicOrder[p].status = order[p].status
        /\ AtomicOrder[p].by = order[p].by
    BY DEF AtomicOrder, AtomicRow
  <2>2. order[o].captain \in Captain
    BY <2>1 DEF AutoInv, TxInv, RowsOK, TxOrderRow
  <2>3. HeldAuto(order[o], order[o].captain) /\ HeldAuto(order[p], order[o].captain)
    BY <2>1 DEF HeldAuto
  <2> QED BY <2>2, <2>3 DEF AutoInv, SingleAuto
<1> QED BY <1>1, <1>2, <1>3, PTL DEF Spec
=============================================================================
