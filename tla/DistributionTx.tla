--------------------------- MODULE DistributionTx ---------------------------
(***************************************************************************)
(* The handlers of Distribution as READ COMMITTED transactions on Postgres: *)
(* which statements they run, which locks they hold and what they read      *)
(* before they write.  The desk and the tick hold the order's advisory lock *)
(* from the start; accept takes no lock and reject takes it only after it   *)
(* has closed its log row.                                                  *)
(*                                                                         *)
(* A statement reads the committed rows and the transaction's own writes.  *)
(* An update waits for the transaction that wrote the row before it and     *)
(* then applies to the newest version.  A step here is some updates or      *)
(* locks followed by at most one read, or by the commit: no other           *)
(* transaction can tell it from its statements one by one.                  *)
(***************************************************************************)
EXTENDS DispatchRules

CONSTANTS
    NoLog,      \* the log id holds no row
    NoTx,       \* the request is not in a transaction
    Request,    \* what runs at the same time: HTTP requests, ticks
    Ops         \* the handlers that run

VARIABLES
    order,      \* the committed order rows
    log,        \* log[l]: the committed assignment row with id l, or NoLog
    due,        \* the rows whose 30 seconds are over
    tx          \* tx[t]: the transaction of request t, or NoTx

vars == <<order, log, due, tx>>

ASSUME KeysAssumption == Order \cap Captain = {}    \* the keys of their locks differ

Response == {"PENDING", "ACCEPTED", "REJECTED", "EXPIRED", "CANCELLED"}

LogRow == [order : Order, captain : Captain, kind : Kind, response : Response]

ASSUME NoLogAssumption == NoLog \notin LogRow

\* before stands for lastDistributionResetAt: the rows made before the last reset.
TxOrderRow == [status : OrderStatus, captain : Captain \cup {NoCaptain}, mode : {"AUTO", "MANUAL"},
               archived : BOOLEAN, by : Kind, before : SUBSET LogId]

Ready == [c \in Captain |-> [active |-> TRUE, available |-> TRUE, blocked |-> FALSE]]

\* The handlers that restart the automatic chain, and the rest of the desk's.
Restart == {"START", "RESEND"}
Desk == Restart \cup {"ASSIGN", "REASSIGN", "CANCEL", "ADMIN"}

\* A transaction: its handler and arguments, the statement it is at, the captains left to
\* try and the rounds counted, the advisory locks, and the rows it has written, which are
\* its row locks: logs and orders are functions on the rows written so far.
Begun(op, at, o, c, l, s) ==
    [op |-> op, at |-> at, order |-> o, captain |-> c, row |-> l, status |-> s,
     pool |-> {}, rounds |-> 0, holds |-> {}, logs |-> <<>>, orders |-> <<>>]

At(t, place) == tx[t] # NoTx /\ tx[t].at = place

\* The committed rows f with those of g over them.
Over(f, g) == [x \in DOMAIN f |-> IF x \in DOMAIN g THEN g[x] ELSE f[x]]

\* The order rows, and its own order's row, as transaction t sees them.
Orders(t) == Over(order, tx[t].orders)
Seen(t) == Orders(t)[tx[t].order]

Others(t) == {u \in Request \ {t} : tx[u] # NoTx}

\* The other transactions that hold the advisory lock x, log row l, or t's order row.
Holding(t, x) == {u \in Others(t) : x \in tx[u].holds}
WritingLog(t, l) == {u \in Others(t) : l \in DOMAIN tx[u].logs}
WritingOrder(t) == {u \in Others(t) : tx[t].order \in DOMAIN tx[u].orders}

Pending(l) == log[l] # NoLog /\ log[l].response = "PENDING"

PendingOf(o) == {l \in LogId : Pending(l) /\ log[l].order = o}

Init ==
    /\ order \in [Order -> [status : {"PENDING"}, captain : {NoCaptain}, mode : {"AUTO", "MANUAL"},
                            archived : {FALSE}, by : {"AUTO"}, before : {{}}]]
    /\ log = [l \in LogId |-> NoLog]
    /\ due = {}
    /\ tx = [t \in Request |-> NoTx]

-----------------------------------------------------------------------------
(* How a transaction begins. *)

MayBegin(t, op) == tx[t] = NoTx /\ op \in Ops

Begins(t, b) == [tx EXCEPT ![t] = b]

\* The desk's handlers lock the order first.
Call(t, o) ==
    /\ \E op \in Desk, c \in Captain \cup {NoCaptain}, s \in OverrideTargets \cup {"NONE"} :
         /\ MayBegin(t, op)
         /\ (c # NoCaptain) <=> op \in {"ASSIGN", "REASSIGN"}
         /\ (s # "NONE") <=> op = "ADMIN"
         /\ tx' = Begins(t, Begun(op, "lock", o, c, NoLog, s))
    /\ UNCHANGED <<order, log, due>>

\* The tick finds row l due, outside of any transaction.
Scan(t, l) ==
    /\ MayBegin(t, "EXPIRE")
    /\ Pending(l) /\ l \in due
    /\ tx' = Begins(t, Begun("EXPIRE", "lock", log[l].order, NoCaptain, l, "NONE"))
    /\ UNCHANGED <<order, log, due>>

\* A captain answers row l: the reads and the checks, before any lock.
Answer(t, op, l) ==
    /\ MayBegin(t, op)
    /\ Pending(l) /\ l \notin due
    /\ order[log[l].order].captain = log[l].captain
    /\ tx' = Begins(t, Begun(op, "row", log[l].order, NoCaptain, l, "NONE"))
    /\ UNCHANGED <<order, log, due>>

\* The assigned captain moves his order on; the order is read outside of the transaction.
Deliver(t, o, s) ==
    /\ MayBegin(t, "STATUS")
    /\ order[o].captain # NoCaptain
    /\ <<order[o].status, s>> \in DeliveryChain
    /\ tx' = Begins(t, Begun("STATUS", "write", o, NoCaptain, NoLog, s))
    /\ UNCHANGED <<order, log, due>>

WindowElapses(l) ==
    /\ Pending(l) /\ l \notin due
    /\ due' = due \cup {l}
    /\ UNCHANGED <<order, log, tx>>

\* An error, the transaction's timeout, a lost connection, the victim of a deadlock.
Rollback(t) ==
    /\ tx[t] # NoTx
    /\ tx' = [tx EXCEPT ![t] = NoTx]
    /\ UNCHANGED <<order, log, due>>

-----------------------------------------------------------------------------
(* The statements. *)

\* What a desk handler requires of the order it has locked and read.
Allowed(op, row, s) ==
    /\ op = "START" => row.mode = "AUTO" /\ row.status \in {"PENDING", "CONFIRMED"}
    /\ op = "ASSIGN" => row.status \in {"PENDING", "CONFIRMED", "ASSIGNED"}
    /\ op = "CANCEL" => row.captain # NoCaptain /\ row.status \notin {"DELIVERED", "CANCELLED"}
    /\ op = "ADMIN" => row.status # s

\* Mutant: the lock does not exclude anybody.
LockedShared(t, place) ==
    /\ At(t, "lock")
    /\ tx' = [tx EXCEPT ![t].at = place, ![t].holds = @ \cup {tx[t].order}]
    /\ UNCHANGED <<order, log, due>>

Locked(t, place) ==
    /\ At(t, "lock")
    /\ Holding(t, tx[t].order) = {}
    /\ tx' = [tx EXCEPT ![t].at = place, ![t].holds = @ \cup {tx[t].order}]
    /\ UNCHANGED <<order, log, due>>

\* Mutant: the tick trusts its scan and does not read the row again.
LockUnchecked(t) ==
    \/ tx[t].op \in Desk /\ Allowed(tx[t].op, Seen(t), tx[t].status) /\ Locked(t, "cancel")
    \/ tx[t].op = "EXPIRE" /\ Locked(t, "row")
    \/ tx[t].op = "REJECT" /\ Locked(t, IF Seen(t).mode = "AUTO" THEN "pool" ELSE "write")

\* The order's advisory lock, and the read that follows it.
Lock(t) ==
    \/ tx[t].op \in Desk /\ Allowed(tx[t].op, Seen(t), tx[t].status) /\ Locked(t, "cancel")
    \/ tx[t].op = "EXPIRE" /\ Pending(tx[t].row) /\ Locked(t, "row")
    \/ tx[t].op = "REJECT" /\ Locked(t, IF Seen(t).mode = "AUTO" THEN "pool" ELSE "write")

\* Mutant: the tick writes a response the schema does not have.
ClosingTimeout(op) == CASE op = "ACCEPT" -> "ACCEPTED" [] op = "REJECT" -> "REJECTED" [] op = "EXPIRE" -> "TIMEOUT"

\* The response each of the three closes its row with.
Closing(op) == CASE op = "ACCEPT" -> "ACCEPTED" [] op = "REJECT" -> "REJECTED" [] op = "EXPIRE" -> "EXPIRED"

\* Mutant: accept takes the advisory lock after it has closed its row, as reject does.
UpdateRowThenLock(t) ==
    LET l == tx[t].row
        place == CASE tx[t].op \in {"ACCEPT", "REJECT"} -> "lock"
                   [] tx[t].op = "EXPIRE" ->
                        IF Seen(t).mode = "AUTO" /\ Seen(t).status = "ASSIGNED" THEN "pool" ELSE "write"
    IN  /\ At(t, "row")
        /\ WritingLog(t, l) = {}
        /\ tx' = [tx EXCEPT ![t].at = place,
                            ![t].logs = [m \in {l} |-> [log[l] EXCEPT !.response = Closing(tx[t].op)]]]
        /\ UNCHANGED <<order, log, due>>

\* The update of the log row by its id, whatever its response is by now.  The tick then
\* reads the order, to choose between the chain and a release.
UpdateRow(t) ==
    LET l == tx[t].row
        place == CASE tx[t].op = "ACCEPT" -> "others"
                   [] tx[t].op = "REJECT" -> "lock"
                   [] tx[t].op = "EXPIRE" ->
                        IF Seen(t).mode = "AUTO" /\ Seen(t).status = "ASSIGNED" THEN "pool" ELSE "write"
    IN  /\ At(t, "row")
        /\ WritingLog(t, l) = {}
        /\ tx' = [tx EXCEPT ![t].at = place,
                            ![t].logs = [m \in {l} |-> [log[l] EXCEPT !.response = Closing(tx[t].op)]]]
        /\ UNCHANGED <<order, log, due>>

\* updateMany: the order's PENDING rows, but the one t has just closed, are cancelled.
CancelRows(t) ==
    LET rows == PendingOf(tx[t].order) \ DOMAIN tx[t].logs
    IN  /\ At(t, "cancel") \/ At(t, "others")
        /\ \A l \in rows : WritingLog(t, l) = {}
        /\ tx' = [tx EXCEPT ![t].at = IF tx[t].op \in Restart THEN "reset" ELSE "write",
                            ![t].logs = [l \in DOMAIN @ \cup rows |->
                                IF l \in rows THEN [log[l] EXCEPT !.response = "CANCELLED"] ELSE @[l]]]
        /\ UNCHANGED <<order, log, due>>

\* lastDistributionResetAt; a resend also takes the order back to PENDING and AUTO.
Reset(t) ==
    LET row == [Seen(t) EXCEPT !.before = {l \in LogId : log[l] # NoLog}]
    IN  /\ At(t, "reset")
        /\ WritingOrder(t) = {}
        /\ tx' = [tx EXCEPT ![t].at = "pool", ![t].orders =
                     [o \in {tx[t].order} |->
                         IF tx[t].op = "RESEND" THEN [Released(row) EXCEPT !.mode = "AUTO"] ELSE row]]
        /\ UNCHANGED <<order, log, due>>

\* Mutant: the dispatcher's attempts are counted too.
CompletedAny(o, row, logs) == {l \in LogId \ row.before :
    logs[l] # NoLog /\ logs[l].order = o /\ logs[l].response \in {"EXPIRED", "REJECTED"}}

\* The automatic attempts at order o completed since its last reset.
Completed(o, row, logs) == {l \in LogId \ row.before :
    /\ logs[l] # NoLog /\ logs[l].order = o /\ logs[l].kind = "AUTO"
    /\ logs[l].response \in {"EXPIRED", "REJECTED"}}

Rounds(t) == Cardinality(Completed(tx[t].order, Seen(t), Over(log, tx[t].logs)))

\* offerNextAutoCaptainTx reads the pool and counts the rounds ...
ReadPool(t) ==
    LET pool == AutoPool(Orders(t), Ready)
    IN  /\ At(t, "pool")
        /\ tx' = [tx EXCEPT ![t].at = IF pool = {} \/ Rounds(t) >= MaxAttempts THEN "write" ELSE "captain",
                            ![t].pool = IF Rounds(t) >= MaxAttempts THEN {} ELSE pool,
                            ![t].rounds = Rounds(t)]
        /\ UNCHANGED <<order, log, due>>

\* ... then locks the captain it picks and looks again whether he is free; if he is not,
\* it keeps his lock and tries the next.
LockCaptain(t, c) ==
    LET pool == tx[t].pool
    IN  /\ At(t, "captain")
        /\ c \in pool /\ Picked(c, pool, tx[t].order, tx[t].rounds)
        /\ Holding(t, c) = {}
        /\ tx' = [tx EXCEPT ![t].holds = @ \cup {c},
                            ![t].pool = pool \ {c},
                            ![t].captain = IF Busy(c, Orders(t)) THEN NoCaptain ELSE c,
                            ![t].at = IF Busy(c, Orders(t)) /\ pool # {c} THEN "captain" ELSE "write"]
        /\ UNCHANGED <<order, log, due>>

-----------------------------------------------------------------------------
(* The last statement, an update of the order, and the commit. *)

Commit(t, row, logs) ==
    /\ At(t, "write")
    /\ WritingOrder(t) = {}
    /\ order' = [order EXCEPT ![tx[t].order] = row]
    /\ log' = Over(log, logs)
    /\ tx' = [tx EXCEPT ![t] = NoTx]
    /\ UNCHANGED due

\* The order goes to the captain given or picked, with a new assignment row.
CommitOffer(t) ==
    LET c == tx[t].captain
        k == CASE tx[t].op = "ASSIGN" -> "MANUAL" [] tx[t].op = "REASSIGN" -> "REASSIGN" [] OTHER -> "AUTO"
        row == [Seen(t) EXCEPT !.mode = IF k = "MANUAL" THEN "MANUAL" ELSE @]
    IN  /\ c # NoCaptain
        /\ \E l \in LogId :
             /\ log[l] = NoLog
             /\ Commit(t, AssignedTo(row, c, k), [m \in DOMAIN tx[t].logs \cup {l} |->
                    IF m = l THEN [order |-> tx[t].order, captain |-> c, kind |-> k, response |-> "PENDING"]
                             ELSE tx[t].logs[m]])

\* The chain found nobody, or there is none to continue.
CommitRelease(t) ==
    /\ tx[t].op \in Restart \cup {"EXPIRE", "REJECT"}
    /\ tx[t].captain = NoCaptain
    /\ Commit(t, Released(Seen(t)), tx[t].logs)

\* acceptByCaptain writes the captain who accepted, whoever the order names by now.
CommitAccept(t) ==
    /\ tx[t].op = "ACCEPT"
    /\ Commit(t, [Seen(t) EXCEPT !.status = "ACCEPTED", !.captain = log[tx[t].row].captain,
                                 !.by = log[tx[t].row].kind], tx[t].logs)

CommitStatus(t) ==
    LET s == tx[t].status
    IN  \/ /\ tx[t].op \in {"STATUS", "ADMIN"}
           /\ tx[t].op = "ADMIN" => s = "DELIVERED"
           /\ Commit(t, [Seen(t) EXCEPT !.status = s], tx[t].logs)
        \/ /\ tx[t].op = "ADMIN" /\ s # "DELIVERED"
           /\ Commit(t, [Detached(Seen(t), s) EXCEPT !.mode = IF s = "PENDING" THEN "AUTO" ELSE @], tx[t].logs)
        \/ /\ tx[t].op = "CANCEL"
           /\ Commit(t, Detached(Seen(t), "CONFIRMED"), tx[t].logs)

-----------------------------------------------------------------------------
Step(t) ==
    /\ tx[t] # NoTx
    /\ \/ Lock(t) \/ UpdateRow(t) \/ CancelRows(t) \/ Reset(t) \/ ReadPool(t)
       \/ \E c \in Captain : LockCaptain(t, c)
       \/ CommitOffer(t) \/ CommitRelease(t) \/ CommitAccept(t) \/ CommitStatus(t)

Next ==
    \/ \E t \in Request :
         \/ Step(t) \/ Rollback(t)
         \/ \E o \in Order : Call(t, o) \/ \E s \in OrderStatus : Deliver(t, o, s)
         \/ \E l \in LogId : Scan(t, l) \/ \E op \in {"ACCEPT", "REJECT"} : Answer(t, op, l)
    \/ \E l \in LogId : WindowElapses(l)

Spec == Init /\ [][Next]_vars

-----------------------------------------------------------------------------
TypeOK ==
    /\ order \in [Order -> TxOrderRow]
    /\ log \in [LogId -> LogRow \cup {NoLog}]
    /\ due \subseteq LogId
    /\ \A t \in Request : tx[t] # NoTx =>
          /\ tx[t].holds \subseteq Order \cup Captain
          /\ DOMAIN tx[t].logs \subseteq LogId
          /\ DOMAIN tx[t].orders \subseteq {tx[t].order}

\* An order has at most one PENDING row: "one PENDING per order + one assignee"
\* (distribution-realtime-hardening-report.md).
OnePending ==
    \A l, m \in LogId : Pending(l) /\ Pending(m) /\ log[l].order = log[m].order => l = m

\* A row's answer is final: an offer is accepted, rejected, expired or cancelled once,
\* whatever else answers it or closes it at the same time.
AnswerFinal ==
    [][\A l \in LogId : log[l] # NoLog /\ ~Pending(l) => log'[l] = log[l]]_vars

\* t waits for a lock or a row of u.
WaitsFor(t, u) ==
    /\ tx[t] # NoTx
    /\ \/ At(t, "lock") /\ u \in Holding(t, tx[t].order)
       \/ At(t, "row") /\ u \in WritingLog(t, tx[t].row)
       \/ \E l \in PendingOf(tx[t].order) \ DOMAIN tx[t].logs :
             (At(t, "cancel") \/ At(t, "others")) /\ u \in WritingLog(t, l)
       \/ \E c \in tx[t].pool :
             At(t, "captain") /\ Picked(c, tx[t].pool, tx[t].order, tx[t].rounds) /\ u \in Holding(t, c)
       \/ (At(t, "reset") \/ At(t, "write")) /\ u \in WritingOrder(t)

\* No two transactions wait for each other.
NoDeadlock == \A t, u \in Request : ~(WaitsFor(t, u) /\ WaitsFor(u, t))

\* The desk has the last word: a desk handler that commits leaves no row of the order
\* PENDING but the one it has made, whatever captains and ticks do meanwhile.
DeskSettles ==
    [][\A t \in Request :
        tx[t] # NoTx /\ tx[t].op \in Desk /\ At(t, "write") /\ tx'[t] = NoTx /\ <<order, log>>' # <<order, log>>
        => \A l \in LogId : (Pending(l) /\ log[l].order = tx[t].order) => ~Pending(l)']_vars

\* What Distribution keeps of an order's row and of the log.
AtomicRow(row) == [status |-> row.status, captain |-> row.captain, mode |-> row.mode,
                   archived |-> row.archived, by |-> row.by]
AtomicOrder == [o \in Order |-> AtomicRow(order[o])]
AtomicOffer == [l \in LogId |->
    IF Pending(l) THEN [order |-> log[l].order, captain |-> log[l].captain,
                        kind |-> log[l].kind, due |-> l \in due] ELSE NoLog]
AtomicRounds == [o \in Order |-> Cardinality(Completed(o, order[o], log))]

\* The committed rows are those of Distribution, a handler's commit being its one step.
Atomic == INSTANCE Distribution WITH
    NoOffer <- NoLog, order <- AtomicOrder, offer <- AtomicOffer, rounds <- AtomicRounds, captain <- Ready

\* NoLog is none of Distribution's rows either.
ASSUME NoOfferAssumption == NoLog \notin Atomic!OfferRow

RefinesDistribution == Atomic!Spec
=============================================================================
