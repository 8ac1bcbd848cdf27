--------------------------- MODULE RemovalsProofs ---------------------------
(***************************************************************************)
(* Proof of WorkSurvives for every number of orders, captains, log ids and  *)
(* removals at once.                                                        *)
(*                                                                         *)
(* The proof goes by order.  Carried(o) is what the property asks and its   *)
(* converse, that an order with an open row is ASSIGNED; Spared(o) says     *)
(* that no removal under way will take o's work.  IInv still holds, a       *)
(* deletion included, so the lemmas of DistributionProofs apply.            *)
(***************************************************************************)
EXTENDS Removals, DistributionProofs

HasRow(o) == \E l \in LogId : Live(l) /\ offer[l].order = o

Carried(o) ==
    /\ order[o].status \in Working => order[o].captain # NoCaptain /\ ~order[o].archived
    /\ order[o].status = "ASSIGNED" <=> HasRow(o)

Spared(o) ==
    order[o].status \in Working =>
        /\ order[o].captain \notin deleting
        /\ archiving[o] = "nothing" \/ (archiving[o] = "cancel" /\ order[o].status = "ASSIGNED")

RemovalInv ==
    /\ IInv
    /\ archiving \in [Order -> {"nothing", "cancel", "write"}]
    /\ deleting \subseteq Captain
    /\ crossed \subseteq Order
    /\ \A o \in Order \ crossed : Carried(o) /\ Spared(o)

\* The invariant gives the property: an order's row names the order's captain.
LEMMA InvSurvives == RemovalInv => WorkSurvives
<1> SUFFICES ASSUME RemovalInv, NEW o \in Order \ crossed, order[o].status \in Working
             PROVE  /\ order[o].captain # NoCaptain /\ ~order[o].archived
                    /\ order[o].status = "ASSIGNED" =>
                         \E l \in LogId : Live(l) /\ offer[l].order = o /\ offer[l].captain = order[o].captain
  BY DEF WorkSurvives
<1>1. Carried(o) /\ \A l \in LogId : RowAgrees(l)
  BY DEF RemovalInv, IInv
<1> QED
  BY <1>1 DEF Carried, HasRow, RowAgrees

-----------------------------------------------------------------------------
\* A handler works on one order, whose state stays sound if it was.
Touches(p) ==
    /\ \A o \in Order \ {p} : order'[o] = order[o] /\ (HasRow(o) <=> HasRow(o)')
    /\ Carried(p) => Carried(p)'

\* The moves of Distribution touch one order; one that leaves it on its way keeps its archive mark.
LEMMA MovedTouches ==
    ASSUME IInv', NEW p \in Order, Moved(p),
           order'[p].status \in Working => order'[p].status = "ASSIGNED" \/ order'[p].archived = order[p].archived
    PROVE  Touches(p)
<1>1. ASSUME NEW o \in Order \ {p} PROVE HasRow(o) <=> HasRow(o)'
  <2>1. ASSUME NEW l \in LogId, Live(l), offer[l].order = o PROVE HasRow(o)'
    <3>1. offer'[l] = offer[l]
      BY <2>1 DEF Moved
    <3> QED
      BY <2>1, <3>1 DEF HasRow, Live
  <2>2. ASSUME NEW l \in LogId, Live(l)', offer'[l].order = o PROVE HasRow(o)
    <3>1. Live(l) /\ offer[l].order # p
      BY <2>2 DEF Moved
    <3>2. offer'[l] = offer[l]
      BY <3>1 DEF Moved
    <3> QED
      BY <2>2, <3>1, <3>2 DEF HasRow
  <2> QED
    BY <2>1, <2>2 DEF HasRow
<1>2. ASSUME Carried(p) PROVE Carried(p)'
  <2>1. CASE order'[p].status # "ASSIGNED"
    <3>1. /\ order'[p].status \in Working => order[p].status \in Working /\ order'[p].captain = order[p].captain
          /\ \A l \in LogId : Live(l)' => Live(l) /\ offer[l].order # p
      BY <2>1 DEF Moved
    <3>2. ~HasRow(p)'
      <4> SUFFICES ASSUME NEW l \in LogId, Live(l)', offer'[l].order = p PROVE FALSE
        BY DEF HasRow
      <4>1. Live(l) /\ offer[l].order # p
        BY <3>1
      <4>2. offer'[l] = offer[l]
        BY <4>1 DEF Moved
      <4> QED
        BY <4>1, <4>2
    <3>3. order'[p].status \in Working => order'[p].captain # NoCaptain /\ ~order'[p].archived
      BY <1>2, <2>1, <3>1 DEF Carried
    <3> QED
      BY <2>1, <3>2, <3>3 DEF Carried
  <2>2. CASE order'[p].status = "ASSIGNED"
    <3>1. ~order'[p].archived /\ HasRow(p)'
      BY <2>2 DEF Moved, HasRow
    <3>2. PICK l \in LogId : Live(l)' /\ offer'[l].order = p
      BY <3>1 DEF HasRow
    <3>3. offer'[l] \in OfferRow /\ order'[p].captain = offer'[l].captain
      BY <3>2 DEF IInv, TypeOK, Live, RowAgrees
    <3>4. order'[p].captain # NoCaptain
      BY <3>3, CaptainAssumption DEF OfferRow
    <3> QED
      BY <2>2, <3>1, <3>4 DEF Carried
  <2> QED
    BY <2>1, <2>2
<1> QED
  BY <1>1, <1>2 DEF Touches, Moved

\* An offer round ends with the order on offer or back in the queue.
LEMMA OfferNextStatus ==
    ASSUME TypeOK, NEW o \in Order, NEW row \in OrderRow, NEW open, NEW n, OfferNext(o, row, open, n)
    PROVE  order'[o].status \notin Working \/ order'[o].status = "ASSIGNED"
<1>1. CASE order' = [order EXCEPT ![o] = Released(row)]
  <2>1. order'[o] = Released(row)
    BY <1>1 DEF TypeOK
  <2> QED
    BY <2>1 DEF Released, Detached, Working, OrderRow
<1>2. ASSUME NEW c, order' = [order EXCEPT ![o] = AssignedTo(row, c, "AUTO")]
      PROVE  order'[o].status = "ASSIGNED"
  <2>1. order'[o] = AssignedTo(row, c, "AUTO")
    BY <1>2 DEF TypeOK
  <2> QED
    BY <2>1 DEF AssignedTo, OrderRow
<1> QED
  BY <1>1, <1>2 DEF OfferNext

\* The desk's handlers, the archive apart.
LEMMA DeskTouches ==
    ASSUME IInv, IInv', NEW o \in Order,
           \/ StartAuto(o) \/ Resend(o) \/ CancelAssignment(o) \/ Unarchive(o)
           \/ \E c \in Captain : AssignManual(o, c) \/ Reassign(o, c)
           \/ \E s \in OrderStatus : AdminOverride(o, s)
    PROVE  Touches(o)
<1>1. TypeOK /\ order[o] \in OrderRow
  BY DEF IInv, TypeOK
<1> DEFINE open == CancelPending(o)
<1>2. open \in [LogId -> OfferRow \cup {NoOffer}]
  BY <1>1, CancelFacts
<1>3. \A l \in LogId : (open[l] # NoOffer => Live(l) /\ offer[l].order # o)
                       /\ (Live(l) /\ offer[l].order # o => open[l] = offer[l])
  BY <1>1, CancelExact
\* What the two kinds of moves leave behind.
<1>4. ASSUME NEW row \in OrderRow, ~row.archived, NEW n, OfferNext(o, row, open, n) PROVE Touches(o)
  <2>1. Moved(o)
    BY <1>2, <1>3, <1>4, OfferNextMoves
  <2>2. order'[o].status \notin Working \/ order'[o].status = "ASSIGNED"
    BY <1>1, <1>4, OfferNextStatus
  <2> QED
    BY <2>1, <2>2, MovedTouches
<1>5. ASSUME NEW row, row.status \notin Working, order' = [order EXCEPT ![o] = row], offer' = open
      PROVE  Touches(o)
  <2>1. Moved(o)
    <3> HIDE DEF open
    <3> QED
      BY <1>3, <1>5, DetachMoves
  <2>2. order'[o].status \notin Working
    BY <1>1, <1>5 DEF TypeOK
  <2> QED
    BY <2>1, <2>2, MovedTouches
<1>6. ASSUME NEW c \in Captain, NEW k \in Kind, k # "AUTO", NEW row \in OrderRow, ~row.archived,
             Assign(o, c, k, row)
      PROVE  Touches(o)
  <2>1. PICK l \in LogId : ~Live(l) /\ offer' = [open EXCEPT ![l] = NewOffer(o, c, k)]
    BY <1>6 DEF Assign
  <2>2. order' = [order EXCEPT ![o] = AssignedTo(row, c, k)]
    BY <1>6 DEF Assign
  <2>3. Moved(o)
    <3> HIDE DEF open
    <3> QED
      BY <1>2, <1>3, <1>6, <2>1, <2>2, OfferMoves
  <2>4. order'[o].status = "ASSIGNED"
    BY <1>1, <1>6, <2>2 DEF TypeOK, AssignedTo, OrderRow
  <2> QED
    BY <2>3, <2>4, MovedTouches
<1>7. CASE StartAuto(o)
  BY <1>1, <1>4, <1>7 DEF StartAuto
<1>8. CASE Resend(o)
  <2>1. /\ [Released(order[o]) EXCEPT !.mode = "AUTO"] \in OrderRow
        /\ [Released(order[o]) EXCEPT !.mode = "AUTO"].archived = FALSE
    BY <1>1, <1>8, RowTypes DEF OrderRow, Resend, Released, Detached
  <2>2. OfferNext(o, [Released(order[o]) EXCEPT !.mode = "AUTO"], open, 0)
    BY <1>8 DEF Resend
  <2> QED
    BY <1>4, <2>1, <2>2
<1>9. CASE CancelAssignment(o)
  <2>1. Detached(order[o], "CONFIRMED").status \notin Working
    BY <1>1 DEF Detached, Working, OrderRow
  <2> QED
    BY <1>5, <1>9, <2>1 DEF CancelAssignment
<1>10. CASE \E c \in Captain : AssignManual(o, c) \/ Reassign(o, c)
  <2>1. ~order[o].archived
    BY <1>10 DEF AssignManual, Reassign, Assign
  <2>2. /\ [order[o] EXCEPT !.mode = "MANUAL"] \in OrderRow
        /\ ~[order[o] EXCEPT !.mode = "MANUAL"].archived
    BY <1>1, <2>1 DEF OrderRow
  <2>3. {"MANUAL", "REASSIGN"} \subseteq Kind
    BY DEF Kind
  <2> QED
    BY <1>1, <1>6, <1>10, <2>1, <2>2, <2>3 DEF AssignManual, Reassign
<1>11. ASSUME NEW s \in OrderStatus, AdminOverride(o, s) PROVE Touches(o)
  <2>1. offer' = open /\ s \in OverrideTargets
    BY <1>11 DEF AdminOverride
  <2>2. s \notin Working
    BY <2>1 DEF OverrideTargets, Working
  <2>3. PICK row : order' = [order EXCEPT ![o] = row] /\ row.status = s
    <3>1. CASE order' = [order EXCEPT ![o].status = s]
      <4>1. order' = [order EXCEPT ![o] = [order[o] EXCEPT !.status = s]]
        BY <1>1, <3>1 DEF TypeOK
      <4>2. [order[o] EXCEPT !.status = s].status = s
        BY <1>1 DEF OrderRow
      <4> QED
        BY <4>1, <4>2
    <3>2. CASE order' = [order EXCEPT ![o] = [Detached(order[o], s) EXCEPT
                                !.mode = IF s = "PENDING" THEN "AUTO" ELSE @]]
      <4>1. [Detached(order[o], s) EXCEPT !.mode = IF s = "PENDING" THEN "AUTO" ELSE @].status = s
        BY <1>1 DEF Detached, OrderRow
      <4> QED
        BY <3>2, <4>1
    <3> QED
      BY <1>11, <3>1, <3>2 DEF AdminOverride
  <2> HIDE DEF open
  <2> QED
    BY <1>5, <2>1, <2>2, <2>3
<1>12. CASE Unarchive(o)
  <2>1. /\ order' = [order EXCEPT ![o] = [order[o] EXCEPT !.archived = FALSE]] /\ UNCHANGED offer
        /\ order[o].archived
    BY <1>1, <1>12 DEF Unarchive, TypeOK
  <2>2. \A p \in Order : HasRow(p) <=> HasRow(p)'
    BY <2>1 DEF HasRow, Live
  <2>3. order'[o].status = order[o].status
    BY <1>1, <2>1 DEF TypeOK, OrderRow
  <2>4. Carried(o) => Carried(o)'
    BY <2>1, <2>2, <2>3 DEF Carried
  <2> QED
    BY <1>1, <2>1, <2>2, <2>4 DEF Touches, TypeOK
<1> QED
  BY <1>7, <1>8, <1>9, <1>10, <1>11, <1>12

\* The delivery chain.
LEMMA DeliveryTouches ==
    ASSUME IInv, NEW o \in Order, NEW s, CaptainSetStatus(o, s)
    PROVE  Touches(o)
<1>1. /\ order' = [order EXCEPT ![o].status = s] /\ UNCHANGED offer
      /\ <<order[o].status, s>> \in DeliveryChain
  BY DEF CaptainSetStatus
<1>2. order[o].status \in Working /\ order[o].status # "ASSIGNED" /\ s # "ASSIGNED"
  BY <1>1 DEF DeliveryChain, Working
<1>3. /\ order'[o].captain = order[o].captain /\ order'[o].archived = order[o].archived
      /\ order'[o].status = s
      /\ \A p \in Order \ {o} : order'[p] = order[p]
  BY <1>1 DEF IInv, TypeOK, OrderRow
<1>4. \A p \in Order : HasRow(p) <=> HasRow(p)'
  BY <1>1 DEF HasRow, Live
<1>5. Carried(o) => Carried(o)'
  BY <1>2, <1>3, <1>4 DEF Carried
<1> QED
  BY <1>3, <1>4, <1>5 DEF Touches

\* The captains' answers and the tick.
LEMMA AnswerTouches ==
    ASSUME IInv, IInv', NEW l \in LogId, NEW o \in Order, o = offer[l].order,
           Accept(l) \/ Reject(l) \/ Expire(l) \/ WindowElapses(l)
    PROVE  Touches(o)
<1>1. Live(l) /\ TypeOK
  BY DEF Accept, Reject, Expire, WindowElapses, Answerable, IInv
<1>2. o \in Order /\ order[o] \in OrderRow /\ offer[l] \in OfferRow
  BY <1>1 DEF TypeOK, Live, OfferRow
<1>3. \A m \in LogId : (Without(l)[m] # NoOffer => Live(m) /\ offer[m].order # o)
                       /\ (Live(m) /\ offer[m].order # o => Without(l)[m] = offer[m])
  BY <1>1 DEF IInv, OneRow, Live, Without
<1>4. CASE Accept(l)
  <2> DEFINE row  == [order[o] EXCEPT !.status = "ACCEPTED"]
             open == CancelPending(o)
  <2>1. order' = [order EXCEPT ![o] = row] /\ offer' = open
    BY <1>1, <1>2, <1>4 DEF Accept, TypeOK
  <2>2. row.status = "ACCEPTED" /\ row.captain = order[o].captain /\ row.archived = order[o].archived
    BY <1>2 DEF OrderRow
  <2>3. \A m \in LogId : (open[m] # NoOffer => Live(m) /\ offer[m].order # o)
                         /\ (Live(m) /\ offer[m].order # o => open[m] = offer[m])
    BY <1>1, <1>2, CancelExact
  <2> HIDE DEF row, open
  <2>4. order'[o] = row /\ \A p \in Order \ {o} : order'[p] = order[p]
    BY <1>1, <1>2, <2>1 DEF TypeOK
  <2>5. \A p \in Order \ {o} : HasRow(p) <=> HasRow(p)'
    BY <2>1, <2>3 DEF HasRow, Live
  <2>6. ~HasRow(o)' /\ HasRow(o)
    BY <1>1, <2>1, <2>3 DEF HasRow, Live
  <2>7. Carried(o) => Carried(o)'
    BY <2>2, <2>4, <2>6 DEF Carried, Working
  <2> QED
    BY <1>2, <2>4, <2>5, <2>7 DEF Touches
<1>5. ASSUME NEW chain \in BOOLEAN, AfterClose(l, chain), chain => ~order[o].archived PROVE Touches(o)
  <2> DEFINE open == Without(l)
  <2>1. open \in [LogId -> OfferRow \cup {NoOffer}]
    BY <1>1 DEF TypeOK, Without
  <2>2. Moved(o) /\ (order'[o].status \notin Working \/ order'[o].status = "ASSIGNED")
    <3>1. CASE chain
      <4>1. OfferNext(o, order[o], open, RoundsAfter(l))
        BY <1>5, <3>1 DEF AfterClose
      <4>2. order'[o].status \notin Working \/ order'[o].status = "ASSIGNED"
        BY <1>1, <1>2, <4>1, OfferNextStatus
      <4> HIDE DEF open
      <4> QED
        BY <1>2, <1>3, <1>5, <2>1, <3>1, <4>1, <4>2, OfferNextMoves DEF open
    <3>2. CASE ~chain
      <4>1. order' = [order EXCEPT ![o] = Released(order[o])] /\ offer' = open
        BY <1>5, <3>2 DEF AfterClose
      <4>2. Released(order[o]).status \notin Working
        BY <1>2 DEF Released, Detached, Working, OrderRow
      <4>3. order'[o].status \notin Working
        BY <1>1, <1>2, <4>1, <4>2 DEF TypeOK
      <4> QED
        BY <1>2, <1>3, <4>1, <4>2, <4>3, DetachMoves
    <3> QED
      BY <3>1, <3>2
  <2> QED
    BY <1>2, <2>2, MovedTouches
<1>6. CASE Reject(l)
  <2>1. CASE order[o].archived
    <3>1. offer' = Without(l) /\ UNCHANGED order
      BY <1>6, <2>1 DEF Reject
    <3>2. \A p \in Order \ {o} : HasRow(p) <=> HasRow(p)'
      BY <1>3, <3>1 DEF HasRow, Live
    <3>3. HasRow(o)
      BY <1>1 DEF HasRow
    <3>4. ~Carried(o)
      BY <2>1, <3>3 DEF Carried, Working
    <3> QED
      BY <1>2, <3>1, <3>2, <3>4 DEF Touches
  <2>2. CASE ~order[o].archived
    <3>1. AfterClose(l, order[o].mode = "AUTO") /\ (order[o].mode = "AUTO") \in BOOLEAN
      BY <1>6, <2>2 DEF Reject
    <3> QED
      BY <1>2, <1>5, <2>2, <3>1
  <2> QED
    BY <2>1, <2>2
<1>7. CASE Expire(l)
  <2>1. \E chain \in BOOLEAN : AfterClose(l, chain) /\ (chain => ~order[o].archived)
    BY <1>7 DEF Expire
  <2> QED
    BY <1>2, <1>5, <2>1
<1>8. CASE WindowElapses(l)
  <2>1. offer' = [offer EXCEPT ![l].due = TRUE] /\ UNCHANGED order
    BY <1>8 DEF WindowElapses
  <2>2. [offer[l] EXCEPT !.due = TRUE] \in OfferRow
    BY <1>2 DEF OfferRow
  <2>3. [offer[l] EXCEPT !.due = TRUE] # NoOffer
    BY <2>2, NoOfferAssumption
  <2>4. \A m \in LogId : /\ Live(m)' <=> Live(m)
                         /\ Live(m) => offer'[m].order = offer[m].order
    BY <1>1, <2>1, <2>3 DEF TypeOK, Live, OfferRow
  <2>5. \A p \in Order : HasRow(p) <=> HasRow(p)'
    BY <2>4 DEF HasRow
  <2>6. Carried(o) => Carried(o)'
    BY <1>2, <2>1, <2>5 DEF Carried
  <2> QED
    BY <1>2, <2>1, <2>5, <2>6 DEF Touches
<1> QED
  BY <1>2, <1>4, <1>6, <1>7, <1>8

LEMMA HandledKeepsIInv == IInv /\ Handled => IInv'
<1>1. Handled => Next
  BY DEF Handled, Next, Dispatch
<1> QED
  BY <1>1, NextIInv

\* What a handler commits either leaves an order as it is, or crosses a removal, or is spared.
LEMMA HandlerKeeps ==
    ASSUME RemovalInv, HandlerCommits
    PROVE  RemovalInv'
<1>1. IInv /\ IInv'
  BY HandledKeepsIInv DEF RemovalInv, HandlerCommits
<1>2. PICK p \in Order : Touches(p)
  <2>1. CASE \E l \in LogId : Accept(l) \/ Reject(l) \/ Expire(l) \/ WindowElapses(l)
    <3>1. PICK l \in LogId : Accept(l) \/ Reject(l) \/ Expire(l) \/ WindowElapses(l)
      BY <2>1
    <3>2. Live(l) /\ TypeOK
      BY <1>1, <3>1 DEF Accept, Reject, Expire, WindowElapses, Answerable, IInv
    <3>3. PICK o \in Order : o = offer[l].order
      BY <3>2 DEF TypeOK, Live, OfferRow
    <3> QED
      BY <1>1, <3>1, <3>3, AnswerTouches
  <2>2. CASE \E o \in Order, s \in OrderStatus : CaptainSetStatus(o, s)
    BY <1>1, <2>2, DeliveryTouches
  <2>3. CASE \E o \in Order :
                \/ StartAuto(o) \/ Resend(o) \/ CancelAssignment(o) \/ Unarchive(o)
                \/ \E c \in Captain : AssignManual(o, c) \/ Reassign(o, c)
                \/ \E s \in OrderStatus : AdminOverride(o, s)
    BY <1>1, <2>3, DeskTouches
  <2> QED
    BY <2>1, <2>2, <2>3 DEF HandlerCommits, Handled
<1>3. /\ crossed' = crossed \cup {o \in Order : Crosses(o)}
      /\ UNCHANGED <<archiving, deleting>>
  BY DEF HandlerCommits
<1>4. ASSUME NEW o \in Order, o \notin crossed' PROVE Carried(o)' /\ Spared(o)'
  <2>1. Carried(o) /\ Spared(o) /\ ~Crosses(o)
    BY <1>3, <1>4 DEF RemovalInv
  <2>2. CASE order'[o] = order[o]
    <3>1. Carried(o)'
      BY <1>2, <2>1, <2>2 DEF Touches, Carried
    <3> QED
      BY <1>3, <2>1, <2>2, <3>1 DEF Spared
  <2>3. CASE order'[o] # order[o]
    <3>1. o = p
      BY <1>2, <2>3 DEF Touches
    <3> QED
      BY <1>2, <1>3, <2>1, <2>3, <3>1 DEF Touches, Spared, Crosses
  <2> QED
    BY <2>2, <2>3
<1> QED
  BY <1>1, <1>3, <1>4 DEF RemovalInv

-----------------------------------------------------------------------------
\* A step that leaves the rows and the history alone keeps the invariant if every order is spared.
LEMMA RowsKept ==
    ASSUME RemovalInv, UNCHANGED <<vars, crossed>>,
           archiving' \in [Order -> {"nothing", "cancel", "write"}], deleting' \subseteq Captain,
           \A o \in Order \ crossed : Spared(o)'
    PROVE  RemovalInv'
<1>1. IInv'
  BY NextIInv DEF RemovalInv, vars
<1>2. \A o \in Order \ crossed : Carried(o)'
  BY DEF RemovalInv, Carried, HasRow, Live, vars
<1> QED
  BY <1>1, <1>2 DEF RemovalInv

LEMMA ArchiveKeeps ==
    ASSUME RemovalInv, NEW o \in Order,
           ArchiveBegins(o) \/ ArchiveCancels(o) \/ ArchiveWrites(o) \/ ArchiveFails(o)
    PROVE  RemovalInv'
<1>1. IInv /\ TypeOK /\ order[o] \in OrderRow
  BY DEF RemovalInv, IInv, TypeOK
<1>2. CASE ArchiveBegins(o)
  <2>1. \A p \in Order \ crossed : Spared(p)'
    <3> SUFFICES ASSUME NEW p \in Order \ crossed PROVE Spared(p)'
      OBVIOUS
    <3>1. Spared(p) /\ Carried(p)
      BY DEF RemovalInv
    <3>2. UNCHANGED <<order, deleting>>
      BY <1>2 DEF ArchiveBegins, vars
    <3>3. CASE p # o
      BY <1>2, <3>1, <3>2, <3>3 DEF ArchiveBegins, Spared, RemovalInv
    <3>4. CASE p = o
      BY <1>2, <3>1, <3>2, <3>4 DEF ArchiveBegins, Spared, Carried, Working, RemovalInv
    <3> QED
      BY <3>3, <3>4
  <2> QED
    BY <1>2, <2>1, RowsKept DEF ArchiveBegins, RemovalInv
<1>3. CASE ArchiveFails(o)
  <2>1. \A p \in Order \ crossed : Spared(p)'
    BY <1>3 DEF ArchiveFails, Spared, RemovalInv, vars
  <2> QED
    BY <1>3, <2>1, RowsKept DEF ArchiveFails, RemovalInv
<1>4. CASE ArchiveCancels(o)
  <2>1. CancelAssignment(o) /\ UNCHANGED <<deleting, crossed>>
        /\ archiving' = [archiving EXCEPT ![o] = "write"]
    BY <1>4 DEF ArchiveCancels
  <2>2. IInv' /\ Touches(o)
    BY <1>1, <2>1, DispatchKeeps, DeskTouches DEF Dispatch
  <2>3. order'[o].status = "CONFIRMED"
    BY <1>1, <2>1 DEF CancelAssignment, Detached, TypeOK, OrderRow
  <2>4. ASSUME NEW p \in Order \ crossed PROVE Carried(p)' /\ Spared(p)'
    <3>1. Carried(p) /\ Spared(p)
      BY DEF RemovalInv
    <3>2. CASE p = o
      BY <2>2, <2>3, <3>1, <3>2 DEF Touches, Spared, Working
    <3>3. CASE p # o
      <4>1. order'[p] = order[p] /\ (HasRow(p) <=> HasRow(p)') /\ archiving'[p] = archiving[p]
        BY <2>1, <2>2, <3>3 DEF Touches, RemovalInv
      <4> QED
        BY <2>1, <3>1, <4>1 DEF Carried, Spared
    <3> QED
      BY <3>2, <3>3
  <2> QED
    BY <2>1, <2>2, <2>4 DEF RemovalInv
<1>5. CASE ArchiveWrites(o)
  <2>1. /\ order' = [order EXCEPT ![o].archived = TRUE] /\ archiving[o] = "write"
        /\ archiving' = [archiving EXCEPT ![o] = "nothing"]
        /\ UNCHANGED <<offer, rounds, captain, deleting, crossed>>
    BY <1>5 DEF ArchiveWrites
  <2>2. \A p \in Order : /\ order'[p].status = order[p].status
                         /\ order'[p].captain = order[p].captain
                         /\ order'[p].mode = order[p].mode
                         /\ p # o => order'[p] = order[p] /\ archiving'[p] = archiving[p]
    BY <1>1, <2>1 DEF TypeOK, OrderRow, RemovalInv
  <2>3. TypeOK'
    <3>1. [order[o] EXCEPT !.archived = TRUE] \in OrderRow
      BY <1>1 DEF OrderRow
    <3> QED
      BY <1>1, <2>1, <3>1 DEF TypeOK
  <2>4. IInv'
    BY <1>1, <2>1, <2>2, <2>3, RowsUntouched
  <2>5. ASSUME NEW p \in Order \ crossed PROVE Carried(p)' /\ Spared(p)'
    <3>1. Carried(p) /\ Spared(p)
      BY DEF RemovalInv
    <3>2. HasRow(p) <=> HasRow(p)'
      BY <2>1 DEF HasRow, Live
    <3>3. CASE p # o
      BY <2>1, <2>2, <3>1, <3>2, <3>3 DEF Carried, Spared
    <3>4. CASE p = o
      <4>1. order[p].status \notin Working
        BY <2>1, <3>1, <3>4 DEF Spared
      <4> QED
        BY <2>2, <3>1, <3>2, <4>1 DEF Carried, Spared
    <3> QED
      BY <3>3, <3>4
  <2> QED
    BY <2>1, <2>4, <2>5 DEF RemovalInv
<1> QED
  BY <1>2, <1>3, <1>4, <1>5

\* A deletion takes a captain's rows and his name from his orders together.
LEMMA DeletionKeepsIInv ==
    ASSUME IInv, NEW c \in Captain, DeleteCaptain(c)
    PROVE  IInv'
<1>1. TypeOK'
  <2>1. \A o \in Order : order[o] \in OrderRow
    BY DEF IInv, TypeOK
  <2>2. order' \in [Order -> OrderRow]
    BY <2>1 DEF DeleteCaptain, OrderRow, Kind
  <2>3. offer' \in [LogId -> OfferRow \cup {NoOffer}]
    BY DEF DeleteCaptain, IInv, TypeOK
  <2>4. captain' \in [Captain -> CaptainRow]
    BY DEF DeleteCaptain, IInv, TypeOK, CaptainRow
  <2> QED
    BY <2>2, <2>3, <2>4 DEF DeleteCaptain, TypeOK
<1>2. \A l \in LogId : Live(l)' => Live(l) /\ offer'[l] = offer[l] /\ offer[l].captain # c
  BY DEF DeleteCaptain, Live
<1>3. OneRow'
  BY <1>2 DEF IInv, OneRow
<1>4. ASSUME NEW l \in LogId, Live(l)' PROVE RowAgrees(l)'
  <2> DEFINE o == offer[l].order
  <2>1. Live(l) /\ offer'[l] = offer[l] /\ offer[l].captain # c
    BY <1>2, <1>4
  <2>2. o \in Order /\ order[o].captain = offer[l].captain
    BY <2>1 DEF IInv, TypeOK, Live, OfferRow, RowAgrees
  <2>3. order'[o] = order[o]
    BY <2>1, <2>2 DEF DeleteCaptain
  <2>4. rounds'[o] \in 0 .. MaxAttempts /\ rounds'[o] <= rounds[o]
    BY <2>2 DEF DeleteCaptain
  <2>5. rounds[o] \in 0 .. MaxAttempts
    BY <2>2 DEF IInv, TypeOK
  <2> QED
    BY <2>1, <2>3, <2>4, <2>5, AttemptsAssumption DEF IInv, RowAgrees
<1> QED
  BY <1>1, <1>3, <1>4 DEF IInv, RowAgrees

LEMMA DeletionKeeps ==
    ASSUME RemovalInv, NEW c \in Captain, CountOpen(c) \/ DeleteCaptain(c) \/ DeleteFails(c)
    PROVE  RemovalInv'
<1>1. CASE CountOpen(c)
  <2>1. \A p \in Order \ crossed : Spared(p)'
    BY <1>1 DEF CountOpen, Spared, RemovalInv, Working, vars
  <2> QED
    BY <1>1, <2>1, RowsKept DEF CountOpen, RemovalInv
<1>2. CASE DeleteFails(c)
  <2>1. \A p \in Order \ crossed : Spared(p)'
    BY <1>2 DEF DeleteFails, Spared, RemovalInv, vars
  <2> QED
    BY <1>2, <2>1, RowsKept DEF DeleteFails, RemovalInv
<1>3. CASE DeleteCaptain(c)
  <2>1. IInv'
    BY <1>3, DeletionKeepsIInv DEF RemovalInv
  <2>2. c \in deleting /\ deleting' = deleting \ {c} /\ UNCHANGED <<archiving, crossed>>
    BY <1>3 DEF DeleteCaptain
  <2>3. ASSUME NEW p \in Order \ crossed PROVE Carried(p)' /\ Spared(p)'
    <3>1. Carried(p) /\ Spared(p)
      BY DEF RemovalInv
    <3>2. order[p] \in OrderRow
      BY DEF RemovalInv, IInv, TypeOK
    <3>3. order'[p].status = order[p].status
      BY <1>3, <3>2 DEF DeleteCaptain, OrderRow
    <3>4. CASE order[p].status \in Working
      <4>1. order[p].captain # c
        BY <2>2, <3>1, <3>4 DEF Spared
      <4>2. order'[p] = order[p]
        BY <1>3, <4>1 DEF DeleteCaptain
      <4>3. HasRow(p) <=> HasRow(p)'
        <5>1. ASSUME NEW l \in LogId, Live(l), offer[l].order = p PROVE offer'[l] = offer[l]
          <6>1. offer[l].captain = order[p].captain
            BY <5>1 DEF RemovalInv, IInv, RowAgrees
          <6> QED
            BY <1>3, <4>1, <5>1, <6>1 DEF DeleteCaptain
        <5>2. ASSUME NEW l \in LogId, Live(l)' PROVE Live(l) /\ offer'[l] = offer[l]
          BY <1>3, <5>2 DEF DeleteCaptain, Live
        <5> QED
          BY <5>1, <5>2 DEF HasRow, Live
      <4> QED
        BY <2>2, <3>1, <4>2, <4>3 DEF Carried, Spared
    <3>5. CASE order[p].status \notin Working
      <4>1. ~HasRow(p)
        BY <3>1, <3>5 DEF Carried, Working
      <4>2. ~HasRow(p)'
        <5>1. ASSUME NEW l \in LogId, Live(l)' PROVE Live(l) /\ offer'[l] = offer[l]
          BY <1>3, <5>1 DEF DeleteCaptain, Live
        <5> QED
          BY <4>1, <5>1 DEF HasRow
      <4> QED
        BY <3>3, <3>5, <4>2 DEF Carried, Spared, Working
    <3> QED
      BY <3>4, <3>5
  <2> QED
    BY <2>1, <2>2, <2>3 DEF RemovalInv
<1> QED
  BY <1>1, <1>2, <1>3

-----------------------------------------------------------------------------
LEMMA InitRemovalInv == RemovalInit => RemovalInv
<1> SUFFICES ASSUME RemovalInit PROVE RemovalInv
  OBVIOUS
<1>1. IInv
  BY InitIInv DEF RemovalInit
<1>2. \A o \in Order : order[o].status = "PENDING"
  BY DEF RemovalInit, Init, NewOrder
<1>3. \A o \in Order : ~HasRow(o)
  BY DEF RemovalInit, Init, HasRow, Live
<1> QED
  BY <1>1, <1>2, <1>3 DEF RemovalInit, RemovalInv, Carried, Spared, Working

LEMMA NextRemovalInv == RemovalInv /\ [RemovalNext]_removalVars => RemovalInv'
<1> SUFFICES ASSUME RemovalInv, [RemovalNext]_removalVars PROVE RemovalInv'
  OBVIOUS
<1>1. CASE HandlerCommits
  BY <1>1, HandlerKeeps
<1>2. CASE \E o \in Order : ArchiveBegins(o) \/ ArchiveCancels(o) \/ ArchiveWrites(o) \/ ArchiveFails(o)
  BY <1>2, ArchiveKeeps
<1>3. CASE \E c \in Captain : CountOpen(c) \/ DeleteCaptain(c) \/ DeleteFails(c)
  BY <1>3, DeletionKeeps
<1>4. CASE UNCHANGED removalVars
  <2>1. \A p \in Order \ crossed : Spared(p)'
    BY <1>4 DEF removalVars, Spared, RemovalInv
  <2> QED
    BY <1>4, <2>1, RowsKept DEF removalVars, vars, RemovalInv
<1> QED
  BY <1>1, <1>2, <1>3, <1>4 DEF RemovalNext

\* RemovalInv holds always, with any number of orders, captains, archives and deletions: the work
\* of an order no handler moved in the midst of one is carried by its rows and by its captain.
THEOREM RemovalInvariance == RemovalSpec => []RemovalInv
BY InitRemovalInv, NextRemovalInv, PTL DEF RemovalSpec

\* With any number of archives and deletions under way, the work of an order that no handler
\* moved in the midst of one is lost to none of them.
THEOREM RemovalsSpareWork == RemovalSpec => []WorkSurvives
BY InvSurvives, RemovalInvariance, PTL
=============================================================================
