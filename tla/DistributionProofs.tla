------------------------- MODULE DistributionProofs -------------------------
(***************************************************************************)
(* Proofs about Distribution, for every number of orders, captains, log ids *)
(* and attempts, and for every policy setting.                              *)
(*                                                                         *)
(* None of OneOpenOffer, AttemptsBounded and ModeOfOffer is inductive by    *)
(* itself: that the release after a timeout closes the order's last row     *)
(* needs OneOpenOffer, that the count of rounds stays typed needs           *)
(* AttemptsBounded.  IInv is their conjunction with the types.              *)
(***************************************************************************)
EXTENDS DistributionViews, TLAPS

\* The row with id l agrees with its order: captain, attempts left, mode.
RowAgrees(l) ==
    Live(l) =>
      /\ order[offer[l].order].captain = offer[l].captain
      /\ offer[l].kind = "AUTO" => rounds[offer[l].order] < MaxAttempts
      /\ offer[l].kind # "REASSIGN" => order[offer[l].order].mode = offer[l].kind

\* No order has two open rows.
OneRow ==
    \A l, m \in LogId : Live(l) /\ Live(m) /\ offer[l].order = offer[m].order => l = m

IInv == TypeOK /\ OneRow /\ \A l \in LogId : RowAgrees(l)

\* The invariant is the conjunction of the properties the runs check.
LEMMA IInvParts == IInv <=> TypeOK /\ OneOpenOffer /\ AttemptsBounded /\ ModeOfOffer
BY DEF IInv, RowAgrees, OneRow, OneOpenOffer, AttemptsBounded, ModeOfOffer

\* The order rows the handlers write are order rows.
LEMMA RowTypes ==
    ASSUME NEW row \in OrderRow
    PROVE  /\ \A s \in OrderStatus : Detached(row, s) \in OrderRow
           /\ Released(row) \in OrderRow
           /\ \A c \in Captain, k \in Kind : AssignedTo(row, c, k) \in OrderRow
BY DEF OrderRow, Detached, Released, AssignedTo, Kind, OrderStatus

\* Cancelling the open rows of o leaves the other orders' rows alone.
LEMMA CancelFacts ==
    ASSUME TypeOK, NEW o \in Order
    PROVE  /\ CancelPending(o) \in [LogId -> OfferRow \cup {NoOffer}]
           /\ \A l \in LogId : CancelPending(o)[l] # NoOffer =>
                 Live(l) /\ CancelPending(o)[l] = offer[l] /\ offer[l].order # o
BY DEF TypeOK, CancelPending, Live

\* Closing the only open row of an order leaves the other orders' rows alone.
LEMMA CloseFacts ==
    ASSUME IInv, NEW l \in LogId, Live(l),
           NEW open, open = Without(l)
    PROVE  /\ open \in [LogId -> OfferRow \cup {NoOffer}]
           /\ \A m \in LogId : open[m] # NoOffer =>
                 Live(m) /\ open[m] = offer[m] /\ offer[m].order # offer[l].order
BY DEF IInv, TypeOK, OneRow, Live, Without

\* A step that rewrites order o, of whose rows none stays open, keeps the invariant.
LEMMA OrderRewritten ==
    ASSUME IInv, captain' \in [Captain -> CaptainRow],
           NEW o \in Order, NEW row \in OrderRow, NEW n \in 0 .. MaxAttempts,
           NEW open \in [LogId -> OfferRow \cup {NoOffer}],
           \A l \in LogId : open[l] # NoOffer =>
               Live(l) /\ open[l] = offer[l] /\ offer[l].order # o,
           order' = [order EXCEPT ![o] = row],
           offer' = open,
           rounds' = [rounds EXCEPT ![o] = n]
    PROVE  IInv'
<1>1. TypeOK'
  BY DEF IInv, TypeOK
<1>2. OneRow'
  BY DEF IInv, OneRow, Live
<1>3. ASSUME NEW l \in LogId PROVE RowAgrees(l)'
  BY <1>3 DEF IInv, TypeOK, RowAgrees, Live, OfferRow
<1> QED
  BY <1>1, <1>2, <1>3 DEF IInv

\* The same when the step gives the order a new row for its new captain.
LEMMA OrderOffered ==
    ASSUME IInv, captain' \in [Captain -> CaptainRow],
           NEW o \in Order, NEW row \in OrderRow, NEW n \in 0 .. MaxAttempts,
           NEW c \in Captain, NEW k \in Kind,
           k = "AUTO" => n < MaxAttempts,
           k # "REASSIGN" => row.mode = k,
           NEW open \in [LogId -> OfferRow \cup {NoOffer}],
           \A l \in LogId : open[l] # NoOffer =>
               Live(l) /\ open[l] = offer[l] /\ offer[l].order # o,
           NEW new \in LogId, ~Live(new),
           order' = [order EXCEPT ![o] = AssignedTo(row, c, k)],
           offer' = [open EXCEPT ![new] = NewOffer(o, c, k)],
           rounds' = [rounds EXCEPT ![o] = n]
    PROVE  IInv'
<1>1. NewOffer(o, c, k) \in OfferRow /\ NewOffer(o, c, k) # NoOffer
  <2>1. NewOffer(o, c, k) \in OfferRow
    BY DEF NewOffer, OfferRow
  <2> QED
    BY <2>1, NoOfferAssumption
<1>2. /\ NewOffer(o, c, k).order = o /\ NewOffer(o, c, k).captain = c
      /\ NewOffer(o, c, k).kind = k
  BY DEF NewOffer
<1>3. /\ AssignedTo(row, c, k) \in OrderRow
      /\ AssignedTo(row, c, k).captain = c /\ AssignedTo(row, c, k).mode = row.mode
  BY DEF AssignedTo, OrderRow, OrderStatus, Kind
<1>4. TypeOK'
  BY <1>1, <1>3 DEF IInv, TypeOK
<1>5. /\ offer'[new] = NewOffer(o, c, k) /\ order'[o] = AssignedTo(row, c, k) /\ rounds'[o] = n
      /\ \A l \in LogId \ {new} : offer'[l] = open[l]
      /\ \A p \in Order \ {o} : order'[p] = order[p] /\ rounds'[p] = rounds[p]
  BY DEF IInv, TypeOK
<1>6. OneRow'
  BY <1>2, <1>5 DEF IInv, OneRow, Live
<1>7. ASSUME NEW l \in LogId PROVE RowAgrees(l)'
  <2>1. CASE l = new
    BY <2>1, <1>2, <1>3, <1>5 DEF RowAgrees, Live
  <2>2. CASE l # new
    BY <2>2, <1>5 DEF IInv, TypeOK, RowAgrees, Live, OfferRow
  <2> QED
    BY <2>1, <2>2
<1> QED
  BY <1>4, <1>6, <1>7 DEF IInv

-----------------------------------------------------------------------------
\* offerNextAutoCaptainTx, called with no row of o open, keeps the invariant.
LEMMA OfferNextKeeps ==
    ASSUME IInv, UNCHANGED captain,
           NEW o \in Order, NEW row \in OrderRow, row.mode = "AUTO",
           NEW n \in 0 .. MaxAttempts,
           NEW open \in [LogId -> OfferRow \cup {NoOffer}],
           \A l \in LogId : open[l] # NoOffer =>
               Live(l) /\ open[l] = offer[l] /\ offer[l].order # o,
           rounds' = [rounds EXCEPT ![o] = n],
           OfferNext(o, row, open, n)
    PROVE  IInv'
<1>1. captain' \in [Captain -> CaptainRow]
  BY DEF IInv, TypeOK
<1>2. CASE /\ order' = [order EXCEPT ![o] = Released(row)]
           /\ offer' = open
  <2>1. Released(row) \in OrderRow
    BY RowTypes
  <2> QED
    BY <1>1, <1>2, <2>1, OrderRewritten
<1>3. CASE /\ n < MaxAttempts
           /\ \E c \in AutoPool([order EXCEPT ![o] = row], captain), l \in LogId :
                /\ ~Live(l)
                /\ Picked(c, AutoPool([order EXCEPT ![o] = row], captain), o, n)
                /\ order' = [order EXCEPT ![o] = AssignedTo(row, c, "AUTO")]
                /\ offer' = [open EXCEPT ![l] = NewOffer(o, c, "AUTO")]
  <2>1. PICK c \in Captain, l \in LogId :
                /\ ~Live(l)
                /\ order' = [order EXCEPT ![o] = AssignedTo(row, c, "AUTO")]
                /\ offer' = [open EXCEPT ![l] = NewOffer(o, c, "AUTO")]
    BY <1>3 DEF AutoPool
  <2>2. "AUTO" \in Kind
    BY DEF Kind
  <2> QED
    BY <1>1, <1>3, <2>1, <2>2, OrderOffered
<1> QED
  BY <1>2, <1>3 DEF OfferNext

\* A restart of the chain: the open rows of o are cancelled and its rounds forgotten.
LEMMA RestartKeeps ==
    ASSUME IInv, UNCHANGED captain,
           NEW o \in Order, NEW row \in OrderRow, row.mode = "AUTO",
           rounds' = [rounds EXCEPT ![o] = 0],
           OfferNext(o, row, CancelPending(o), 0)
    PROVE  IInv'
<1> DEFINE open == CancelPending(o)
<1>1. /\ open \in [LogId -> OfferRow \cup {NoOffer}]
      /\ \A l \in LogId : open[l] # NoOffer =>
             Live(l) /\ open[l] = offer[l] /\ offer[l].order # o
  BY CancelFacts DEF IInv
<1>2. OfferNext(o, row, open, 0) /\ 0 \in 0 .. MaxAttempts
  BY AttemptsAssumption
<1> HIDE DEF open
<1> QED
  BY <1>1, <1>2, OfferNextKeeps

\* The open rows of o are cancelled and its own row is rewritten.
LEMMA CancelledKeeps ==
    ASSUME IInv, captain' \in [Captain -> CaptainRow],
           NEW o \in Order, NEW row \in OrderRow,
           order' = [order EXCEPT ![o] = row],
           offer' = CancelPending(o), UNCHANGED rounds
    PROVE  IInv'
<1> DEFINE open == CancelPending(o)
<1>1. /\ open \in [LogId -> OfferRow \cup {NoOffer}]
      /\ \A l \in LogId : open[l] # NoOffer =>
             Live(l) /\ open[l] = offer[l] /\ offer[l].order # o
  BY CancelFacts DEF IInv
<1>2. offer' = open /\ rounds' = [rounds EXCEPT ![o] = rounds[o]] /\ rounds[o] \in 0 .. MaxAttempts
  BY DEF IInv, TypeOK
<1> HIDE DEF open
<1> QED
  BY <1>1, <1>2, OrderRewritten

\* A dispatcher's assignment in mode m keeps the invariant.
LEMMA AssignKeeps ==
    ASSUME IInv, NEW o \in Order, NEW c \in Captain, NEW k \in Kind,
           NEW row \in OrderRow, k # "AUTO", k = "MANUAL" => row.mode = "MANUAL",
           Assign(o, c, k, row)
    PROVE  IInv'
<1>1. PICK l \in LogId :
         ~Live(l) /\ offer' = [CancelPending(o) EXCEPT ![l] = NewOffer(o, c, k)]
  BY DEF Assign
<1>2. /\ order' = [order EXCEPT ![o] = AssignedTo(row, c, k)]
      /\ rounds' = [rounds EXCEPT ![o] = rounds[o]]
      /\ rounds[o] \in 0 .. MaxAttempts
      /\ captain' \in [Captain -> CaptainRow]
  BY DEF Assign, IInv, TypeOK
<1>3. k # "REASSIGN" => row.mode = k
  BY DEF Kind
<1>4. TypeOK
  BY DEF IInv
<1> QED
  BY <1>1, <1>2, <1>3, <1>4, CancelFacts, OrderOffered

\* The end of a row, by a timeout or a rejection, keeps the invariant.
LEMMA AfterCloseKeeps ==
    ASSUME IInv, NEW l \in LogId, Live(l), NEW chain \in BOOLEAN,
           chain => order[offer[l].order].mode = "AUTO",
           AfterClose(l, chain)
    PROVE  IInv'
<1> DEFINE o    == offer[l].order
           open == Without(l)
<1>1. o \in Order /\ order[o] \in OrderRow /\ captain' \in [Captain -> CaptainRow]
  <2>1. offer[l] \in OfferRow
    BY DEF IInv, TypeOK, Live
  <2>2. o \in Order
    BY <2>1 DEF OfferRow
  <2> QED
    BY <2>2 DEF IInv, TypeOK, AfterClose
<1>2. RoundsAfter(l) \in 0 .. MaxAttempts
  <2>1. RowAgrees(l)
    BY DEF IInv
  <2>2. rounds[o] \in 0 .. MaxAttempts
    BY <1>1 DEF IInv, TypeOK
  <2> QED
    BY <2>1, <2>2, AttemptsAssumption DEF RoundsAfter, RowAgrees
<1>3. /\ open \in [LogId -> OfferRow \cup {NoOffer}]
      /\ \A m \in LogId : open[m] # NoOffer =>
             Live(m) /\ open[m] = offer[m] /\ offer[m].order # o
  BY CloseFacts
<1>4. UNCHANGED captain /\ rounds' = [rounds EXCEPT ![o] = RoundsAfter(l)]
  BY DEF AfterClose
<1>5. CASE chain
  <2>1. OfferNext(o, order[o], open, RoundsAfter(l))
    BY <1>5 DEF AfterClose
  <2> HIDE DEF open
  <2> QED
    BY <1>1, <1>2, <1>3, <1>4, <1>5, <2>1, OfferNextKeeps
<1>6. CASE ~chain
  <2>1. order' = [order EXCEPT ![o] = Released(order[o])] /\ offer' = open
    BY <1>6 DEF AfterClose
  <2>2. Released(order[o]) \in OrderRow
    BY <1>1, RowTypes
  <2> HIDE DEF open
  <2> QED
    BY <1>1, <1>2, <1>3, <1>4, <2>1, <2>2, OrderRewritten
<1> QED
  BY <1>5, <1>6

-----------------------------------------------------------------------------
\* A step that changes neither an open row nor an order's captain and mode.
LEMMA RowsUntouched ==
    ASSUME IInv, TypeOK', UNCHANGED <<offer, rounds>>,
           \A o \in Order : order'[o].captain = order[o].captain /\ order'[o].mode = order[o].mode
    PROVE  IInv'
<1>1. OneRow'
  BY DEF IInv, OneRow, Live
<1>2. ASSUME NEW l \in LogId PROVE RowAgrees(l)'
  BY <1>2 DEF IInv, TypeOK, RowAgrees, Live, OfferRow
<1> QED
  BY <1>1, <1>2 DEF IInv

\* A delivery leaves the captains' rows captains' rows.
LEMMA DeductType ==
    ASSUME TypeOK, NEW s, NEW c \in Captain \cup {NoCaptain}, DeductIfDelivered(s, c)
    PROVE  captain' \in [Captain -> CaptainRow]
<1>1. CASE UNCHANGED captain
  BY <1>1 DEF TypeOK
<1>2. CASE c # NoCaptain /\ captain' = [captain EXCEPT ![c].blocked = TRUE]
  BY <1>2 DEF TypeOK, CaptainRow
<1> QED
  BY <1>1, <1>2 DEF DeductIfDelivered, Deduct

\* What the dispatcher's desk may do to an order keeps the invariant.
LEMMA DispatchKeeps ==
    ASSUME IInv, NEW o \in Order, Dispatch(o)
    PROVE  IInv'
<1>1. TypeOK /\ order[o] \in OrderRow /\ rounds[o] \in 0 .. MaxAttempts
      /\ order[o].captain \in Captain \cup {NoCaptain} /\ order[o].mode \in {"AUTO", "MANUAL"}
  BY DEF IInv, TypeOK, OrderRow
<1>3. captain \in [Captain -> CaptainRow]
  BY <1>1 DEF TypeOK
<1>4. CASE StartAuto(o)
  BY <1>1, <1>4, RestartKeeps DEF StartAuto
<1>5. CASE Resend(o)
  <2> DEFINE row == [Released(order[o]) EXCEPT !.mode = "AUTO"]
  <2>1. row \in OrderRow /\ row.mode = "AUTO"
    BY <1>1, RowTypes DEF OrderRow
  <2>2. /\ rounds' = [rounds EXCEPT ![o] = 0] /\ UNCHANGED captain
        /\ OfferNext(o, row, CancelPending(o), 0)
    BY <1>5 DEF Resend
  <2> HIDE DEF row
  <2> QED
    BY <2>1, <2>2, RestartKeeps
<1>6. CASE CancelAssignment(o)
  <2>1. Detached(order[o], "CONFIRMED") \in OrderRow
    BY <1>1, RowTypes DEF OrderStatus
  <2> QED
    BY <1>3, <1>6, <2>1, CancelledKeeps DEF CancelAssignment
<1>7. ASSUME NEW c \in Captain, AssignManual(o, c) PROVE IInv'
  <2>1. [order[o] EXCEPT !.mode = "MANUAL"] \in OrderRow
        /\ [order[o] EXCEPT !.mode = "MANUAL"].mode = "MANUAL"
    BY <1>1 DEF OrderRow
  <2>2. Assign(o, c, "MANUAL", [order[o] EXCEPT !.mode = "MANUAL"])
    BY <1>7 DEF AssignManual
  <2>3. "MANUAL" \in Kind
    BY DEF Kind
  <2> QED
    BY <2>1, <2>2, <2>3, AssignKeeps
<1>8. ASSUME NEW c \in Captain, Reassign(o, c) PROVE IInv'
  <2>1. Assign(o, c, "REASSIGN", order[o]) /\ "REASSIGN" \in Kind
    BY <1>8 DEF Reassign, Kind
  <2> QED
    BY <1>1, <2>1, AssignKeeps
<1>9. ASSUME NEW s \in OrderStatus, StaffSetStatus(o, s) PROVE IInv'
  <2>1. captain' \in [Captain -> CaptainRow]
    BY <1>1, <1>9, DeductType DEF StaffSetStatus
  <2>2. order' = [order EXCEPT ![o].status = s] /\ UNCHANGED <<offer, rounds>>
    BY <1>9 DEF StaffSetStatus
  <2>3. TypeOK'
    BY <1>1, <2>1, <2>2 DEF TypeOK, OrderRow
  <2> QED
    BY <1>1, <2>2, <2>3, RowsUntouched DEF TypeOK, OrderRow
<1>10. ASSUME NEW s \in OrderStatus, AdminOverride(o, s) PROVE IInv'
  <2>1. captain' \in [Captain -> CaptainRow]
    BY <1>1, <1>10, DeductType DEF AdminOverride
  <2>2. offer' = CancelPending(o) /\ UNCHANGED rounds
    BY <1>10 DEF AdminOverride
  <2>3. CASE order' = [order EXCEPT ![o].status = s]
    <3>1. [order[o] EXCEPT !.status = s] \in OrderRow
      BY <1>1 DEF OrderRow
    <3>2. order' = [order EXCEPT ![o] = [order[o] EXCEPT !.status = s]]
      BY <1>1, <2>3 DEF TypeOK
    <3> QED
      BY <2>1, <2>2, <3>1, <3>2, CancelledKeeps
  <2>4. CASE order' = [order EXCEPT ![o] = [Detached(order[o], s) EXCEPT
                                !.mode = IF s = "PENDING" THEN "AUTO" ELSE @]]
    <3> DEFINE row == [Detached(order[o], s) EXCEPT
                                !.mode = IF s = "PENDING" THEN "AUTO" ELSE @]
    <3>1. row \in OrderRow
      BY <1>1, RowTypes DEF OrderRow
    <3>2. order' = [order EXCEPT ![o] = row]
      BY <2>4
    <3> HIDE DEF row
    <3> QED
      BY <2>1, <2>2, <3>1, <3>2, CancelledKeeps
  <2> QED
    BY <1>10, <2>3, <2>4 DEF AdminOverride
<1>11. CASE Archive(o)
  <2>1. UNCHANGED <<rounds, captain>>
    BY <1>11 DEF Archive
  <2>2. CASE /\ order' = [order EXCEPT ![o] =
                             [Detached(order[o], "CONFIRMED") EXCEPT !.archived = TRUE]]
             /\ offer' = CancelPending(o)
    <3> DEFINE row == [Detached(order[o], "CONFIRMED") EXCEPT !.archived = TRUE]
    <3>1. Detached(order[o], "CONFIRMED") \in OrderRow
      BY <1>1, RowTypes DEF OrderStatus
    <3>2. row \in OrderRow /\ order' = [order EXCEPT ![o] = row]
      BY <2>2, <3>1 DEF OrderRow
    <3> HIDE DEF row
    <3> QED
      BY <1>3, <2>1, <2>2, <3>2, CancelledKeeps
  <2>3. CASE order' = [order EXCEPT ![o].archived = TRUE] /\ UNCHANGED offer
    <3>1. TypeOK'
      BY <1>1, <2>1, <2>3 DEF TypeOK, OrderRow
    <3> QED
      BY <1>1, <2>1, <2>3, <3>1, RowsUntouched DEF TypeOK, OrderRow
  <2> QED
    BY <1>11, <2>2, <2>3 DEF Archive
<1>12. CASE Unarchive(o)
  <2>1. order' = [order EXCEPT ![o].archived = FALSE] /\ UNCHANGED <<offer, rounds, captain>>
    BY <1>12 DEF Unarchive
  <2>2. TypeOK'
    BY <1>1, <2>1 DEF TypeOK, OrderRow
  <2> QED
    BY <1>1, <2>1, <2>2, RowsUntouched DEF TypeOK, OrderRow
<1> QED
  BY <1>4, <1>5, <1>6, <1>7, <1>8, <1>9, <1>10, <1>11, <1>12 DEF Dispatch

\* What a captain does, and the tick, keeps the invariant.
LEMMA CaptainKeeps ==
    ASSUME IInv, NEW l \in LogId, Accept(l) \/ Reject(l) \/ Expire(l) \/ WindowElapses(l)
    PROVE  IInv'
<1>1. TypeOK /\ Live(l) /\ offer[l].order \in Order /\ offer[l] \in OfferRow
  <2>1. Live(l)
    BY DEF Accept, Reject, Expire, WindowElapses, Answerable
  <2>2. offer[l] \in OfferRow
    BY <2>1 DEF IInv, TypeOK, Live
  <2> QED
    BY <2>1, <2>2 DEF IInv, OfferRow
<1> DEFINE o == offer[l].order
<1>2. order[o] \in OrderRow /\ rounds = [rounds EXCEPT ![o] = rounds[o]] /\ rounds[o] \in 0 .. MaxAttempts
  BY <1>1 DEF TypeOK
<1>3. captain \in [Captain -> CaptainRow]
  BY <1>1 DEF TypeOK
<1>4. CASE Accept(l)
  <2>1. [order[o] EXCEPT !.status = "ACCEPTED"] \in OrderRow
    BY <1>2 DEF OrderRow, OrderStatus
  <2>2. /\ order' = [order EXCEPT ![o] = [order[o] EXCEPT !.status = "ACCEPTED"]]
        /\ offer' = CancelPending(o) /\ UNCHANGED <<rounds, captain>>
    BY <1>1, <1>4 DEF Accept, TypeOK
  <2> QED
    BY <1>1, <1>3, <2>1, <2>2, CancelledKeeps
<1>5. CASE Reject(l)
  <2>1. CASE /\ rounds' = [rounds EXCEPT ![o] = RoundsAfter(l)]
             /\ offer' = Without(l)
             /\ UNCHANGED <<order, captain>>
    <3>1. RoundsAfter(l) \in 0 .. MaxAttempts
      BY <1>1, <1>2, AttemptsAssumption DEF RoundsAfter, IInv, RowAgrees
    <3>2. order' = [order EXCEPT ![o] = order[o]]
      BY <1>1, <2>1 DEF TypeOK
    <3> DEFINE open == Without(l)
    <3>3. /\ open \in [LogId -> OfferRow \cup {NoOffer}]
          /\ \A m \in LogId : open[m] # NoOffer =>
                 Live(m) /\ open[m] = offer[m] /\ offer[m].order # o
      BY <1>1, CloseFacts
    <3>4. offer' = open
      BY <2>1
    <3> HIDE DEF open
    <3> QED
      <4>1. rounds' = [rounds EXCEPT ![o] = RoundsAfter(l)] /\ captain' \in [Captain -> CaptainRow]
        BY <1>3, <2>1
      <4>2. o \in Order
        BY <1>1
      <4> HIDE DEF o
      <4> QED
        BY <1>2, <3>1, <3>2, <3>3, <3>4, <4>1, <4>2, OrderRewritten
  <2>2. CASE AfterClose(l, order[o].mode = "AUTO")
    BY <1>1, <2>2, AfterCloseKeeps
  <2> QED
    BY <1>5, <2>1, <2>2 DEF Reject
<1>6. CASE Expire(l)
  BY <1>1, <1>6, AfterCloseKeeps DEF Expire
<1>7. CASE WindowElapses(l)
  <2>1. offer' = [offer EXCEPT ![l].due = TRUE] /\ UNCHANGED <<order, rounds, captain>>
    BY <1>7 DEF WindowElapses
  <2>2. [offer[l] EXCEPT !.due = TRUE] \in OfferRow
    BY <1>1 DEF OfferRow
  <2>3. [offer[l] EXCEPT !.due = TRUE] # NoOffer
    BY <2>2, NoOfferAssumption
  <2>4. TypeOK'
    BY <1>1, <2>1, <2>2 DEF TypeOK
  <2>5. \A m \in LogId : /\ Live(m)' <=> Live(m)
                         /\ Live(m) => /\ offer'[m].order = offer[m].order
                                       /\ offer'[m].captain = offer[m].captain
                                       /\ offer'[m].kind = offer[m].kind
    BY <1>1, <2>1, <2>3 DEF TypeOK, Live, OfferRow
  <2> QED
    BY <2>1, <2>4, <2>5 DEF IInv, OneRow, RowAgrees
<1> QED
  BY <1>4, <1>5, <1>6, <1>7

-----------------------------------------------------------------------------
LEMMA InitIInv == Init => IInv
<1> SUFFICES ASSUME Init PROVE IInv
  OBVIOUS
<1>1. TypeOK
  <2>1. NewOrder \subseteq OrderRow
    BY DEF NewOrder, OrderRow, OrderStatus, Kind
  <2>2. order \in [Order -> OrderRow]
    BY <2>1 DEF Init
  <2>3. offer \in [LogId -> OfferRow \cup {NoOffer}]
    BY DEF Init
  <2>4. rounds \in [Order -> 0 .. MaxAttempts]
    BY AttemptsAssumption DEF Init
  <2>5. captain \in [Captain -> CaptainRow]
    BY DEF Init, CaptainRow
  <2> QED
    BY <2>2, <2>3, <2>4, <2>5 DEF TypeOK
<1>2. \A l \in LogId : ~Live(l)
  BY DEF Init, Live
<1> QED
  BY <1>1, <1>2 DEF IInv, OneRow, RowAgrees

\* Every step keeps the invariant.
LEMMA NextIInv == IInv /\ [Next]_vars => IInv'
<1> SUFFICES ASSUME IInv, [Next]_vars PROVE IInv'
  OBVIOUS
<1>1. CASE \E o \in Order : Dispatch(o)
  BY <1>1, DispatchKeeps
<1>2. ASSUME NEW o \in Order, NEW s \in OrderStatus, CaptainSetStatus(o, s) PROVE IInv'
  <2>1. /\ order' = [order EXCEPT ![o].status = s]
        /\ DeductIfDelivered(s, order[o].captain)
        /\ UNCHANGED <<offer, rounds>>
    BY <1>2 DEF CaptainSetStatus
  <2>2. TypeOK /\ order[o] \in OrderRow /\ order[o].captain \in Captain \cup {NoCaptain}
    BY DEF IInv, TypeOK, OrderRow
  <2>3. captain' \in [Captain -> CaptainRow]
    BY <2>1, <2>2, DeductType
  <2>4. TypeOK'
    BY <2>1, <2>2, <2>3 DEF TypeOK, OrderRow
  <2> QED
    BY <2>1, <2>2, <2>4, RowsUntouched DEF TypeOK, OrderRow
<1>3. CASE \E l \in LogId : Accept(l) \/ Reject(l) \/ Expire(l) \/ WindowElapses(l)
  BY <1>3, CaptainKeeps
<1>4. CASE CaptainRowChange
  <2>1. UNCHANGED <<order, offer, rounds>>
    BY <1>4 DEF CaptainRowChange, SetActive, SetAvailability, BalanceMoves
  <2>2. captain' \in [Captain -> CaptainRow]
    BY <1>4 DEF CaptainRowChange, SetActive, SetAvailability, BalanceMoves, IInv, TypeOK, CaptainRow
  <2>3. TypeOK'
    BY <2>1, <2>2 DEF IInv, TypeOK
  <2> QED
    BY <2>1, <2>3, RowsUntouched
<1>5. CASE UNCHANGED vars
  BY <1>5 DEF vars, IInv, TypeOK, OneRow, RowAgrees, Live
<1> QED
  BY <1>1, <1>2, <1>3, <1>4, <1>5 DEF Next

\* IInv holds in every reachable state.
THEOREM Invariance == Spec => []IInv
BY InitIInv, NextIInv, PTL DEF Spec

\* Every variable keeps its type; the count of completed attempts never exceeds MaxAttempts.
THEOREM TypeCorrect == Spec => []TypeOK
<1>1. IInv => TypeOK
  BY DEF IInv
<1> QED
  BY <1>1, Invariance, PTL

\* An order has at most one open assignment row, and it is its captain's.
THEOREM SingleOffer == Spec => []OneOpenOffer
<1>1. IInv => OneOpenOffer
  BY IInvParts
<1> QED
  BY <1>1, Invariance, PTL

\* An automatic offer is open only while an attempt is left.
THEOREM ChainBounded == Spec => []AttemptsBounded
<1>1. IInv => AttemptsBounded
  BY IInvParts
<1> QED
  BY <1>1, Invariance, PTL

\* An open row's type agrees with its order's mode, by which the timeout decides.
THEOREM ModeAgrees == Spec => []ModeOfOffer
<1>1. IInv => ModeOfOffer
  BY IInvParts
<1> QED
  BY <1>1, Invariance, PTL

-----------------------------------------------------------------------------
(* What needs StaffTargets = {}: nobody writes statuses past the engine. *)

\* The steps of an order, as the next lemmas see them: its open rows are gone and it is
\* not ASSIGNED, or it is ASSIGNED with a new row and an automatic one only if its
\* captain was free.
Moved(o) ==
    /\ \A p \in Order \ {o} : order'[p] = order[p]
    /\ \A l \in LogId : Live(l) /\ offer[l].order # o => offer'[l] = offer[l]
    /\ \/ /\ order'[o].status # "ASSIGNED"
          /\ order'[o].status \in Working =>
                /\ order[o].status \in Working
                /\ order'[o].captain = order[o].captain
                /\ order'[o].by = order[o].by
          /\ \A l \in LogId : Live(l)' => Live(l) /\ offer[l].order # o
       \/ /\ order'[o].status = "ASSIGNED" /\ ~order'[o].archived
          /\ \E l \in LogId :
                /\ ~Live(l) /\ Live(l)' /\ offer'[l].order = o
                /\ \A m \in LogId \ {l} : Live(m)' => Live(m) /\ offer[m].order # o
          /\ order'[o].by = "AUTO" =>
                \A p \in Order \ {o} :
                    ~(order[p].captain = order'[o].captain /\ order[p].status \in Working)

Served == AssignedIffOffered /\ OfferedUnarchived /\ SingleAutoOrder

LEMMA MovedServes ==
    ASSUME IInv, Served, NEW o \in Order, Moved(o), IInv'
    PROVE  Served'
<1>1. AssignedIffOffered'
  <2> SUFFICES ASSUME NEW p \in Order
               PROVE  order'[p].status = "ASSIGNED" <=> \E l \in LogId : Live(l)' /\ offer'[l].order = p
    BY DEF AssignedIffOffered, Live
  <2>1. CASE p = o
    BY <2>1 DEF Moved, Live
  <2>2. CASE p # o
    <3>1. ASSUME NEW l \in LogId, Live(l), offer[l].order = p PROVE Live(l)' /\ offer'[l].order = p
      BY <2>2, <3>1 DEF Moved, Live
    <3>2. ASSUME NEW l \in LogId, Live(l)', offer'[l].order = p PROVE Live(l) /\ offer[l].order = p
      BY <2>2, <3>2 DEF Moved, Live
    <3> QED
      BY <2>2, <3>1, <3>2 DEF Served, AssignedIffOffered, Moved
  <2> QED
    BY <2>1, <2>2
<1>2. SingleAutoOrder'
  BY DEF Moved, Served, SingleAutoOrder, Working
<1>3. OfferedUnarchived'
  BY DEF Moved, Served, OfferedUnarchived
<1> QED
  BY <1>1, <1>2, <1>3 DEF Served

\* A step that touches no order's status, captain or row, but the captains' or a window.
LEMMA StillServes ==
    ASSUME IInv, Served, UNCHANGED order,
           \A l \in LogId : (Live(l)' <=> Live(l)) /\ (Live(l) => offer'[l].order = offer[l].order)
    PROVE  Served'
<1>1. AssignedIffOffered'
  BY DEF Served, AssignedIffOffered, Live
<1>2. SingleAutoOrder' /\ OfferedUnarchived'
  BY DEF Served, SingleAutoOrder, OfferedUnarchived
<1> QED
  BY <1>1, <1>2 DEF Served

\* A step that only marks an order as archived, or takes the mark away.
LEMMA MarkedServes ==
    ASSUME IInv, Served, NEW o \in Order, NEW b \in BOOLEAN,
           order' = [order EXCEPT ![o].archived = b], UNCHANGED offer,
           b => order[o].status # "ASSIGNED"
    PROVE  Served'
<1>1. \A p \in Order : /\ order'[p].status = order[p].status
                       /\ order'[p].captain = order[p].captain
                       /\ order'[p].by = order[p].by
  BY DEF IInv, TypeOK, OrderRow
<1>2. AssignedIffOffered'
  BY <1>1 DEF Served, AssignedIffOffered, Live
<1>3. SingleAutoOrder'
  BY <1>1 DEF Served, SingleAutoOrder
<1>4. OfferedUnarchived'
  BY <1>1 DEF Served, OfferedUnarchived, IInv, TypeOK, OrderRow
<1> QED
  BY <1>2, <1>3, <1>4 DEF Served

\* The moves of order o that close all its rows and leave it unassigned.
LEMMA DetachMoves ==
    ASSUME IInv, NEW o \in Order, NEW row,
           order' = [order EXCEPT ![o] = row],
           row.status \notin Working,
           NEW open, offer' = open,
           \A l \in LogId : (open[l] # NoOffer => Live(l) /\ offer[l].order # o)
                            /\ (Live(l) /\ offer[l].order # o => open[l] = offer[l])
    PROVE  Moved(o)
<1>1. /\ order'[o] = row
      /\ \A p \in Order \ {o} : order'[p] = order[p]
  BY DEF IInv, TypeOK
<1>2. row.status # "ASSIGNED"
  BY DEF Working
<1> QED
  BY <1>1, <1>2 DEF Moved, Live

\* What becomes of the open rows when those of o are cancelled.
LEMMA CancelExact ==
    ASSUME TypeOK, NEW o \in Order
    PROVE  \A l \in LogId : (CancelPending(o)[l] # NoOffer => Live(l) /\ offer[l].order # o)
                            /\ (Live(l) /\ offer[l].order # o => CancelPending(o)[l] = offer[l])
BY DEF TypeOK, CancelPending, Live

\* The moves that offer order o to a captain.
LEMMA OfferMoves ==
    ASSUME IInv, NEW o \in Order, NEW row \in OrderRow, ~row.archived,
           NEW c \in Captain, NEW k \in Kind,
           NEW open \in [LogId -> OfferRow \cup {NoOffer}],
           \A l \in LogId : (open[l] # NoOffer => Live(l) /\ offer[l].order # o)
                            /\ (Live(l) /\ offer[l].order # o => open[l] = offer[l]),
           NEW new \in LogId, ~Live(new),
           order' = [order EXCEPT ![o] = AssignedTo(row, c, k)],
           offer' = [open EXCEPT ![new] = NewOffer(o, c, k)],
           k = "AUTO" => \A p \in Order \ {o} :
                             ~(order[p].captain = c /\ order[p].status \in Working)
    PROVE  Moved(o)
<1>1. /\ order'[o].status = "ASSIGNED" /\ order'[o].captain = c /\ order'[o].by = k
      /\ ~order'[o].archived
      /\ \A p \in Order \ {o} : order'[p] = order[p]
  <2>1. order'[o] = AssignedTo(row, c, k)
    BY DEF IInv, TypeOK
  <2>2. /\ AssignedTo(row, c, k).status = "ASSIGNED" /\ AssignedTo(row, c, k).captain = c
        /\ AssignedTo(row, c, k).by = k /\ AssignedTo(row, c, k).archived = row.archived
    BY DEF AssignedTo, OrderRow
  <2> QED
    BY <2>1, <2>2 DEF IInv, TypeOK
<1>2. NewOffer(o, c, k) # NoOffer /\ NewOffer(o, c, k).order = o
  <2>1. NewOffer(o, c, k) \in OfferRow
    BY DEF NewOffer, OfferRow
  <2> QED
    BY <2>1, NoOfferAssumption DEF NewOffer
<1>3. /\ offer'[new] = NewOffer(o, c, k)
      /\ \A l \in LogId \ {new} : offer'[l] = open[l]
  OBVIOUS
<1>4. \A l \in LogId : Live(l) /\ offer[l].order # o => offer'[l] = offer[l]
  BY <1>3
<1>5. /\ ~Live(new) /\ Live(new)' /\ offer'[new].order = o
      /\ \A m \in LogId \ {new} : Live(m)' => Live(m) /\ offer[m].order # o
  BY <1>2, <1>3 DEF Live
<1> QED
  BY <1>1, <1>4, <1>5 DEF Moved

\* offerNextAutoCaptainTx either offers o to a captain who works on nothing else or
\* leaves it unassigned.
LEMMA OfferNextMoves ==
    ASSUME IInv, NEW o \in Order, NEW row \in OrderRow, ~row.archived,
           NEW open \in [LogId -> OfferRow \cup {NoOffer}],
           \A l \in LogId : (open[l] # NoOffer => Live(l) /\ offer[l].order # o)
                            /\ (Live(l) /\ offer[l].order # o => open[l] = offer[l]),
           NEW n, OfferNext(o, row, open, n)
    PROVE  Moved(o)
<1>1. CASE /\ order' = [order EXCEPT ![o] = Released(row)]
           /\ offer' = open
  <2>1. Released(row).status \notin Working
    BY DEF Released, Detached, Working, OrderRow
  <2> QED
    BY <1>1, <2>1, DetachMoves
<1>2. ASSUME NEW c \in AutoPool([order EXCEPT ![o] = row], captain), NEW l \in LogId, ~Live(l),
             order' = [order EXCEPT ![o] = AssignedTo(row, c, "AUTO")],
             offer' = [open EXCEPT ![l] = NewOffer(o, c, "AUTO")]
      PROVE  Moved(o)
  <2>1. c \in Captain /\ ~Busy(c, [order EXCEPT ![o] = row]) /\ "AUTO" \in Kind
    BY DEF AutoPool, Kind
  <2>2. \A p \in Order \ {o} : ~(order[p].captain = c /\ order[p].status \in Working)
    BY <2>1 DEF Busy, IInv, TypeOK
  <2> QED
    BY <1>2, <2>1, <2>2, OfferMoves
<1> QED
  BY <1>1, <1>2 DEF OfferNext

\* Every step of the desk is such a move, or touches neither status nor rows.
LEMMA DispatchMoves ==
    ASSUME IInv, Served, StaffTargets = {}, NEW o \in Order, Dispatch(o), IInv'
    PROVE  Served'
<1>1. TypeOK /\ order[o] \in OrderRow
  BY DEF IInv, TypeOK
<1> DEFINE open == CancelPending(o)
<1>2. open \in [LogId -> OfferRow \cup {NoOffer}]
  BY <1>1, CancelFacts
<1>3. \A l \in LogId : (open[l] # NoOffer => Live(l) /\ offer[l].order # o)
                       /\ (Live(l) /\ offer[l].order # o => open[l] = offer[l])
  BY <1>1, CancelExact
<1>4. CASE StartAuto(o)
  <2>1. OfferNext(o, order[o], open, 0) /\ ~order[o].archived
    BY <1>4 DEF StartAuto
  <2> HIDE DEF open
  <2> QED
    BY <1>1, <1>2, <1>3, <2>1, OfferNextMoves, MovedServes
<1>5. CASE Resend(o)
  <2>1. /\ [Released(order[o]) EXCEPT !.mode = "AUTO"] \in OrderRow
        /\ [Released(order[o]) EXCEPT !.mode = "AUTO"].archived = FALSE
    BY <1>1, <1>5, RowTypes DEF OrderRow, Resend, Released, Detached
  <2>2. OfferNext(o, [Released(order[o]) EXCEPT !.mode = "AUTO"], open, 0)
    BY <1>5 DEF Resend
  <2> HIDE DEF open
  <2> QED
    BY <1>2, <1>3, <2>1, <2>2, OfferNextMoves, MovedServes
<1>6. CASE CancelAssignment(o)
  <2>1. /\ order' = [order EXCEPT ![o] = Detached(order[o], "CONFIRMED")]
        /\ offer' = open
    BY <1>6 DEF CancelAssignment
  <2>2. Detached(order[o], "CONFIRMED").status \notin Working
    BY <1>1 DEF Detached, Working, OrderRow
  <2> HIDE DEF open
  <2> QED
    BY <1>3, <2>1, <2>2, DetachMoves, MovedServes
<1>7. ASSUME NEW c \in Captain, NEW k \in Kind, k # "AUTO", NEW row \in OrderRow, ~row.archived,
             Assign(o, c, k, row)
      PROVE  Served'
  <2>1. PICK l \in LogId : ~Live(l) /\ offer' = [open EXCEPT ![l] = NewOffer(o, c, k)]
    BY <1>7 DEF Assign
  <2>2. order' = [order EXCEPT ![o] = AssignedTo(row, c, k)]
    BY <1>7 DEF Assign
  <2> HIDE DEF open
  <2> QED
    BY <1>2, <1>3, <1>7, <2>1, <2>2, OfferMoves, MovedServes
<1>8. CASE \E c \in Captain : AssignManual(o, c) \/ Reassign(o, c)
  <2>1. ~order[o].archived
    BY <1>8 DEF AssignManual, Reassign, Assign
  <2>2. /\ [order[o] EXCEPT !.mode = "MANUAL"] \in OrderRow
        /\ ~[order[o] EXCEPT !.mode = "MANUAL"].archived
    BY <1>1, <2>1 DEF OrderRow
  <2>3. {"MANUAL", "REASSIGN"} \subseteq Kind
    BY DEF Kind
  <2> QED
    BY <1>1, <1>7, <1>8, <2>1, <2>2, <2>3 DEF AssignManual, Reassign
<1>9. CASE \E s \in OrderStatus : StaffSetStatus(o, s)
  BY <1>9 DEF StaffSetStatus
<1>10. ASSUME NEW s \in OrderStatus, AdminOverride(o, s) PROVE Served'
  <2>1. offer' = open /\ s \in OverrideTargets
    BY <1>10 DEF AdminOverride
  <2>2. s \notin Working
    BY <2>1 DEF OverrideTargets, Working
  <2>3. PICK row : order' = [order EXCEPT ![o] = row] /\ row.status = s
    <3>1. CASE order' = [order EXCEPT ![o].status = s]
      <4>1. order' = [order EXCEPT ![o] = [order[o] EXCEPT !.status = s]]
        BY <1>1, <3>1 DEF TypeOK
      <4>2. [order[o] EXCEPT !.status = s].status = s
        BY <1>1 DEF OrderRow
      <4> QED
        BY <4>1, <4>2
    <3>2. CASE order' = [order EXCEPT ![o] = [Detached(order[o], s) EXCEPT
                                !.mode = IF s = "PENDING" THEN "AUTO" ELSE @]]
      <4>1. [Detached(order[o], s) EXCEPT !.mode = IF s = "PENDING" THEN "AUTO" ELSE @].status = s
        BY <1>1 DEF Detached, OrderRow
      <4> QED
        BY <3>2, <4>1
    <3> QED
      BY <1>10, <3>1, <3>2 DEF AdminOverride
  <2> HIDE DEF open
  <2> QED
    BY <1>3, <2>1, <2>2, <2>3, DetachMoves, MovedServes
<1>11. CASE Archive(o)
  <2>1. CASE /\ order' = [order EXCEPT ![o] =
                             [Detached(order[o], "CONFIRMED") EXCEPT !.archived = TRUE]]
             /\ offer' = open
    <3>1. [Detached(order[o], "CONFIRMED") EXCEPT !.archived = TRUE].status \notin Working
      BY <1>1 DEF Detached, Working, OrderRow
    <3> HIDE DEF open
    <3> QED
      BY <1>3, <2>1, <3>1, DetachMoves, MovedServes
  <2>2. CASE order' = [order EXCEPT ![o].archived = TRUE] /\ UNCHANGED offer
    <3>1. ASSUME order[o].status = "ASSIGNED" PROVE order[o].captain # NoCaptain
      <4>1. PICK l \in LogId : Live(l) /\ offer[l].order = o
        BY <3>1 DEF Served, AssignedIffOffered
      <4>2. offer[l] \in OfferRow /\ order[o].captain = offer[l].captain
        BY <4>1 DEF IInv, TypeOK, Live, RowAgrees
      <4> QED
        BY <4>2, CaptainAssumption DEF OfferRow
    <3>2. CASE order[o].status # "ASSIGNED"
      BY <2>2, <3>2, MarkedServes
    <3>3. CASE order[o].captain # NoCaptain /\ order[o].status = "ASSIGNED"
      BY <1>11, <2>1, <3>3 DEF Archive
    <3> QED
      BY <3>1, <3>2, <3>3
  <2> QED
    BY <1>11, <2>1, <2>2 DEF Archive
<1>12. CASE Unarchive(o)
  BY <1>12, MarkedServes DEF Unarchive
<1> QED
  BY <1>4, <1>5, <1>6, <1>8, <1>9, <1>10, <1>11, <1>12 DEF Dispatch

\* A captain's move along the delivery chain.
LEMMA DeliveryServes ==
    ASSUME IInv, Served, NEW o \in Order, NEW s, CaptainSetStatus(o, s)
    PROVE  Served'
<1>1. /\ order' = [order EXCEPT ![o].status = s] /\ UNCHANGED offer
      /\ <<order[o].status, s>> \in DeliveryChain
  BY DEF CaptainSetStatus
<1>2. /\ order[o].status \in Working /\ order[o].status # "ASSIGNED" /\ s # "ASSIGNED"
  BY <1>1 DEF DeliveryChain, Working
<1>3. \A p \in Order : /\ order'[p].captain = order[p].captain
                       /\ order'[p].by = order[p].by
                       /\ p # o => order'[p].status = order[p].status
  BY <1>1 DEF IInv, TypeOK, OrderRow
<1>4. order'[o].status = s
  BY <1>1 DEF IInv, TypeOK, OrderRow
<1>5. AssignedIffOffered'
  BY <1>1, <1>2, <1>3, <1>4 DEF Served, AssignedIffOffered, Live
<1>6. SingleAutoOrder'
  BY <1>2, <1>3, <1>4 DEF Served, SingleAutoOrder
<1>7. OfferedUnarchived'
  BY <1>1, <1>2, <1>4 DEF Served, OfferedUnarchived, IInv, TypeOK
<1> QED
  BY <1>5, <1>6, <1>7 DEF Served

\* A row that is open is its order's only one, and the order is ASSIGNED.
LEMMA RowMeansAssigned ==
    ASSUME IInv, Served, NEW l \in LogId, Live(l)
    PROVE  /\ offer[l] \in OfferRow /\ offer[l].order \in Order
           /\ order[offer[l].order] \in OrderRow
           /\ order[offer[l].order].status = "ASSIGNED"
           /\ ~order[offer[l].order].archived
<1>1. offer[l] \in OfferRow
  BY DEF IInv, TypeOK, Live
<1> QED
  BY <1>1 DEF IInv, TypeOK, OfferRow, Served, AssignedIffOffered, OfferedUnarchived

\* A captain's answer and the tick.
LEMMA AnswerServes ==
    ASSUME IInv, Served, IInv', NEW l \in LogId,
           Accept(l) \/ Reject(l) \/ Expire(l) \/ WindowElapses(l)
    PROVE  Served'
<1> DEFINE o == offer[l].order
<1>1. Live(l) /\ TypeOK
  BY DEF Accept, Reject, Expire, WindowElapses, Answerable, IInv
<1>2. /\ o \in Order /\ order[o] \in OrderRow
      /\ order[o].status = "ASSIGNED" /\ ~order[o].archived
  BY <1>1, RowMeansAssigned
<1>3. CASE Accept(l)
  <2> DEFINE row  == [order[o] EXCEPT !.status = "ACCEPTED"]
             open == CancelPending(o)
  <2>1. row.status = "ACCEPTED" /\ row.captain = order[o].captain /\ row.by = order[o].by
    BY <1>2 DEF OrderRow
  <2>2. order' = [order EXCEPT ![o] = row] /\ offer' = open
    BY <1>1, <1>2, <1>3 DEF Accept, TypeOK
  <2>3. \A m \in LogId : (open[m] # NoOffer => Live(m) /\ offer[m].order # o)
                         /\ (Live(m) /\ offer[m].order # o => open[m] = offer[m])
    BY <1>1, <1>2, CancelExact
  <2> HIDE DEF row, open
  <2>4. Moved(o)
    BY <1>1, <1>2, <2>1, <2>2, <2>3 DEF Moved, Live, TypeOK, Working
  <2> QED
    BY <1>2, <2>4, MovedServes
<1>4. ASSUME NEW chain \in BOOLEAN, AfterClose(l, chain) PROVE Served'
  <2> DEFINE open == Without(l)
  <2>1. open \in [LogId -> OfferRow \cup {NoOffer}]
    BY <1>1 DEF TypeOK, Without
  <2>2. \A m \in LogId : (open[m] # NoOffer => Live(m) /\ offer[m].order # o)
                         /\ (Live(m) /\ offer[m].order # o => open[m] = offer[m])
    BY <1>1 DEF IInv, TypeOK, OneRow, Live, Without
  <2>3. CASE chain
    <3>1. OfferNext(o, order[o], open, RoundsAfter(l))
      BY <1>4, <2>3 DEF AfterClose
    <3> HIDE DEF open
    <3> QED
      BY <1>2, <2>1, <2>2, <3>1, OfferNextMoves, MovedServes
  <2>4. CASE ~chain
    <3>1. order' = [order EXCEPT ![o] = Released(order[o])] /\ offer' = open
      BY <1>4, <2>4 DEF AfterClose
    <3>2. Released(order[o]).status \notin Working
      BY <1>2 DEF Released, Detached, Working, OrderRow
    <3> HIDE DEF open
    <3> QED
      BY <1>2, <2>2, <3>1, <3>2, DetachMoves, MovedServes
  <2> QED
    BY <2>3, <2>4
<1>5. CASE Reject(l) \/ Expire(l)
  <2>1. \E chain \in BOOLEAN : AfterClose(l, chain)
    BY <1>2, <1>5 DEF Reject, Expire
  <2> QED
    BY <1>4, <2>1
<1>6. CASE WindowElapses(l)
  <2>1. offer' = [offer EXCEPT ![l].due = TRUE] /\ UNCHANGED order
    BY <1>6 DEF WindowElapses
  <2>2. [offer[l] EXCEPT !.due = TRUE] \in OfferRow
    BY <1>1 DEF TypeOK, Live, OfferRow
  <2>3. [offer[l] EXCEPT !.due = TRUE] # NoOffer
    BY <2>2, NoOfferAssumption
  <2>4. \A m \in LogId : /\ Live(m)' <=> Live(m)
                         /\ Live(m) => offer'[m].order = offer[m].order
    BY <1>1, <2>1, <2>3 DEF TypeOK, Live, OfferRow
  <2> QED
    BY <2>1, <2>4, StillServes
<1> QED
  BY <1>3, <1>5, <1>6

LEMMA InitServed == Init => Served
<1> SUFFICES ASSUME Init PROVE Served
  OBVIOUS
<1>1. \A o \in Order : order[o].status = "PENDING" /\ order[o].captain = NoCaptain
  BY DEF Init, NewOrder
<1>2. \A l \in LogId : ~Live(l)
  BY DEF Init, Live
<1> QED
  BY <1>1, <1>2 DEF Served, AssignedIffOffered, OfferedUnarchived, SingleAutoOrder

LEMMA NextServed ==
    ASSUME StaffTargets = {}
    PROVE  IInv /\ Served /\ [Next]_vars => Served'
<1> SUFFICES ASSUME IInv, Served, [Next]_vars PROVE Served'
  OBVIOUS
<1>1. IInv'
  BY NextIInv
<1>2. CASE \E o \in Order : Dispatch(o)
  BY <1>1, <1>2, DispatchMoves
<1>3. CASE \E o \in Order, s \in OrderStatus : CaptainSetStatus(o, s)
  BY <1>3, DeliveryServes
<1>4. CASE \E l \in LogId : Accept(l) \/ Reject(l) \/ Expire(l) \/ WindowElapses(l)
  BY <1>1, <1>4, AnswerServes
<1>5. CASE CaptainRowChange
  BY <1>5, StillServes DEF CaptainRowChange, SetActive, SetAvailability, BalanceMoves, Live
<1>6. CASE UNCHANGED vars
  BY <1>6, StillServes DEF vars, Live
<1> QED
  BY <1>2, <1>3, <1>4, <1>5, <1>6 DEF Next

LEMMA ServedInvariance ==
    ASSUME StaffTargets = {}
    PROVE  Spec => []Served
<1>1. IInv /\ Served /\ [Next]_vars => Served'
  BY NextServed
<1> QED
  BY <1>1, InitServed, Invariance, PTL DEF Spec

\* As long as no status is written past the engine, an order is ASSIGNED exactly while
\* one of its rows is open.
THEOREM AssignedMeansOffered ==
    ASSUME StaffTargets = {}
    PROVE  Spec => []AssignedIffOffered
<1>1. Served => AssignedIffOffered
  BY DEF Served
<1> QED
  BY <1>1, ServedInvariance, PTL

\* Under the same condition an order on offer is never archived.
THEOREM NoArchivedOffer ==
    ASSUME StaffTargets = {}
    PROVE  Spec => []OfferedUnarchived
<1>1. Served => OfferedUnarchived
  BY DEF Served
<1> QED
  BY <1>1, ServedInvariance, PTL

\* Under the same condition automatic distribution is single-order-only.
THEOREM AutomaticIsSingleOrder ==
    ASSUME StaffTargets = {}
    PROVE  Spec => []SingleAutoOrder
<1>1. Served => SingleAutoOrder
  BY DEF Served
<1> QED
  BY <1>1, ServedInvariance, PTL

\* Under the same condition only the desk takes an accepted order from its captain or
\* reopens a closed one.
THEOREM AcceptedIsLeftAlone ==
    ASSUME StaffTargets = {}
    PROVE  Spec => AcceptedLeftAlone
<1> DEFINE Early == {"PENDING", "CONFIRMED", "ASSIGNED"}
           Step  == \A o \in Order :
                      /\ order[o].status \notin Early
                      /\ order'[o].captain # order[o].captain \/ order'[o].status \in Early
                      => Dispatch(o)
<1>1. IInv /\ Served /\ [Next]_vars => [Step]_vars
  <2> SUFFICES ASSUME IInv, Served, Next, NEW p \in Order,
                      order[p].status \notin Early,
                      order'[p].captain # order[p].captain \/ order'[p].status \in Early
               PROVE  Dispatch(p)
    OBVIOUS
  <2>1. order'[p] # order[p]
    OBVIOUS
  <2>2. CASE \E o \in Order : Dispatch(o)
    <3>1. PICK o \in Order : Dispatch(o)
      BY <2>2
    <3>2. \A q \in Order \ {o} : order'[q] = order[q]
      BY <3>1 DEF Dispatch, StartAuto, Resend, OfferNext, CancelAssignment, AssignManual, Reassign,
           Assign, StaffSetStatus, AdminOverride, Archive, Unarchive, IInv, TypeOK
    <3> QED
      BY <2>1, <3>1, <3>2
  <2>3. ASSUME NEW o \in Order, NEW s \in OrderStatus, CaptainSetStatus(o, s) PROVE FALSE
    <3>1. order' = [order EXCEPT ![o].status = s] /\ s \notin Early
      BY <2>3 DEF CaptainSetStatus, DeliveryChain
    <3> QED
      BY <3>1 DEF IInv, TypeOK, OrderRow
  <2>4. ASSUME NEW l \in LogId, Accept(l) \/ Reject(l) \/ Expire(l) \/ WindowElapses(l) PROVE FALSE
    <3>1. Live(l)
      BY <2>4 DEF Accept, Reject, Expire, WindowElapses, Answerable
    <3>2. order[offer[l].order].status = "ASSIGNED"
      BY <3>1, RowMeansAssigned
    <3>3. \A q \in Order \ {offer[l].order} : order'[q] = order[q]
      BY <2>4 DEF Accept, Reject, Expire, WindowElapses, AfterClose, OfferNext, IInv, TypeOK
    <3> QED
      BY <2>1, <3>2, <3>3
  <2>5. CASE CaptainRowChange
    BY <2>1, <2>5 DEF CaptainRowChange, SetActive, SetAvailability, BalanceMoves
  <2> QED
    BY <2>2, <2>3, <2>4, <2>5 DEF Next
<1>2. Spec => [][Step]_vars
  BY <1>1, Invariance, ServedInvariance, PTL DEF Spec
<1> QED
  BY <1>2 DEF AcceptedLeftAlone

-----------------------------------------------------------------------------
(* What the clients show. *)

\* An open row names an order that is ASSIGNED to its captain and not archived.
LEMMA RowShown ==
    ASSUME IInv, Served, NEW l \in LogId, Live(l)
    PROVE  /\ offer[l].order \in Order /\ order[offer[l].order].captain = offer[l].captain
           /\ order[offer[l].order].status = "ASSIGNED" /\ ~order[offer[l].order].archived
<1>1. offer[l].order \in Order
  BY DEF IInv, TypeOK, Live, OfferRow
<1> QED
  BY <1>1 DEF IInv, RowAgrees, Served, AssignedIffOffered, OfferedUnarchived

\* Under the same condition the buttons of the captain's workbench are the answers and the
\* steps the orders service takes from him.
THEOREM WorkbenchIsServed ==
    ASSUME StaffTargets = {}
    PROVE  Spec => []WorkbenchButtonsWork
<1>1. IInv /\ Served => WorkbenchButtonsWork
  <2> SUFFICES ASSUME IInv, Served, NEW c \in Captain
               PROVE  /\ OfferLogs(c) = {l \in LogId : Answerable(l) /\ offer[l].captain = c}
                      /\ \A o \in WorkingCards(c) :
                            <<order[o].status, NextStep(order[o].status)>> \in DeliveryChain
                      /\ \A o \in Order :
                            /\ order[o].captain = c
                            /\ \E s \in OrderStatus : <<order[o].status, s>> \in DeliveryChain
                            => o \in WorkingCards(c)
    BY DEF WorkbenchButtonsWork
  <2>1. OfferLogs(c) = {l \in LogId : Answerable(l) /\ offer[l].captain = c}
    BY RowShown DEF OfferLogs, Answerable
  <2>2. ASSUME NEW o \in WorkingCards(c)
        PROVE  <<order[o].status, NextStep(order[o].status)>> \in DeliveryChain
    BY <2>2 DEF WorkingCards, NextStep, DeliveryChain
  <2>3. ASSUME NEW o \in Order, order[o].captain = c, NEW s \in OrderStatus,
               <<order[o].status, s>> \in DeliveryChain
        PROVE  o \in WorkingCards(c)
    BY <2>3 DEF WorkingCards, DeliveryChain
  <2> QED
    BY <2>1, <2>2, <2>3
<1> QED
  BY <1>1, Invariance, ServedInvariance, PTL

\* Under the same condition the map, its list, the board and the phone tell the same of a
\* captain on the map, whoever is OFFLINE; what the map leaves out is on the board.
THEOREM MapIsPhone ==
    ASSUME StaffTargets = {}
    PROVE  Spec => []MapAgreesWithPhone
<1>1. IInv /\ Served => MapAgreesWithPhone
  <2> SUFFICES ASSUME IInv, Served,
                      NEW offline \in SUBSET {c \in Captain : ~captain[c].available},
                      NEW listed, listed = OnMap(offline), NEW c \in Captain
               PROVE  IF c \in listed
                      THEN LET line == PanelLine(c, listed)
                           IN  /\ line.waiting = {offer[l].order : l \in line.countdown}
                               /\ OfferCards(c)
                                    = {offer[l].order : l \in {m \in line.countdown : ~offer[m].due}}
                               /\ line.waiting \subseteq BoardCards
                               /\ \A o \in line.waiting :
                                     CardCountdown(o) # {} /\ CardCountdown(o) \subseteq line.countdown
                               /\ line.active = WorkingCards(c)
                               /\ line.frame = "offered"
                                     <=> \E l \in LogId : Live(l) /\ offer[l].captain = c
                      ELSE \A o \in OfferCards(c) :
                               /\ o \in BoardCards /\ CardCountdown(o) # {}
                               /\ \A d \in listed : o \notin PanelLine(d, listed).waiting
    BY DEF MapAgreesWithPhone
  \* An order with an open row is on the board, its countdown at its card.
  <2>1. ASSUME NEW l \in LogId, Live(l)
        PROVE  offer[l].order \in BoardCards /\ CardCountdown(offer[l].order) # {}
    <3>1. l \in CardCountdown(offer[l].order)
      BY <2>1, RowShown DEF CardCountdown, BoardCountdown
    <3> QED
      BY <2>1, <3>1, RowShown DEF BoardCards
  <2>2. CASE c \in listed
    \* The rows counted down are the rows of the orders that wait.
    <3>1. \A o \in WaitingOnMap(c, listed) : \E l \in CountdownOnMap(c, listed) : offer[l].order = o
      <4> SUFFICES ASSUME NEW o \in WaitingOnMap(c, listed)
                   PROVE  \E l \in CountdownOnMap(c, listed) : offer[l].order = o
        OBVIOUS
      <4>1. PICK l \in LogId : Live(l) /\ offer[l].order = o
        BY DEF WaitingOnMap, Served, AssignedIffOffered
      <4> QED
        BY <4>1, <2>2, RowShown DEF WaitingOnMap, CountdownOnMap
    <3>2. \A l \in CountdownOnMap(c, listed) : offer[l].order \in WaitingOnMap(c, listed)
      BY RowShown DEF CountdownOnMap, WaitingOnMap
    <3>3. MarkerCountdown(c, listed) = CountdownOnMap(c, listed)
      BY <3>2 DEF MarkerCountdown
    <3>4. /\ PanelLine(c, listed).waiting = WaitingOnMap(c, listed)
          /\ PanelLine(c, listed).active = ActiveOnMap(c, listed)
          /\ PanelLine(c, listed).countdown = CountdownOnMap(c, listed)
          /\ PanelLine(c, listed).frame = Frame(c, listed)
      BY <3>3 DEF PanelLine
    <3>5. WaitingOnMap(c, listed) = {offer[l].order : l \in CountdownOnMap(c, listed)}
      BY <3>1, <3>2
    <3>6. OfferLogs(c) = {m \in CountdownOnMap(c, listed) : ~offer[m].due}
      BY <2>2, RowShown DEF OfferLogs, CountdownOnMap
    <3>7. WaitingOnMap(c, listed) \subseteq BoardCards
      BY DEF WaitingOnMap, BoardCards, Served, OfferedUnarchived
    <3>8. ASSUME NEW o \in WaitingOnMap(c, listed)
          PROVE  CardCountdown(o) # {} /\ CardCountdown(o) \subseteq CountdownOnMap(c, listed)
      <4>1. order[o].captain = c /\ order[o].status = "ASSIGNED"
        BY DEF WaitingOnMap
      <4>2. PICK l \in CountdownOnMap(c, listed) : offer[l].order = o
        BY <3>1
      <4> QED
        BY <2>2, <4>1, <4>2 DEF CardCountdown, BoardCountdown, CountdownOnMap
    <3>9. ActiveOnMap(c, listed) = WorkingCards(c)
      BY <2>2 DEF ActiveOnMap, WorkingCards, Working
    <3>10. Frame(c, listed) = "offered" <=> \E l \in LogId : Live(l) /\ offer[l].captain = c
      <4>1. CountdownOnMap(c, listed) # {} <=> \E l \in LogId : Live(l) /\ offer[l].captain = c
        BY <2>2 DEF CountdownOnMap
      <4> QED
        BY <3>1, <3>2, <4>1 DEF Frame
    <3> QED
      BY <2>2, <3>4, <3>5, <3>6, <3>7, <3>8, <3>9, <3>10 DEF OfferCards
  <2>3. CASE c \notin listed
    <3> SUFFICES ASSUME NEW o \in OfferCards(c)
                 PROVE  /\ o \in BoardCards /\ CardCountdown(o) # {}
                        /\ \A d \in listed : o \notin PanelLine(d, listed).waiting
      BY <2>3
    <3>1. PICK l \in LogId : /\ Live(l) /\ offer[l].captain = c /\ offer[l].order = o
                             /\ order[o].captain = c
      BY DEF OfferCards, OfferLogs
    <3>2. \A d \in listed : o \notin PanelLine(d, listed).waiting
      BY <2>3, <3>1 DEF PanelLine, WaitingOnMap
    <3> QED
      BY <2>1, <3>1, <3>2
  <2> QED
    BY <2>2, <2>3
<1> QED
  BY <1>1, Invariance, ServedInvariance, PTL
=============================================================================
