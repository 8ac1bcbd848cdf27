------------------------------ MODULE CaptainTaps ------------------------------
(***************************************************************************)
(* The buttons of one order on one captain's phone.  Two screens offer them,  *)
(* the list of current orders and the order's own page, each from an answer   *)
(* it fetched some time ago and by a rule of its own; a tap is checked on the  *)
(* phone, sent, and judged by the API against the rows of that moment.        *)
(*                                                                         *)
(* A step of the delivery is checked by the API before its transaction and   *)
(* written by the order's id in it: a step of its own.  An answer to an offer *)
(* is one step here, DistributionTx takes it apart.                         *)
(***************************************************************************)
EXTENDS Naturals, FiniteSets

CONSTANTS
    Carrier, NoCarrier,
    Self,           \* the captain whose phone it is
    MaxTaps         \* bound: taps under way at the same time, those of other captains included

ASSUME TapsAssumption == Self \in Carrier /\ NoCarrier \notin Carrier /\ MaxTaps \in Nat \ {0}

VARIABLES
    row,            \* the order, its PENDING row, and who has ever accepted it
    button,         \* button[s]: what screen s offers
    taps,
    taken,          \* the steps written since the order was last given to a captain
    overtaken       \* when the order was last given, taken back or closed, a step was between
                    \* its check and its write

tapVars == <<row, button, taps, taken, overtaken>>

Screens == {"list", "page"}
Chain == <<"ACCEPTED", "PICKED_UP", "IN_TRANSIT", "DELIVERED">>

Row == [status : {"PENDING", "ASSIGNED", "CANCELLED"} \cup {Chain[i] : i \in DOMAIN Chain},
        carrier : Carrier \cup {NoCarrier}, live : BOOLEAN, due : BOOLEAN, accepted : SUBSET Carrier]

\* "accept" stands for the pair accept and reject.
Button == {"none", "accept"} \cup {Chain[i] : i \in 2 .. 4}
Step == {"PICKED_UP", "IN_TRANSIT", "DELIVERED"}
Reply == {"accept", "reject"}

Taps == [no : 1 .. MaxTaps, by : Carrier, on : Screens, as : Reply \cup Step, at : {"check", "post", "write"}]

\* The API has checked the step and has not written it yet.
Passed == {t \in taps : t.at = "write"}

-----------------------------------------------------------------------------
(* What the API takes *)

CanAnswer(c) == row.live /\ ~row.due /\ row.carrier = c

Follows(s, next) == \E i \in 1 .. 3 : s = Chain[i] /\ next = Chain[i + 1]

\* Mutant: a step is taken from any earlier one.
CanSkip(c, next) ==
    row.carrier = c /\ \E i, j \in DOMAIN Chain : i < j /\ row.status = Chain[i] /\ next = Chain[j]

\* updateStatus of a captain: the order is his, and the status the next of the chain.
CanStep(c, next) == row.carrier = c /\ Follows(row.status, next)

-----------------------------------------------------------------------------
(* The two screens' rules *)

\* nextStatusFromCurrent on a card, nextDeliveryStep on the page
StepFrom(s) == IF \E n \in Button : Follows(s, n) THEN CHOOSE n \in Button : Follows(s, n) ELSE "none"

\* A card of the list: an offer by the kind the API gave it, else the step after its status.
ListButton(c) ==
    IF row.carrier # c THEN "none"
    ELSE IF row.status = "ASSIGNED" THEN IF CanAnswer(c) THEN "accept" ELSE "none"
    ELSE StepFrom(row.status)

\* Mutant: the page looks for an acceptance in the newest row only.
PageOfAssignee(c) ==
    IF row.status = "ASSIGNED" /\ CanAnswer(c) THEN "accept"
    ELSE IF row.accepted = {c} THEN StepFrom(row.status) ELSE "none"

\* deriveFromOrder: an offer by the order and its rows; a step if any row of his was ever accepted.
PageButton(c) ==
    IF row.status = "ASSIGNED" /\ CanAnswer(c) THEN "accept"
    ELSE IF c \in row.accepted THEN StepFrom(row.status) ELSE "none"

\* OrderStatusProgress: the step the page's bar marks as the current one; 0 before acceptance and
\* when all are done.
CurrentStep(s) == IF \E i \in 1 .. 3 : s = Chain[i] THEN CHOOSE i \in 1 .. 3 : s = Chain[i] ELSE 0

Fetched(s) == IF s = "list" THEN ListButton(Self) ELSE PageButton(Self)

TapsInit ==
    /\ row = [status |-> "PENDING", carrier |-> NoCarrier, live |-> FALSE, due |-> FALSE, accepted |-> {}]
    /\ button = [s \in Screens |-> "none"]
    /\ taps = {}
    /\ taken = {}
    /\ overtaken = FALSE

-----------------------------------------------------------------------------
(* The order, moved by others *)

RowMoves(r) == row' = r /\ UNCHANGED <<button, taps>>

\* The desk, an override or the tick; a step that has passed its check is written all the same.
Dispatched(r) == RowMoves(r) /\ taken' = {} /\ overtaken' = (Passed # {})

\* The chain, a manual assignment, a resend or a reassignment, the last two from any status.
OfferTo(c) ==
    Dispatched([row EXCEPT !.status = "ASSIGNED", !.carrier = c, !.live = TRUE, !.due = FALSE])

WindowOver == row.live /\ ~row.due /\ RowMoves([row EXCEPT !.due = TRUE]) /\ UNCHANGED <<taken, overtaken>>

\* The tick without a next captain, the dispatcher's cancellation, an override.
TakenBack == row.carrier # NoCarrier
    /\ Dispatched([row EXCEPT !.status = "PENDING", !.carrier = NoCarrier, !.live = FALSE, !.due = FALSE])

ClosedByDesk == \E s \in {"DELIVERED", "CANCELLED"} :
    Dispatched([row EXCEPT !.status = s, !.carrier = IF s = "CANCELLED" THEN NoCarrier ELSE @,
                           !.live = FALSE, !.due = FALSE])

AcceptedBy(c) ==
    [row EXCEPT !.status = "ACCEPTED", !.live = FALSE, !.due = FALSE, !.accepted = @ \cup {c}]

\* A tap comes to the others; taps alike are numbered, and the last of them moves first.
Join(others, t) ==
    \E n \in 1 .. MaxTaps :
        /\ [t EXCEPT !.no = n] \notin others
        /\ \A m \in 1 .. n - 1 : [t EXCEPT !.no = m] \in others
        /\ taps' = others \cup {[t EXCEPT !.no = n]}

Put(c, s, as, at) ==
    Cardinality(taps) < MaxTaps /\ Join(taps, [no |-> 1, by |-> c, on |-> s, as |-> as, at |-> at])

MovesFirst(t) == \A u \in taps : [u EXCEPT !.no = t.no] = t => u.no <= t.no

\* Another captain does what he may with his own phone.
OtherAccepts(c) ==
    /\ c # Self /\ CanAnswer(c)
    /\ RowMoves(AcceptedBy(c)) /\ UNCHANGED <<taken, overtaken>>

OtherSteps(c) ==
    /\ c # Self
    /\ \E n \in Step : CanStep(c, n) /\ Put(c, "page", n, "write")
    /\ UNCHANGED <<row, button, taken, overtaken>>

-----------------------------------------------------------------------------
(* The phone *)

\* A poll, an event, the focus, the end of the countdown: the screen has what the API has now.
ScreenFetches(s) ==
    /\ button' = [button EXCEPT ![s] = Fetched(s)]
    /\ UNCHANGED <<row, taps, taken, overtaken>>

\* The page's bar has its buttons disabled while any of its mutations runs.
BarFree(s) == s = "page" => \A t \in taps : t.by = Self => t.on # s

\* A card of the list is busy as long as its order is the last one tapped: after a tap on another
\* card it can be tapped again.
Tapped(s, as) ==
    /\ as = button[s] \/ (as = "reject" /\ button[s] = "accept")
    /\ BarFree(s)
    /\ Put(Self, s, as, IF as \in Reply THEN "check" ELSE "post")
    /\ UNCHANGED <<row, button, taken, overtaken>>

\* assertOfferActionAllowed: both answers are fetched again; the offer must be in one of them.
Checked(t) ==
    /\ t.at = "check"
    /\ button' = [s \in Screens |-> Fetched(s)]
    /\ IF "accept" \in {Fetched(s) : s \in Screens}
       THEN Join(taps \ {t}, [t EXCEPT !.at = "post"]) ELSE taps' = taps \ {t}
    /\ UNCHANGED <<row, taken, overtaken>>

\* The API takes an answer to an offer.
OfferAnswered(t) ==
    /\ t.at = "post" /\ t.as \in Reply /\ CanAnswer(t.by)
    /\ taps' = taps \ {t}
    /\ \/ t.as = "accept" /\ row' = AcceptedBy(t.by)
       \/ t.as = "reject"
          /\ \/ row' = [row EXCEPT !.status = "PENDING", !.carrier = NoCarrier, !.live = FALSE]
             \/ \E c \in Carrier : row' = [row EXCEPT !.status = "ASSIGNED", !.carrier = c]
    /\ UNCHANGED <<button, taken, overtaken>>

\* updateStatus has read the order and checked the step, outside of its transaction,
StepChecked(t) ==
    /\ t.at = "post" /\ t.as \in Step /\ CanStep(t.by, t.as)
    /\ Join(taps \ {t}, [t EXCEPT !.at = "write"])
    /\ UNCHANGED <<row, button, taken, overtaken>>

\* and writes it, whatever the order is by then.
StepWritten(t) ==
    /\ t \in Passed
    /\ row' = [row EXCEPT !.status = t.as]
    /\ taken' = taken \cup {t.as}
    /\ taps' = taps \ {t}
    /\ UNCHANGED <<button, overtaken>>

\* The API refuses the tap, the request is lost before it gets there, or the step's transaction is
\* rolled back.  (Whose answer is lost taps again while the step is still to be written, as a
\* card of the list lets him anyway.)
Fails(t) ==
    /\ t.at # "check"
    /\ taps' = taps \ {t}
    /\ UNCHANGED <<row, button, taken, overtaken>>

TapsNext ==
    \/ \E c \in Carrier : OfferTo(c) \/ OtherAccepts(c) \/ OtherSteps(c)
    \/ WindowOver \/ TakenBack \/ ClosedByDesk
    \/ \E s \in Screens : ScreenFetches(s) \/ \E as \in Reply \cup Step : Tapped(s, as)
    \/ \E t \in {u \in taps : MovesFirst(u)} : Checked(t) \/ OfferAnswered(t) \/ StepChecked(t) \/ StepWritten(t) \/ Fails(t)

TapsSpec == TapsInit /\ [][TapsNext]_tapVars

-----------------------------------------------------------------------------
TapsTypeOK ==
    /\ row \in Row
    /\ button \in [Screens -> Button]
    /\ taps \subseteq Taps
    /\ taken \subseteq Step
    /\ overtaken \in BOOLEAN

\* What the API reads and what the screens read lead to the same: a card's button is one the API
\* would take, a button the API would take is on the card, and the page has the card's button, for the
\* step after the one its bar marks.
\* Only the page of an order that another captain works on now still offers the next step to
\* one who had accepted it before him, which the API refuses.
\* As long as no step was between its check and its write when the order was last given, taken back
\* or closed (a late write leaves a step's status with a live offer, or with a captain who never
\* accepted), and nobody of the staff writes a status through PATCH /orders/:id/status.
SurfacesAgree ==
    ~overtaken =>
    /\ ListButton(Self) = "accept" <=> CanAnswer(Self)
    /\ \A n \in Step : ListButton(Self) = n <=> CanStep(Self, n)
    /\ PageButton(Self) = ListButton(Self)
       \/ (row.carrier # Self /\ Self \in row.accepted /\ ListButton(Self) = "none")
    /\ CurrentStep(row.status) # 0 /\ row.carrier = Self => PageButton(Self) = Chain[CurrentStep(row.status) + 1]

\* However old the screen, however often its buttons are tapped and however many of the taps are
\* with the API at once, no step is skipped: whoever's step the API lets pass has taken every step
\* before it since the order is his.  Overlapping taps may take the order back a step (an order
\* tapped further in between is written over by id), and with that exception of a late write
\* one captain's step may land on the next captain's order.
StepByStep ==
    ~overtaken => \A t \in Passed : /\ row.carrier = t.by /\ t.by \in row.accepted
                                  /\ \A i \in 3 .. 4 : t.as = Chain[i] => {Chain[j] : j \in 2 .. i - 1} \subseteq taken
=============================================================================
