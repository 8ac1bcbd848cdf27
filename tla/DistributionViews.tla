-------------------------- MODULE DistributionViews --------------------------
(***************************************************************************)
(* What the clients show of the orders and of the assignment log: the cards  *)
(* and buttons of the captain's workbench, the numbers at his place on the   *)
(* dispatcher's map, the cards of the dispatcher's board.  Each is computed  *)
(* by a query of its own, over different columns; all of them are read here  *)
(* in one state (CaptainScreen is about reading them late).                 *)
(***************************************************************************)
EXTENDS Distribution

\* Mutant: the filter on expiredAt is dropped.
OfferLogsDueToo(c) ==
    {l \in LogId : /\ Live(l) /\ offer[l].captain = c
                   /\ order[offer[l].order].captain = c
                   /\ order[offer[l].order].status = "ASSIGNED"}

\* The PENDING rows getCurrentAssignment and getAssignmentOverflow find for c.
OfferLogs(c) ==
    {l \in LogId : /\ Live(l) /\ offer[l].captain = c /\ ~offer[l].due
                   /\ order[offer[l].order].captain = c
                   /\ order[offer[l].order].status = "ASSIGNED"}

\* Their orders: cards with "accept" and "reject" (assignment and overflow together).
OfferCards(c) == {offer[l].order : l \in OfferLogs(c)}

\* CAPTAIN_CURRENT_WORKING_STATUSES
WorkingCards(c) ==
    {o \in Order : order[o].captain = c /\ order[o].status \in {"ACCEPTED", "PICKED_UP", "IN_TRANSIT"}}

\* nextDeliveryStep: the status the button of a working card sends.
NextStep(s) ==
    CASE s = "ACCEPTED" -> "PICKED_UP" [] s = "PICKED_UP" -> "IN_TRANSIT" [] s = "IN_TRANSIT" -> "DELIVERED"

\* The captains activeCaptainsMap lists: account and profile active, and any availability but
\* OFFLINE.  A captain's row has only whether he is AVAILABLE: `offline` are those of the others
\* that are OFFLINE, the rest of them are BUSY or ON_DELIVERY.
OnMap(offline) == {c \in Captain : captain[c].active /\ c \notin offline}

\* Mutant: every order the query returns is counted.
WaitingOnMapAll(c, listed) ==
    {o \in Order : c \in listed /\ order[o].captain = c /\ order[o].status \in Working}

\* Of the captains that are listed, waitingOffers counts these orders, ...
WaitingOnMap(c, listed) ==
    {o \in Order : c \in listed /\ order[o].captain = c /\ order[o].status = "ASSIGNED"}

\* ... activeOrders these, ...
ActiveOnMap(c, listed) ==
    {o \in Order : c \in listed /\ order[o].captain = c /\ order[o].status \in Working \ {"ASSIGNED"}}

\* ... and assignmentOfferExpiresAt is the earliest end of these rows.
CountdownOnMap(c, listed) == {l \in LogId : c \in listed /\ Live(l) /\ offer[l].captain = c}

\* The seconds at a captain's marker: of an offer whose window is over they stay at 0.
MarkerCountdown(c, listed) == {l \in CountdownOnMap(c, listed) : WaitingOnMap(c, listed) # {}}

\* captainMapVisual: yellow before green before the rest.
Frame(c, listed) ==
    IF WaitingOnMap(c, listed) # {} THEN "offered"
    ELSE IF ActiveOnMap(c, listed) # {} THEN "working" ELSE "free"

\* A captain in the list under the map.
PanelLine(c, listed) ==
    [frame |-> Frame(c, listed), waiting |-> WaitingOnMap(c, listed),
     active |-> ActiveOnMap(c, listed), countdown |-> MarkerCountdown(c, listed)]

\* The three lists of the distribution page, and the buttons of a card: manual assignment,
\* by window or by dropping it on a captain, and resend.
BoardCards == {o \in Order : order[o].status \in {"PENDING", "CONFIRMED", "ASSIGNED"} /\ ~order[o].archived}

\* pendingOfferExpiresAt: the card counts down to the end of the PENDING row of the order's captain.
BoardCountdown(o) == {l \in LogId : Live(l) /\ offer[l].order = o /\ offer[l].captain = order[o].captain}

\* The badge at an order's card shows them for ASSIGNED only.
CardCountdown(o) == {l \in BoardCountdown(o) : order[o].status = "ASSIGNED"}

-----------------------------------------------------------------------------
\* "accept" and "reject" are shown to a captain for exactly those rows that acceptByCaptain and
\* rejectByCaptain take from him, and the button of a working card sends the step updateStatus
\* takes from him, to the end of the chain.
\* As long as nobody writes a status through PATCH /orders/:id/status.
WorkbenchButtonsWork ==
    \A c \in Captain :
        /\ OfferLogs(c) = {l \in LogId : Answerable(l) /\ offer[l].captain = c}
        /\ \A o \in WorkingCards(c) : <<order[o].status, NextStep(order[o].status)>> \in DeliveryChain
        /\ \A o \in Order : order[o].captain = c /\ (\E s \in OrderStatus : <<order[o].status, s>> \in DeliveryChain)
             => o \in WorkingCards(c)

\* The map, the list under it, the board and the phone tell the same of every captain on the
\* map: his waiting offers are the cards on his phone and those whose window is over and which
\* the tick has not reached, each with its countdown; they are on the board; the rest of his
\* open orders is what he works on; and his frame is yellow exactly when he has an offer.
\* A captain who was deactivated or went OFFLINE with an offer open has no line on the map,
\* and his phone still offers the order: the dispatcher finds it on the board, counting down.
MapAgreesWithPhone ==
    \A offline \in SUBSET {c \in Captain : ~captain[c].available} :
        LET listed == OnMap(offline)
        IN  \A c \in Captain :
                IF c \in listed
                THEN LET line == PanelLine(c, listed)
                     IN  /\ line.waiting = {offer[l].order : l \in line.countdown}
                         /\ OfferCards(c) = {offer[l].order : l \in {m \in line.countdown : ~offer[m].due}}
                         /\ line.waiting \subseteq BoardCards
                         /\ \A o \in line.waiting :
                                CardCountdown(o) # {} /\ CardCountdown(o) \subseteq line.countdown
                         /\ line.active = WorkingCards(c)
                         /\ line.frame = "offered" <=> \E l \in LogId : Live(l) /\ offer[l].captain = c
                ELSE \A o \in OfferCards(c) :
                         /\ o \in BoardCards /\ CardCountdown(o) # {}
                         /\ \A d \in listed : o \notin PanelLine(d, listed).waiting
=============================================================================
