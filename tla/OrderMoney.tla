------------------------------ MODULE OrderMoney ------------------------------
(***************************************************************************)
(* What an order's two amounts say.  The row holds amount (the goods) and     *)
(* cashCollection, and a deliveryFee that few clients send.  The detail API,   *)
(* the captain's cards, his offer line, the change calculator, his earnings    *)
(* and the commission each work the sums out for themselves.  Amounts are in    *)
(* hundredths; a figure somebody wrote is in thousandths.                    *)
(***************************************************************************)
EXTENDS Sums

CONSTANT NoFigure       \* a field left blank, an absent delivery fee

\* A Decimal(12, 2) column rounds a half up.
Rounded(figure) == (figure + 5) \div 10

\* computeBaseOrderFinancialBreakdown: with cash to collect, the fee is what exceeds the goods.
Inferred(o) ==
    IF o.cash > 0
    THEN [store |-> o.amount, fee |-> IF o.cash > o.amount THEN o.cash - o.amount ELSE 0,
          total |-> o.cash, onDelivery |-> TRUE]
    ELSE [store |-> o.amount, fee |-> 0, total |-> o.amount, onDelivery |-> FALSE]

\* Mutant: the fee comes on top of the cash.
FeeOnTop(o) == [Inferred(o) EXCEPT !.total = IF o.cash > 0 THEN o.amount + o.cash ELSE o.amount]

\* inferOrderFinancialBreakdown, as GET /orders/:id answers: an explicit fee replaces that line only.
Breakdown(o) == IF o.fee = NoFigure THEN Inferred(o) ELSE [Inferred(o) EXCEPT !.fee = o.fee]

\* The order page shows the answer's breakdown, a card works out its own (its list row has none).
PageRows(o) == Breakdown(o)
CardRows(o) == Inferred(o)

\* The line above the accept button.
OfferLine(o) == IF o.cash > 0 THEN o.cash ELSE o.amount

\* The change calculator: what is given back (positive) or still due (negative).
SecondBox(paid, due) == IF paid > due THEN paid - due ELSE IF paid < due THEN -(due - paid) ELSE 0

\* The earnings of the delivered orders: the heading sums the cash, the tile the goods.
Earnings(orders, delivered) == [
    hero |-> Total([i \in DOMAIN orders |-> IF i \in delivered THEN orders[i].cash ELSE 0]),
    goods |-> Total([i \in DOMAIN orders |-> IF i \in delivered THEN orders[i].amount ELSE 0])]

\* What the page told the captain to collect for them.
Collected(orders, delivered) ==
    Total([i \in DOMAIN orders |-> IF i \in delivered THEN PageRows(orders[i]).total ELSE 0])

\* The fee the commission is a percentage of.
deliveryFeeFromOrder(o) == o.cash
=============================================================================
