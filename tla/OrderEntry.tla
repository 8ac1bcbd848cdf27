------------------------------ MODULE OrderEntry ------------------------------
(***************************************************************************)
(* How an order comes to be: staff fill in the form, or paste a text, have    *)
(* it read into a draft, correct the draft and create the order; another       *)
(* client may call POST /orders with a delivery fee.  An answer can be lost,    *)
(* and the page then offers the same button again.                          *)
(***************************************************************************)
EXTENDS OrderMoney, Sequences

CONSTANTS
    Figures,        \* figures people write for the amount, in thousandths
    Costs,          \* and for the delivery cost
    MaxEntries,     \* bound: pages opened
    MaxBooked       \* bound: orders

\* The figure of a thousand, from which on people write a separator.
Thousand == 1000000

ASSUME FiguresAssumption ==
    /\ Figures \subseteq Nat /\ Costs \subseteq Nat /\ MaxEntries \in Nat
    /\ \A figure \in Figures : figure < 1000 * Thousand    \* below a million: one separator at most

VARIABLES
    entry,          \* the page: its number, kind and fields
    box,            \* the text in the paste page's box
    asked,          \* asked[n]: the create request of entry n
    booked,         \* the orders, oldest first
    lostFor         \* entries whose order was stored and whose answer was lost

entryVars == <<entry, box, asked, booked, lostFor>>

\* How a figure is written: with a decimal point or comma only ("plain"), with a comma or a point
\* between its thousands, with a space or another sign between them, with the Arabic decimal sign.
Style == {"plain", "comma", "space", "arabic"}
Fits(style, figure) ==
    /\ style \in {"comma", "space"} => figure >= Thousand
    /\ style = "arabic" => figure % 1000 # 0

\* A text that was pasted or typed: the amount it means, and the first number under a label of the
\* amount ("price", "total": several labels are one field), which may be another one.
Text == {t \in [meant : Figures, first : Figures, style : Style] :
            Fits(t.style, t.first) /\ (t.first # t.meant => t.style = "plain")}
NoText == [meant |-> NoFigure, first |-> NoFigure, style |-> "plain"]
AnyText == Text \cup {NoText}
Plainly(figure) == [meant |-> figure, first |-> figure, style |-> "plain"]

\* The amount of the draft, if there is one ("draft"), and the text it is of.
Closed(n) == [no |-> n, page |-> "none", amount |-> NoFigure, of |-> NoText]
NoAsk == [at |-> "none", amount |-> NoFigure, cost |-> NoFigure, fee |-> NoFigure, long |-> FALSE, of |-> NoText]

EntryInit ==
    /\ entry = Closed(0)
    /\ box = NoText
    /\ asked = [n \in 1..MaxEntries |-> NoAsk]
    /\ booked = <<>>
    /\ lostFor = {}

OpenEntry(p) ==
    /\ entry.page = "none" /\ entry.no < MaxEntries
    /\ entry' = [Closed(entry.no + 1) EXCEPT !.page = p]
    /\ UNCHANGED <<box, asked, booked, lostFor>>

LeaveEntry ==
    /\ entry.page # "none"
    /\ entry' = Closed(entry.no) /\ box' = NoText
    /\ UNCHANGED <<asked, booked, lostFor>>

-----------------------------------------------------------------------------
(* The form *)

\* validate and validateIncubatorDraft agree on the amount: a number above zero.
AmountValid(figure) == figure # NoFigure /\ figure # 0

Body(text, amount, cost, long) == [
    at |-> "sent", amount |-> amount, cost |-> cost, fee |-> NoFigure, long |-> long, of |-> text]

\* Mutant: the button is not disabled while a request is under way.
SendAgain(body) ==
    /\ AmountValid(body.amount)
    /\ asked' = [asked EXCEPT ![entry.no] = body]

\* create.isPending disables the button.
SendOnce(body) ==
    /\ asked[entry.no].at = "none" /\ AmountValid(body.amount)
    /\ asked' = [asked EXCEPT ![entry.no] = body]

\* The fields, which take numbers only, are read when the form is submitted; a blank delivery cost
\* is not sent.  Nothing
\* limits the notes once the link and the remark about the map are added to them.
SubmitForm(amount, cost, long) ==
    /\ entry.page = "form" /\ SendOnce(Body(Plainly(amount), amount, cost, long))
    /\ UNCHANGED <<entry, box, booked, lostFor>>

-----------------------------------------------------------------------------
(* The pasted text *)

PasteText(p) ==
    /\ entry.page \in {"paste", "draft"}
    /\ box' = p
    /\ UNCHANGED <<entry, asked, booked, lostFor>>

\* Mutant: commas are taken out instead, the one before the decimals too.
AmountReadJoined(t) ==
    IF t \in Text /\ t.style = "plain" /\ t.first % 1000 # 0 THEN t.first * 1000 ELSE t.first

\* normalizeAmountText: Arabic digits become Latin ones, commas points, and the first number is
\* taken: 1,250.50 is 1.250, 1 250.50 is 1, and 30.5 with the Arabic sign is 30.
AmountRead(t) ==
    CASE t.style = "comma" -> t.first \div 1000
      [] t.style = "space" -> (t.first \div Thousand) * 1000
      [] t.style = "arabic" -> (t.first \div 1000) * 1000
      [] OTHER -> t.first

\* The draft is made from the text in the box; a text without an amount leaves it blank.
RunParse ==
    /\ entry.page \in {"paste", "draft"}
    /\ entry' = [entry EXCEPT !.page = "draft", !.amount = AmountRead(box), !.of = box]
    /\ UNCHANGED <<box, asked, booked, lostFor>>

ClearDraft ==
    /\ entry.page = "draft"
    /\ entry' = [entry EXCEPT !.page = "paste", !.amount = NoFigure, !.of = NoText]
    /\ UNCHANGED <<box, asked, booked, lostFor>>

\* Number(amount.replace(",", ".")): 1,250 is 1.25; anything else but a plain number is none.
NumberOf(t) ==
    IF t.style = "plain" \/ (t.style = "comma" /\ t.first % 1000 = 0) THEN AmountRead(t) ELSE NoFigure

\* The amount is typed over, or taken out.
EditAmount(t) ==
    /\ entry.page = "draft"
    /\ entry' = [entry EXCEPT !.amount = NumberOf(t), !.of = t]
    /\ UNCHANGED <<box, asked, booked, lostFor>>

\* The notes take the text the box holds now, read or not, which may be too long for them.
CreateFromDraft(long) ==
    /\ entry.page = "draft" /\ SendOnce(Body(entry.of, entry.amount, NoFigure, long))
    /\ UNCHANGED <<entry, box, booked, lostFor>>

-----------------------------------------------------------------------------
(* The API *)

\* A client of its own, with a delivery fee.
OtherClient(amount, cost, fee) ==
    /\ entry.page = "none" /\ entry.no < MaxEntries
    /\ entry' = Closed(entry.no + 1)
    /\ asked' = [asked EXCEPT ![entry.no + 1] =
         [NoAsk EXCEPT !.at = "sent", !.amount = amount, !.cost = cost, !.fee = fee, !.of = Plainly(amount)]]
    /\ UNCHANGED <<box, booked, lostFor>>

\* CreateOrderBodySchema: notes of 2000 characters at most (and an amount the column has room for,
\* as every figure below a million has).
Acceptable(ask) == ~ask.long

Booked(n, ask) == [
    entry |-> n,
    of |-> ask.of,
    amount |-> Rounded(ask.amount),
    cash |-> IF ask.cost = NoFigure THEN 0 ELSE Rounded(ask.cost),
    fee |-> IF ask.fee = NoFigure THEN NoFigure ELSE Rounded(ask.fee)]

\* create stores the order; the answer arrives or is lost on its way.
CreateOrder(n) ==
    /\ asked[n].at = "sent" /\ Acceptable(asked[n]) /\ Len(booked) < MaxBooked
    /\ booked' = Append(booked, Booked(n, asked[n]))
    /\ \E at \in {"done", "failed"} :
         /\ asked' = [asked EXCEPT ![n].at = at]
         /\ lostFor' = IF at = "failed" THEN lostFor \cup {n} ELSE lostFor
    /\ UNCHANGED <<entry, box>>

\* The body is refused, or the request does not arrive.
RefuseOrder(n) ==
    /\ asked[n].at = "sent"
    /\ asked' = [asked EXCEPT ![n].at = "failed"]
    /\ UNCHANGED <<entry, box, booked, lostFor>>

\* onSuccess: the page, if it is still this one, gives way to the list of orders.  By then a pasted
\* order's automatic distribution has been asked for (StartAuto of Distribution), whether or not it
\* began; the form asks for none.
Created(n) ==
    /\ asked[n].at = "done"
    /\ asked' = [asked EXCEPT ![n] = NoAsk]
    /\ IF entry.no = n THEN entry' = Closed(n) /\ box' = NoText ELSE UNCHANGED <<entry, box>>
    /\ UNCHANGED <<booked, lostFor>>

\* onError: a message; the fields stay and the button is free again.
NotCreated(n) ==
    /\ asked[n].at = "failed"
    /\ asked' = [asked EXCEPT ![n] = NoAsk]
    /\ UNCHANGED <<entry, box, booked, lostFor>>

EntryNext ==
    \/ \E p \in {"form", "paste"} : OpenEntry(p)
    \/ LeaveEntry
    \/ \E f \in Figures, c \in Costs \cup {NoFigure}, l \in BOOLEAN : SubmitForm(f, c, l)
    \/ \E p \in AnyText : PasteText(p)
    \/ RunParse \/ ClearDraft
    \/ \E t \in AnyText : t.meant = t.first /\ EditAmount(t)
    \/ \E l \in BOOLEAN : CreateFromDraft(l)
    \/ \E f \in Figures, c \in Costs, e \in Costs : OtherClient(f, c, e)
    \/ \E n \in 1..MaxEntries : CreateOrder(n) \/ RefuseOrder(n) \/ Created(n) \/ NotCreated(n)

EntrySpec == EntryInit /\ [][EntryNext]_entryVars

-----------------------------------------------------------------------------
Field == Nat \cup {NoFigure}

EntryTypeOK ==
    /\ entry \in [no : 0..MaxEntries, page : {"none", "form", "paste", "draft"}, amount : Field, of : AnyText]
    /\ box \in AnyText
    /\ asked \in [1..MaxEntries -> [at : {"none", "sent", "done", "failed"}, amount : Field, cost : Field,
                                    fee : Field, long : BOOLEAN, of : AnyText]]
    /\ booked \in Seq([entry : 1..MaxEntries, of : Text, amount : Nat, cash : Nat, fee : Field])
    /\ lostFor \subseteq 1..MaxEntries

\* However often a text is pasted, read, cleared and typed over before it is sent, the order holds
\* the amount of the text it is of: to the nearest hundredth if that was written plainly, and never
\* more than was meant, unless another number stood before it in the pasted text (a separator of
\* thousands or the Arabic decimal sign makes it less); and one entry makes one order, unless the
\* answer to a create that was carried out was lost.
OrdersAsEntered ==
    /\ \A i \in DOMAIN booked : LET text == booked[i].of IN
         text.first = text.meant =>
            /\ booked[i].amount <= Rounded(text.meant)
            /\ text.style = "plain" => booked[i].amount = Rounded(text.meant)
    /\ \A i, j \in DOMAIN booked : i # j /\ booked[i].entry = booked[j].entry => booked[i].entry \in lostFor

\* Wherever the captain looks he is told the same sum to collect, on the page, on a card and above
\* the accept button, and the same fee unless the order has an explicit one; the change he is told
\* to give leaves that sum in his hand; what he collects pays the store and the fee whenever it
\* covers the goods; and the heading of his earnings is what he was told to collect on the orders
\* with cash.
CollectedAlike ==
    /\ \A i \in DOMAIN booked :
         LET o == booked[i]  page == PageRows(o)  card == CardRows(o) IN
         /\ page.total = card.total /\ card.total = OfferLine(o)
         /\ page.fee # card.fee => o.fee # NoFigure
         /\ \A paid \in {o.amount, o.cash, o.amount + o.cash} : paid - SecondBox(paid, page.total) = page.total
         /\ card.store + card.fee = card.total \/ o.cash \in 1..(o.amount - 1)
    /\ \A delivered \in SUBSET DOMAIN booked :
         Earnings(booked, delivered).hero
            = Collected(booked, {i \in delivered : booked[i].cash # 0})

\* The fee the captain is shown for an order of the dashboard is the fee his commission is taken of.
FeeMeansFee ==
    \A i \in DOMAIN booked :
        booked[i].fee = NoFigure => PageRows(booked[i]).fee = deliveryFeeFromOrder(booked[i])
=============================================================================
