------------------------------- MODULE DeskBoard -------------------------------
(***************************************************************************)
(* The dispatcher's page on the web: an order's card is dragged onto a        *)
(* captain, or given to one in a window, or sent to distribution again.  An  *)
(* entry "assigning..." covers the card while the request runs.              *)
(*                                                                         *)
(* useMutation follows one call, the latest: isPending is that call's, and   *)
(* the callbacks given to an earlier call are dropped, with those of a page   *)
(* that was left.                                                          *)
(***************************************************************************)
EXTENDS Naturals

CONSTANTS
    Ticket, NoTicket,   \* orders
    MaxAssigns,         \* bound: assignments the dispatcher makes
    MaxVisits           \* bound: how often the page is opened

ASSUME DeskAssumption == NoTicket \notin Ticket /\ MaxAssigns \in Nat /\ MaxVisits \in Nat \ {0}

VARIABLES
    shown,      \* the orders on the page: mergedOrders
    entries,    \* pendingAssignments: order and call
    assign,     \* the calls of assign.mutate, in their order
    latest,     \* the call assign follows, 0 for none
    resend,     \* the order resend.mutate runs for
    modal,      \* manualOrder
    visit       \* how often the page was opened; 0 while another is

deskVars == <<shown, entries, assign, latest, resend, modal, visit>>

AssignNo == 1 .. MaxAssigns
Entries == [order : Ticket, no : AssignNo]
AssignCall == [at : {"none", "sent", "settled"}, order : Ticket \cup {NoTicket}, manual : BOOLEAN, visit : 0 .. MaxVisits]
NoCall == [at |-> "none", order |-> NoTicket, manual |-> FALSE, visit |-> 0]

DeskInit ==
    /\ shown = {}
    /\ entries = {}
    /\ assign = [n \in AssignNo |-> NoCall]
    /\ latest = 0
    /\ resend = NoTicket
    /\ modal = NoTicket
    /\ visit = 1

-----------------------------------------------------------------------------
PendingOrders == {e.order : e \in entries}

AssignPending == latest # 0 /\ assign[latest].at = "sent"

CardBusy(o) == resend # NoTicket \/ AssignPending \/ o \in PendingOrders

Draggable(o) == o \in shown /\ o \notin PendingOrders

\* The three lists are fetched again and again: an order comes to the page or goes.
ListsRefetched ==
    /\ visit # 0
    /\ shown' \in SUBSET Ticket
    /\ UNCHANGED <<entries, assign, latest, resend, modal, visit>>

\* assign.mutate, with an entry for the card.
Mutate(o, manual) ==
    \E n \in AssignNo :
        /\ assign[n] = NoCall /\ \A k \in 1 .. n - 1 : assign[k] # NoCall
        /\ entries' = entries \cup {[order |-> o, no |-> n]}
        /\ assign' = [assign EXCEPT ![n] = [at |-> "sent", order |-> o, manual |-> manual, visit |-> visit]]
        /\ latest' = n

\* Mutant: a card dropped again while it is being assigned.
DropAnyCard(o) ==
    /\ visit # 0 /\ modal = NoTicket
    /\ o \in shown
    /\ Mutate(o, FALSE)
    /\ UNCHANGED <<shown, resend, modal, visit>>

\* A card is dropped on a captain's marker or on his line in the list: also while another
\* card's assignment or the card's own resend runs.  A marker takes every card, and what made
\* it draggable is asked again of the page as it is when the card is dropped.
Drop(o) ==
    /\ visit # 0 /\ modal = NoTicket
    /\ Draggable(o)
    /\ Mutate(o, FALSE)
    /\ UNCHANGED <<shown, resend, modal, visit>>

OpenManual(o) ==
    /\ visit # 0 /\ modal = NoTicket
    /\ o \in shown /\ ~CardBusy(o)
    /\ modal' = o
    /\ UNCHANGED <<shown, entries, assign, latest, resend, visit>>

CloseManual ==
    /\ modal # NoTicket
    /\ modal' = NoTicket
    /\ UNCHANGED <<shown, entries, assign, latest, resend, visit>>

\* The window keeps the order it was opened for, on the page or not.
SubmitManual ==
    /\ modal # NoTicket /\ ~AssignPending /\ modal \notin PendingOrders
    /\ Mutate(modal, TRUE)
    /\ UNCHANGED <<shown, resend, modal, visit>>

\* Mutant: the entry is removed when the assignment succeeds only.
AssignSettlesOnSuccess(n, ok) ==
    /\ assign[n].at = "sent"
    /\ assign' = [assign EXCEPT ![n].at = "settled"]
    /\ entries' = IF n = latest /\ ok THEN {e \in entries : e.no # n} ELSE entries
    /\ modal' = IF n = latest /\ ok /\ assign[n].manual THEN NoTicket ELSE modal
    /\ UNCHANGED <<shown, latest, resend, visit>>

\* The API has answered: the latest call removes its entry, and a manual one that succeeded
\* closes the window.
AssignSettles(n, ok) ==
    /\ assign[n].at = "sent"
    /\ assign' = [assign EXCEPT ![n].at = "settled"]
    /\ entries' = IF n = latest THEN {e \in entries : e.no # n} ELSE entries
    /\ modal' = IF n = latest /\ ok /\ assign[n].manual THEN NoTicket ELSE modal
    /\ UNCHANGED <<shown, latest, resend, visit>>

ResendCard(o) ==
    /\ visit # 0 /\ modal = NoTicket
    /\ o \in shown /\ ~CardBusy(o)
    /\ resend' = o
    /\ UNCHANGED <<shown, entries, assign, latest, modal, visit>>

ResendSettles ==
    /\ resend # NoTicket
    /\ resend' = NoTicket
    /\ UNCHANGED <<shown, entries, assign, latest, modal, visit>>

\* Another page: its state is gone, its requests run on.
LeavePage ==
    /\ visit # 0
    /\ shown' = {} /\ entries' = {} /\ latest' = 0 /\ resend' = NoTicket /\ modal' = NoTicket
    /\ visit' = 0
    /\ UNCHANGED assign

OpenPage ==
    /\ visit = 0
    /\ \E v \in 2 .. MaxVisits :
         /\ \A n \in AssignNo : assign[n].visit < v
         /\ visit' = v
    /\ UNCHANGED <<shown, entries, assign, latest, resend, modal>>

DeskNext ==
    \/ \E o \in Ticket : Drop(o) \/ OpenManual(o) \/ ResendCard(o)
    \/ \E n \in AssignNo, ok \in BOOLEAN : AssignSettles(n, ok)
    \/ ListsRefetched \/ CloseManual \/ SubmitManual \/ ResendSettles \/ LeavePage \/ OpenPage

DeskSpec == DeskInit /\ [][DeskNext]_deskVars

-----------------------------------------------------------------------------
DeskTypeOK ==
    /\ shown \subseteq Ticket
    /\ entries \subseteq Entries
    /\ assign \in [AssignNo -> AssignCall]
    /\ latest \in 0 .. MaxAssigns
    /\ resend \in Ticket \cup {NoTicket} /\ modal \in Ticket \cup {NoTicket}
    /\ visit \in 0 .. MaxVisits

InFlight(o) == \E n \in AssignNo : assign[n].at = "sent" /\ assign[n].order = o /\ assign[n].visit = visit

Commanded(o) ==
    \/ \E n \in AssignNo : assign[n] = NoCall /\ assign'[n] # NoCall /\ assign'[n].order = o
    \/ resend' = o /\ resend # o

\* As long as the page is not left, no order is assigned or sent to distribution again while
\* an assignment of it is on its way: entries, whose removal is the business of another
\* call's callbacks, cover it to the end.
OneCommand == [][\A o \in Ticket : Commanded(o) => ~InFlight(o)]_deskVars

\* An "assigning..." entry goes when its request is over, unless another assignment was
\* started meanwhile: then nothing removes it until the page is left.
PendingCleared ==
    \A e \in entries :
        assign[e.no].at = "sent" \/ \E n \in AssignNo : n > e.no /\ assign[n] # NoCall
=============================================================================
