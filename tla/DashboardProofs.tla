--------------------------- MODULE DashboardProofs ---------------------------
(***************************************************************************)
(* Proofs about the dashboard: the dispatcher's board, the settings card,   *)
(* the entry of orders, and the roles of its pages.                         *)
(***************************************************************************)
EXTENDS DeskBoard, DashboardSettings, OrderEntry, WebAccess, TLAPS

(* The dispatcher's page, for any orders, and any number of assignments and visits.  Both  *)
(* properties rest on the numbering of calls: they are numbered without gaps, and the page *)
(* follows the last of them.                                                               *)

Made(n) == assign[n] # NoCall

\* Calls are numbered without gaps, and each is of a visit.
Numbered ==
    /\ \A n \in AssignNo : Made(n) => assign[n].visit # 0 /\ \A k \in 1 .. n - 1 : Made(k)
    /\ latest # 0 => Made(latest)
    /\ modal # NoTicket => visit # 0

\* An entry is of a call up to the latest one, and what is on its way has its entry.
Covered ==
    /\ \A e \in entries : e.no <= latest
    /\ \A n \in AssignNo : assign[n].at = "sent" /\ assign[n].visit = visit
                             => [order |-> assign[n].order, no |-> n] \in entries

DeskInv == DeskTypeOK /\ Numbered /\ Covered /\ PendingCleared

LEMMA DeskInitInv == DeskInit => DeskInv
<1> SUFFICES ASSUME DeskInit PROVE DeskInv
  OBVIOUS
<1>1. DeskTypeOK
  <2>1. NoCall \in AssignCall
    BY DeskAssumption DEF NoCall, AssignCall
  <2>2. visit \in 0 .. MaxVisits
    BY DeskAssumption DEF DeskInit
  <2>3. QED
    BY <2>1, <2>2, DeskAssumption DEF DeskInit, DeskTypeOK
<1>2. QED
  BY <1>1 DEF DeskInit, DeskInv, Numbered, Covered, PendingCleared, Made, NoCall

\* A new call is numbered one above the last, and its entry comes with it.
LEMMA MutateKeepsInv ==
  ASSUME DeskInv, NEW o \in Ticket, NEW manual \in BOOLEAN, visit # 0,
         Mutate(o, manual), UNCHANGED <<shown, resend, modal, visit>>
  PROVE  DeskInv'
<1>1. PICK n \in AssignNo :
        /\ assign[n] = NoCall /\ \A k \in 1 .. n - 1 : assign[k] # NoCall
        /\ entries' = entries \cup {[order |-> o, no |-> n]}
        /\ assign' = [assign EXCEPT ![n] = [at |-> "sent", order |-> o, manual |-> manual, visit |-> visit]]
        /\ latest' = n
  BY DEF Mutate
<1> DEFINE call == [at |-> "sent", order |-> o, manual |-> manual, visit |-> visit]
<1>2. call \in AssignCall /\ call # NoCall
  BY DEF AssignCall, NoCall, DeskInv, DeskTypeOK
<1>3. assign'[n] = call /\ \A k \in AssignNo \ {n} : assign'[k] = assign[k]
  BY <1>1 DEF DeskInv, DeskTypeOK
<1>4. DeskTypeOK'
  <2>1. entries' \subseteq Entries /\ latest' \in 0 .. MaxAssigns
    BY <1>1, DeskAssumption DEF DeskInv, DeskTypeOK, Entries, AssignNo
  <2>2. assign' \in [AssignNo -> AssignCall]
    BY <1>1, <1>2 DEF DeskInv, DeskTypeOK
  <2>3. QED
    BY <2>1, <2>2 DEF DeskInv, DeskTypeOK
<1>5. \A k \in AssignNo : Made(k)' <=> Made(k) \/ k = n
  BY <1>2, <1>3 DEF Made
<1>6. \A k \in AssignNo : Made(k) => k < n
  BY <1>1, DeskAssumption DEF DeskInv, Numbered, Made, AssignNo
<1>7. Numbered'
  <2>1. ASSUME NEW m \in AssignNo, Made(m)'
        PROVE  assign'[m].visit # 0 /\ \A k \in 1 .. m - 1 : Made(k)'
    <3>1. assign'[m].visit # 0
      BY <1>3, <1>5, <2>1 DEF DeskInv, Numbered
    <3>2. \A k \in 1 .. m - 1 : k \in AssignNo /\ Made(k)
      BY <1>1, <1>5, <2>1, DeskAssumption DEF DeskInv, Numbered, Made, AssignNo
    <3>3. QED
      BY <1>5, <3>1, <3>2
  <2>2. Made(latest)' /\ (modal # NoTicket => visit # 0)'
    BY <1>1, <1>5 DEF DeskInv, Numbered
  <2>3. QED
    BY <2>1, <2>2 DEF Numbered
<1>8. Covered'
  <2>1. \A e \in entries : e.no \in AssignNo /\ e.no < n
    <3> SUFFICES ASSUME NEW e \in entries PROVE e.no \in AssignNo /\ e.no < n
      OBVIOUS
    <3>1. e.no \in AssignNo /\ e.no <= latest /\ latest \in AssignNo
      BY DeskAssumption DEF DeskInv, DeskTypeOK, Covered, Entries, AssignNo
    <3>2. Made(latest)
      BY <3>1 DEF DeskInv, Numbered, AssignNo
    <3>3. QED
      BY <1>1, <1>6, <3>1, <3>2 DEF AssignNo
  <2>2. \A e \in entries' : e.no <= latest'
    BY <1>1, <2>1 DEF AssignNo
  <2>3. ASSUME NEW m \in AssignNo, assign'[m].at = "sent", assign'[m].visit = visit'
        PROVE  [order |-> assign'[m].order, no |-> m] \in entries'
    <3>1. CASE m = n
      BY <1>1, <1>3, <3>1
    <3>2. CASE m # n
      BY <1>1, <1>3, <2>3, <3>2 DEF DeskInv, Covered
    <3>3. QED
      BY <3>1, <3>2
  <2>4. QED
    BY <2>2, <2>3 DEF Covered
<1>9. PendingCleared'
  <2> SUFFICES ASSUME NEW e \in entries'
               PROVE  assign'[e.no].at = "sent" \/ \E k \in AssignNo : k > e.no /\ Made(k)'
    BY DEF PendingCleared, Made
  <2>1. CASE e = [order |-> o, no |-> n]
    BY <1>3, <2>1
  <2>2. CASE e \in entries
    <3>1. e.no \in AssignNo /\ e.no < n
      <4>1. e.no \in AssignNo /\ e.no <= latest /\ latest \in AssignNo
        BY <2>2, DeskAssumption DEF DeskInv, DeskTypeOK, Covered, Entries, AssignNo
      <4>2. Made(latest)
        BY <4>1 DEF DeskInv, Numbered, AssignNo
      <4>3. QED
        BY <1>1, <1>6, <4>1, <4>2 DEF AssignNo
    <3>2. QED
      BY <1>5, <3>1 DEF AssignNo
  <2>3. QED
    BY <1>1, <2>1, <2>2
<1>10. QED
  BY <1>4, <1>7, <1>8, <1>9 DEF DeskInv

\* An answer: the call that is over is the latest, whose entry goes, or a later one was made.
LEMMA AssignSettlesKeepsInv ==
  ASSUME DeskInv, NEW n \in AssignNo, NEW ok \in BOOLEAN, AssignSettles(n, ok)
  PROVE  DeskInv'
<1>1. \A k \in AssignNo : /\ assign'[k].order = assign[k].order /\ assign'[k].visit = assign[k].visit
                          /\ assign'[k].at = IF k = n THEN "settled" ELSE assign[k].at
                          /\ k # n => assign'[k] = assign[k]
  BY DEF AssignSettles, DeskInv, DeskTypeOK, AssignCall
<1>2. \A k \in AssignNo : Made(k)' <=> Made(k)
  BY <1>1 DEF AssignSettles, Made, NoCall
<1>3. DeskTypeOK'
  <2>1. assign' \in [AssignNo -> AssignCall]
    BY DEF AssignSettles, DeskInv, DeskTypeOK, AssignCall
  <2>2. QED
    BY <2>1 DEF AssignSettles, DeskInv, DeskTypeOK
<1>4. Numbered'
  <2>1. \A m \in AssignNo : 1 .. m - 1 \subseteq AssignNo
    BY DeskAssumption DEF AssignNo
  <2>2. latest # 0 => latest \in AssignNo
    BY DeskAssumption DEF DeskInv, DeskTypeOK, AssignNo
  <2>3. modal' # NoTicket => modal # NoTicket
    BY DEF AssignSettles
  <2>4. latest' = latest /\ visit' = visit
    BY DEF AssignSettles
  <2>5. (\A m \in AssignNo : Made(m) => assign[m].visit # 0 /\ \A k \in 1 .. m - 1 : Made(k))'
    BY <1>1, <1>2, <2>1 DEF DeskInv, Numbered
  <2>6. (latest # 0 => Made(latest))'
    BY <1>2, <2>2, <2>4 DEF DeskInv, Numbered
  <2>7. QED
    BY <2>3, <2>4, <2>5, <2>6 DEF DeskInv, Numbered
<1>5. Covered'
  <2>1. \A e \in entries' : e.no <= latest'
    BY DEF AssignSettles, DeskInv, Covered
  <2>2. ASSUME NEW m \in AssignNo, assign'[m].at = "sent", assign'[m].visit = visit'
        PROVE  [order |-> assign'[m].order, no |-> m] \in entries'
    <3>1. m # n /\ assign'[m] = assign[m] /\ visit' = visit
      BY <1>1, <2>2 DEF AssignSettles
    <3>2. [order |-> assign[m].order, no |-> m] \in entries
      BY <2>2, <3>1 DEF DeskInv, Covered
    <3>3. QED
      BY <3>1, <3>2 DEF AssignSettles
  <2>3. QED
    BY <2>1, <2>2 DEF Covered
<1>6. PendingCleared'
  <2> SUFFICES ASSUME NEW e \in entries'
               PROVE  assign'[e.no].at = "sent" \/ \E k \in AssignNo : k > e.no /\ Made(k)'
    BY DEF PendingCleared, Made
  <2>1. e \in entries /\ e.no \in AssignNo /\ e.no <= latest /\ (n = latest => e.no # n)
    BY DEF AssignSettles, DeskInv, DeskTypeOK, Covered, Entries
  <2>2. latest \in AssignNo /\ Made(latest)
    BY <2>1, DeskAssumption DEF DeskInv, DeskTypeOK, Numbered, AssignNo
  <2>3. CASE e.no = n
    <3>1. latest > e.no
      BY <2>1, <2>2, <2>3, DeskAssumption DEF AssignNo
    <3>2. QED
      BY <1>2, <2>2, <3>1
  <2>4. CASE e.no # n
    <3>1. assign[e.no].at = "sent" \/ \E k \in AssignNo : k > e.no /\ Made(k)
      BY <2>1 DEF DeskInv, PendingCleared, Made
    <3>2. QED
      BY <1>1, <1>2, <2>1, <2>4, <3>1
  <2>5. QED
    BY <2>3, <2>4
<1>7. QED
  BY <1>3, <1>4, <1>5, <1>6 DEF DeskInv

\* Lists, window and resend: the calls and their entries stay.
LEMMA OthersKeepInv ==
  ASSUME DeskInv, UNCHANGED <<entries, assign, latest, visit>>,
         DeskTypeOK', modal' # NoTicket => visit # 0
  PROVE  DeskInv'
  BY DEF DeskInv, Numbered, Covered, PendingCleared, Made

\* A page that is left forgets its entries; a page that is opened has made no call yet.
LEMMA VisitKeepsInv ==
  ASSUME DeskInv, LeavePage \/ OpenPage
  PROVE  DeskInv'
<1>1. CASE LeavePage
  <2>1. DeskTypeOK'
    BY <1>1, DeskAssumption DEF LeavePage, DeskInv, DeskTypeOK
  <2>2. \A n \in AssignNo : assign[n].at = "sent" => assign[n].visit # 0
    BY DEF DeskInv, Numbered, Made, NoCall
  <2>3. QED
    BY <1>1, <2>1, <2>2 DEF LeavePage, DeskInv, Numbered, Covered, PendingCleared, Made
<1>2. CASE OpenPage
  <2>1. PICK v \in 2 .. MaxVisits : (\A n \in AssignNo : assign[n].visit < v) /\ visit' = v
    BY <1>2 DEF OpenPage
  <2>2. DeskTypeOK' /\ visit' # 0
    BY <1>2, <2>1, DeskAssumption DEF OpenPage, DeskInv, DeskTypeOK
  <2>3. \A n \in AssignNo : assign'[n].visit # visit'
    BY <1>2, <2>1, DeskAssumption DEF OpenPage, DeskInv, DeskTypeOK, AssignCall
  <2>4. QED
    BY <1>2, <2>2, <2>3 DEF OpenPage, DeskInv, Numbered, Covered, PendingCleared, Made
<1>3. QED
  BY <1>1, <1>2

LEMMA DeskStepInv == DeskInv /\ [DeskNext]_deskVars => DeskInv'
<1> SUFFICES ASSUME DeskInv, [DeskNext]_deskVars PROVE DeskInv'
  OBVIOUS
<1>1. ASSUME NEW o \in Ticket, Drop(o) PROVE DeskInv'
  BY <1>1, MutateKeepsInv DEF Drop, Draggable
<1>2. CASE SubmitManual
  <2>1. modal \in Ticket /\ visit # 0
    BY <1>2 DEF SubmitManual, DeskInv, DeskTypeOK, Numbered
  <2>2. QED
    BY <1>2, <2>1, MutateKeepsInv DEF SubmitManual
<1>3. ASSUME NEW n \in AssignNo, NEW ok \in BOOLEAN, AssignSettles(n, ok) PROVE DeskInv'
  BY <1>3, AssignSettlesKeepsInv
<1>4. ASSUME NEW o \in Ticket, OpenManual(o) \/ ResendCard(o) PROVE DeskInv'
  <2>1. DeskTypeOK'
    BY <1>4 DEF OpenManual, ResendCard, DeskInv, DeskTypeOK
  <2>2. QED
    BY <1>4, <2>1, OthersKeepInv DEF OpenManual, ResendCard, DeskInv, Numbered
<1>5. CASE ListsRefetched \/ CloseManual \/ ResendSettles
  <2>1. DeskTypeOK'
    BY <1>5 DEF ListsRefetched, CloseManual, ResendSettles, DeskInv, DeskTypeOK
  <2>2. QED
    BY <1>5, <2>1, OthersKeepInv DEF ListsRefetched, CloseManual, ResendSettles, DeskInv, Numbered
<1>6. CASE LeavePage \/ OpenPage
  BY <1>6, VisitKeepsInv
<1>7. CASE UNCHANGED deskVars
  <2>1. DeskTypeOK'
    BY <1>7 DEF deskVars, DeskInv, DeskTypeOK
  <2>2. QED
    BY <1>7, <2>1, OthersKeepInv DEF deskVars, DeskInv, Numbered
<1>8. QED
  BY <1>1, <1>2, <1>3, <1>4, <1>5, <1>6, <1>7 DEF DeskNext

LEMMA DeskInvAlways == DeskSpec => []DeskInv
  BY DeskInitInv, DeskStepInv, PTL DEF DeskSpec

\* Every variable keeps its type.
THEOREM DeskTypeSafe == DeskSpec => []DeskTypeOK
<1>1. DeskInv => DeskTypeOK
  BY DEF DeskInv
<1>2. QED
  BY <1>1, DeskInvAlways, PTL

\* An entry whose request is over stays only where a later assignment was started.
THEOREM EntriesAreCleared == DeskSpec => []PendingCleared
<1>1. DeskInv => PendingCleared
  BY DEF DeskInv
<1>2. QED
  BY <1>1, DeskInvAlways, PTL

LEMMA InFlightIsCovered ==
  ASSUME DeskInv, NEW o \in Ticket, InFlight(o)
  PROVE  o \in PendingOrders
<1>1. PICK n \in AssignNo : assign[n].at = "sent" /\ assign[n].order = o /\ assign[n].visit = visit
  BY DEF InFlight
<1>2. [order |-> o, no |-> n] \in entries
  BY <1>1 DEF DeskInv, Covered
<1>3. QED
  BY <1>2 DEF PendingOrders

\* What Mutate makes is one call, for its order.
LEMMA MutateCommands ==
  ASSUME DeskInv, NEW p \in Ticket, NEW manual \in BOOLEAN, Mutate(p, manual),
         resend' = resend, NEW o \in Ticket, Commanded(o)
  PROVE  o = p
<1>1. PICK n \in AssignNo :
        assign' = [assign EXCEPT ![n] = [at |-> "sent", order |-> p, manual |-> manual, visit |-> visit]]
  BY DEF Mutate
<1>2. PICK m \in AssignNo : assign[m] = NoCall /\ assign'[m] # NoCall /\ assign'[m].order = o
  BY DEF Commanded
<1>3. m = n
  BY <1>1, <1>2 DEF DeskInv, DeskTypeOK
<1>4. QED
  BY <1>1, <1>2, <1>3 DEF DeskInv, DeskTypeOK

LEMMA OneCommandStep ==
  ASSUME DeskInv, [DeskNext]_deskVars, NEW o \in Ticket, Commanded(o)
  PROVE  ~InFlight(o)
<1>1. ASSUME NEW p \in Ticket, Drop(p) PROVE ~InFlight(o)
  <2>1. o = p
    BY <1>1, MutateCommands DEF Drop, Draggable
  <2>2. QED
    BY <1>1, <2>1, InFlightIsCovered DEF Drop, Draggable
<1>2. CASE SubmitManual
  <2>1. modal \in Ticket
    BY <1>2 DEF SubmitManual, DeskInv, DeskTypeOK
  <2>2. o = modal
    BY <1>2, <2>1, MutateCommands DEF SubmitManual
  <2>3. QED
    BY <1>2, <2>2, InFlightIsCovered DEF SubmitManual
<1>3. ASSUME NEW p \in Ticket, ResendCard(p) PROVE ~InFlight(o)
  <2>1. o = p /\ ~CardBusy(p)
    BY <1>3 DEF ResendCard, Commanded
  <2>2. QED
    BY <2>1, InFlightIsCovered DEF CardBusy
<1>4. ASSUME NEW n \in AssignNo, NEW ok \in BOOLEAN, AssignSettles(n, ok) PROVE FALSE
  <2>1. \A m \in AssignNo : assign[m] = NoCall => assign'[m] = NoCall
    <3>1. NoCall.at # "sent" /\ assign[n].at = "sent"
      BY <1>4 DEF AssignSettles, NoCall
    <3>2. \A m \in AssignNo \ {n} : assign'[m] = assign[m]
      BY <1>4 DEF AssignSettles, DeskInv, DeskTypeOK
    <3>3. QED
      BY <3>1, <3>2
  <2>2. QED
    BY <1>4, <2>1 DEF AssignSettles, Commanded
<1>5. ASSUME assign' = assign, resend' \in {resend, NoTicket} PROVE FALSE
  BY <1>5, DeskAssumption DEF Commanded
<1>6. QED
  BY <1>1, <1>2, <1>3, <1>4, <1>5 DEF DeskNext, OpenManual, ListsRefetched, CloseManual, ResendSettles, LeavePage, OpenPage, deskVars

\* While an assignment of an order is on its way, the page that asked for it sends no other
\* command for that order.
THEOREM NoSecondCommand == DeskSpec => OneCommand
<1>1. DeskInv /\ [DeskNext]_deskVars => [\A o \in Ticket : Commanded(o) => ~InFlight(o)]_deskVars
  BY OneCommandStep
<1>2. QED
  BY <1>1, DeskInvAlways, PTL DEF DeskSpec, OneCommand

-----------------------------------------------------------------------------
(* SaveKeepsTheRest, for any fields, values and number of writes.  What a PATCH carries    *)
(* was collected steps ago: that it agrees with the row where nothing was touched needs    *)
(* that the card did when it was filled, and that its write number tells whether the row   *)
(* has changed since.  To agree is to be the row with its view resolved: what a card has   *)
(* saved has a whole view and resolves to itself.                                           *)

\* Where nothing was touched, the values are the row's, with its view or the fallback.
Agree(values, touched) == \A f \in Setting \ touched : values[f] = Resolved(settingsRow)[f]

\* What was touched and is not yet in the row.
Unwritten == IF patch.at = "sent" THEN card.touched \cup patch.card.touched ELSE card.touched

\* No copy is of a later write than the last.
WritesNumbered ==
    /\ held.no <= saves /\ reading.no <= saves
    /\ card.base <= saves /\ patch.card.base <= saves

\* A copy of the last write is the row, a card's but for what was touched on it.
HeldAgrees == held.at = "data" /\ held.no = saves => held.values = settingsRow
ReadAgrees == reading.at = "read" /\ reading.no = saves => reading.values = settingsRow
CardAgrees == card.loaded /\ card.base = saves => Agree(card.values, Unwritten)
SentAgrees ==
    patch.at = "sent" /\ patch.card.loaded
    => /\ card.loaded
       /\ \A f \in Setting \ card.touched : card.values[f] = patch.card.values[f]
       /\ patch.card.base = saves => Agree(patch.card.values, patch.card.touched)
\* Who leaves the card drops its PATCH.
ClosedIsIdle == patch.at # "none" => card.open

DoneAgrees == patch.at = "done" /\ patch.card.base = saves => patch.card.values = settingsRow

SettingsInv ==
    /\ SettingsTypeOK /\ WritesNumbered /\ ClosedIsIdle
    /\ HeldAgrees /\ ReadAgrees /\ CardAgrees /\ SentAgrees /\ DoneAgrees

-----------------------------------------------------------------------------
\* A row resolves to values of the form, and those to themselves.
LEMMA Resolves ==
  /\ \A v \in RowValues : Resolved(v) \in FormValues
  /\ \A v \in FormValues : v \in RowValues /\ Resolved(v) = v
<1>1. ASSUME NEW v \in RowValues PROVE Resolved(v) \in FormValues
  <2>1. v \in [Setting -> Choice \cup {Unset}] /\ \A f \in Setting \ View : v[f] \in Choice
    BY DEF RowValues
  <2>2. CASE \E f \in View : v[f] = Unset
    <3>1. Resolved(v) = [f \in Setting |-> IF f \in View THEN Initially[f] ELSE v[f]]
      BY <2>2 DEF Resolved
    <3>2. QED
      BY <2>1, <3>1, SettingsAssumption DEF FormValues
  <2>3. CASE ~\E f \in View : v[f] = Unset
    <3>1. Resolved(v) = v
      BY <2>3 DEF Resolved
    <3>2. \A f \in Setting : v[f] \in Choice
      BY <2>1, <2>3
    <3>3. QED
      BY <2>1, <3>1, <3>2 DEF FormValues
  <2>4. QED
    BY <2>2, <2>3
<1>2. ASSUME NEW v \in FormValues PROVE v \in RowValues /\ Resolved(v) = v
  <2>1. \A f \in Setting : v[f] # Unset
    BY SettingsAssumption DEF FormValues
  <2>2. QED
    BY <2>1, SettingsAssumption DEF FormValues, RowValues, Resolved
<1>3. QED
  BY <1>1, <1>2

LEMMA BlankTyped ==
  /\ NoData("none") \in Reading /\ NoData("sent") \in Reading
  /\ NoData("none") \in Held
  /\ BlankCard(TRUE) \in SettingsCard /\ BlankCard(FALSE) \in SettingsCard
  /\ NoPatch \in Patch
  <1>1. Initially \in FormValues /\ Initially \in RowValues /\ 0 \in SaveNo
    BY SettingsAssumption, Resolves DEF FormValues, SaveNo
  <1>2. QED
    BY <1>1 DEF NoData, Reading, Held, BlankCard, SettingsCard, NoPatch, Patch

LEMMA SettingsInitInv == SettingsInit => SettingsInv
<1> SUFFICES ASSUME SettingsInit PROVE SettingsInv
  OBVIOUS
<1>1. SettingsTypeOK
  <2>1. settingsRow \in RowValues /\ saves \in SaveNo
    BY SettingsAssumption DEF SettingsInit, SaveNo
  <2>2. held \in Held /\ reading \in Reading /\ card \in SettingsCard /\ patch \in Patch
    BY BlankTyped, Zenon DEF SettingsInit
  <2>3. QED
    BY <2>1, <2>2 DEF SettingsTypeOK
<1>2. QED
  BY <1>1 DEF SettingsInit, SettingsInv, WritesNumbered, HeldAgrees, ReadAgrees, CardAgrees, SentAgrees,
              DoneAgrees, ClosedIsIdle, NoData, BlankCard, NoPatch

\* A step that leaves the card, its PATCH and the row alone.
LEMMA CopiesKeepInv ==
  ASSUME SettingsInv, UNCHANGED <<settingsRow, saves, card, patch>>,
         held' \in Held, reading' \in Reading,
         held'.no <= saves, reading'.no <= saves, HeldAgrees', ReadAgrees'
  PROVE  SettingsInv'
<1>1. SettingsTypeOK' /\ WritesNumbered'
  BY DEF SettingsInv, SettingsTypeOK, WritesNumbered
<1>2. CardAgrees' /\ SentAgrees' /\ DoneAgrees'
  BY DEF SettingsInv, CardAgrees, SentAgrees, DoneAgrees, Agree, Unwritten
<1>3. ClosedIsIdle'
  BY DEF SettingsInv, ClosedIsIdle
<1>4. QED
  BY <1>1, <1>2, <1>3 DEF SettingsInv

LEMMA QueryKeepsInv ==
  ASSUME SettingsInv, SettingsFetched \/ SettingsRead \/ SettingsFail \/ SettingsDropped
  PROVE  SettingsInv'
<1>1. CASE SettingsFetched
  BY <1>1, BlankTyped, CopiesKeepInv
  DEF SettingsFetched, SettingsInv, SettingsTypeOK, WritesNumbered, HeldAgrees, ReadAgrees, NoData, SaveNo
<1>2. CASE SettingsRead
  <2>1. reading' \in Reading
    BY <1>2 DEF SettingsRead, SettingsInv, SettingsTypeOK, Reading
  <2>2. QED
    BY <1>2, <2>1, CopiesKeepInv
    DEF SettingsRead, SettingsInv, SettingsTypeOK, WritesNumbered, HeldAgrees, ReadAgrees, SaveNo
<1>3. CASE SettingsFail
  BY <1>3, BlankTyped, CopiesKeepInv
  DEF SettingsFail, SettingsInv, SettingsTypeOK, WritesNumbered, HeldAgrees, ReadAgrees, NoData, SaveNo
<1>4. CASE SettingsDropped
  BY <1>4, BlankTyped, CopiesKeepInv
  DEF SettingsDropped, SettingsInv, SettingsTypeOK, WritesNumbered, HeldAgrees, ReadAgrees, NoData, SaveNo
<1>5. QED
  BY <1>1, <1>2, <1>3, <1>4

-----------------------------------------------------------------------------
LEMMA FilledTyped ==
  ASSUME NEW c \in SettingsCard, NEW data, data.no \in SaveNo, data.values \in RowValues
  PROVE  /\ Filled(c, data) \in SettingsCard
         /\ Filled(c, data).base = data.no
         /\ Filled(c, data).values = Resolved(data.values)
         /\ Filled(c, data).loaded
         /\ Filled(c, data).open = c.open
  BY Resolves DEF Filled, SettingsCard

\* A card that was not loaded is filled from a copy of the row: nobody's PATCH is of it.
LEMMA FillAgrees ==
  ASSUME SettingsInv, NEW data, data.no <= saves, data.no = saves => data.values = settingsRow,
         data.no \in SaveNo, data.values \in RowValues, NEW c \in SettingsCard,
         card' = Filled(c, data), ~(patch.at = "sent" /\ patch.card.loaded),
         UNCHANGED <<settingsRow, saves, patch>>
  PROVE  card' \in SettingsCard /\ card'.base <= saves /\ CardAgrees' /\ SentAgrees' /\ DoneAgrees'
<1>1. card' \in SettingsCard /\ card'.base = data.no /\ card'.values = Resolved(data.values)
  BY FilledTyped
<1>2. CardAgrees'
  BY <1>1 DEF CardAgrees, Agree
<1>3. SentAgrees' /\ DoneAgrees'
  BY DEF SettingsInv, SentAgrees, DoneAgrees
<1>4. QED
  BY <1>1, <1>2, <1>3

LEMMA ArriveKeepsInv ==
  ASSUME SettingsInv, SettingsArrive
  PROVE  SettingsInv'
<1>1. held' \in Held /\ held'.no = reading.no /\ held'.values = reading.values
  BY DEF SettingsArrive, SettingsInv, SettingsTypeOK, Reading, Held
<1>2. reading' \in Reading /\ reading'.no = 0 /\ reading'.at = "none"
  BY BlankTyped DEF SettingsArrive, NoData
<1>3. HeldAgrees' /\ ReadAgrees'
  BY <1>1, <1>2 DEF SettingsArrive, SettingsInv, HeldAgrees, ReadAgrees
<1>4. /\ card' \in SettingsCard /\ card'.base <= saves
      /\ CardAgrees' /\ SentAgrees' /\ DoneAgrees'
  <2>1. CASE card.open /\ ~card.loaded
    <3>1. card' = Filled(card, reading) /\ UNCHANGED <<settingsRow, saves, patch>>
      BY <2>1 DEF SettingsArrive
    <3>2. reading.no \in SaveNo /\ reading.values \in RowValues /\ card \in SettingsCard
      BY DEF SettingsInv, SettingsTypeOK, Reading
    <3>3. ~(patch.at = "sent" /\ patch.card.loaded)
      BY <2>1 DEF SettingsInv, SentAgrees
    <3>4. reading.no <= saves /\ (reading.no = saves => reading.values = settingsRow)
      BY DEF SettingsArrive, SettingsInv, WritesNumbered, ReadAgrees
    <3>5. QED
      BY <3>1, <3>2, <3>3, <3>4, FillAgrees
  <2>2. CASE ~(card.open /\ ~card.loaded)
    BY <2>2 DEF SettingsArrive, SettingsInv, SettingsTypeOK, WritesNumbered, CardAgrees, SentAgrees,
                DoneAgrees, Agree, Unwritten
  <2>3. QED
    BY <2>1, <2>2
<1>5. SettingsTypeOK' /\ WritesNumbered'
  BY <1>1, <1>2, <1>4 DEF SettingsArrive, SettingsInv, SettingsTypeOK, WritesNumbered, SaveNo
<1>6. ClosedIsIdle'
  <2>1. card'.open = card.open
    BY FilledTyped DEF SettingsArrive, SettingsInv, SettingsTypeOK, Reading
  <2>2. QED
    BY <2>1 DEF SettingsArrive, SettingsInv, ClosedIsIdle
<1>7. QED
  BY <1>3, <1>4, <1>5, <1>6 DEF SettingsInv

LEMMA OpenKeepsInv ==
  ASSUME SettingsInv, OpenCard
  PROVE  SettingsInv'
<1>1. /\ BlankCard(TRUE) \in SettingsCard /\ patch.at = "none" /\ saves \in Nat
      /\ reading' \in Reading /\ reading'.no <= saves /\ ReadAgrees'
  <2>1. BlankCard(TRUE) \in SettingsCard /\ patch.at = "none" /\ saves \in Nat
    <3>1. BlankCard(TRUE) \in SettingsCard
      BY BlankTyped, Zenon
    <3>2. patch.at = "none"
      BY DEF OpenCard, SettingsInv, ClosedIsIdle
    <3>3. saves \in Nat
      BY DEF SettingsInv, SettingsTypeOK, SaveNo
    <3>4. QED
      BY <3>1, <3>2, <3>3
  <2>2. CASE reading' = reading
    BY <2>1, <2>2 DEF OpenCard, SettingsInv, SettingsTypeOK, WritesNumbered, ReadAgrees
  <2>3. CASE reading' = NoData("sent")
    <3>1. reading' \in Reading
      BY <2>3, BlankTyped, Zenon
    <3>2. reading'.no = 0 /\ reading'.at = "sent"
      BY <2>3 DEF NoData
    <3>3. reading'.no <= saves /\ ReadAgrees'
      BY <2>1, <3>2 DEF ReadAgrees
    <3>4. QED
      BY <2>1, <3>1, <3>3
  <2>4. QED
    BY <2>1, <2>2, <2>3 DEF OpenCard
<1>2. /\ card' \in SettingsCard /\ card'.base <= saves
      /\ CardAgrees' /\ SentAgrees' /\ DoneAgrees'
  <2>1. CASE held.at = "data"
    <3>1. card' = Filled(BlankCard(TRUE), held) /\ UNCHANGED <<settingsRow, saves, patch>>
      BY <2>1 DEF OpenCard
    <3>2. held.no \in SaveNo /\ held.values \in RowValues
      BY DEF SettingsInv, SettingsTypeOK, Held
    <3>3. held.no <= saves /\ (held.no = saves => held.values = settingsRow)
      BY <2>1 DEF SettingsInv, WritesNumbered, HeldAgrees
    <3>4. ~(patch.at = "sent" /\ patch.card.loaded)
      BY <1>1
    <3>5. QED
      BY <1>1, <3>1, <3>2, <3>3, <3>4, FillAgrees
  <2>2. CASE held.at # "data"
    <3>1. card' = BlankCard(TRUE) /\ patch' = patch
      BY <2>2 DEF OpenCard
    <3>2. card'.base <= saves
      BY <1>1, <3>1 DEF BlankCard
    <3>3. QED
      BY <1>1, <3>1, <3>2 DEF CardAgrees, SentAgrees, DoneAgrees, BlankCard
  <2>3. QED
    BY <2>1, <2>2
<1>3. SettingsTypeOK' /\ WritesNumbered' /\ HeldAgrees'
  BY <1>1, <1>2 DEF OpenCard, SettingsInv, SettingsTypeOK, WritesNumbered, HeldAgrees
<1>4. ClosedIsIdle'
  BY <1>1 DEF OpenCard, ClosedIsIdle
<1>5. QED
  BY <1>1, <1>2, <1>3, <1>4 DEF SettingsInv

-----------------------------------------------------------------------------
LEMMA LeaveKeepsInv ==
  ASSUME SettingsInv, LeaveCard
  PROVE  SettingsInv'
<1>1. card' \in SettingsCard /\ patch' \in Patch
  BY BlankTyped DEF LeaveCard
<1>2. SettingsTypeOK' /\ WritesNumbered'
  BY <1>1 DEF LeaveCard, SettingsInv, SettingsTypeOK, WritesNumbered, BlankCard, NoPatch, SaveNo
<1>3. HeldAgrees' /\ ReadAgrees' /\ CardAgrees' /\ SentAgrees' /\ DoneAgrees'
  BY DEF LeaveCard, SettingsInv, HeldAgrees, ReadAgrees, CardAgrees, SentAgrees, DoneAgrees,
         BlankCard, NoPatch
<1>4. ClosedIsIdle'
  BY DEF LeaveCard, ClosedIsIdle, NoPatch
<1>5. QED
  BY <1>2, <1>3, <1>4 DEF SettingsInv

LEMMA EditKeepsInv ==
  ASSUME SettingsInv, NEW g \in Setting, NEW v \in Choice, EditSetting(g, v)
  PROVE  SettingsInv'
<1>1. /\ card' \in SettingsCard /\ card'.base = card.base /\ card'.loaded = card.loaded
      /\ card'.touched = card.touched \cup {g}
      /\ \A f \in Setting \ {g} : card'.values[f] = card.values[f]
  BY DEF EditSetting, SettingsInv, SettingsTypeOK, SettingsCard, FormValues
<1>2. SettingsTypeOK' /\ WritesNumbered'
  BY <1>1 DEF EditSetting, SettingsInv, SettingsTypeOK, WritesNumbered
<1>3. CardAgrees' /\ SentAgrees'
  BY <1>1 DEF EditSetting, SettingsInv, CardAgrees, SentAgrees, Agree, Unwritten
<1>4. HeldAgrees' /\ ReadAgrees' /\ DoneAgrees' /\ ClosedIsIdle'
  BY DEF EditSetting, SettingsInv, SettingsTypeOK, SettingsCard, HeldAgrees, ReadAgrees, DoneAgrees,
         ClosedIsIdle
<1>5. QED
  BY <1>2, <1>3, <1>4 DEF SettingsInv

LEMMA ReportKeepsInv ==
  ASSUME SettingsInv, NEW view \in [View -> Choice], PickerReports(view)
  PROVE  SettingsInv'
<1>1. View \subseteq Setting
  BY SettingsAssumption
<1>2. /\ card' \in SettingsCard /\ card'.base = card.base /\ card'.loaded = card.loaded
      /\ card'.touched = card.touched \cup View
      /\ \A f \in Setting \ View : card'.values[f] = card.values[f]
  BY <1>1 DEF PickerReports, SettingsInv, SettingsTypeOK, SettingsCard, FormValues
<1>3. SettingsTypeOK' /\ WritesNumbered'
  BY <1>2 DEF PickerReports, SettingsInv, SettingsTypeOK, WritesNumbered
<1>4. CardAgrees' /\ SentAgrees'
  BY <1>2 DEF PickerReports, SettingsInv, CardAgrees, SentAgrees, Agree, Unwritten
<1>5. HeldAgrees' /\ ReadAgrees' /\ DoneAgrees' /\ ClosedIsIdle'
  BY DEF PickerReports, SettingsInv, SettingsTypeOK, SettingsCard, HeldAgrees, ReadAgrees, DoneAgrees,
         ClosedIsIdle
<1>6. QED
  BY <1>3, <1>4, <1>5 DEF SettingsInv

LEMMA SaveKeepsInv ==
  ASSUME SettingsInv, SaveSettings
  PROVE  SettingsInv'
<1>1. /\ card' \in SettingsCard /\ card'.base = card.base /\ card'.loaded = card.loaded
      /\ card'.values = card.values /\ card'.touched = {}
  BY DEF SaveSettings, SettingsInv, SettingsTypeOK, SettingsCard
<1>2. patch' \in Patch /\ patch'.at = "sent" /\ patch'.card = card
  BY DEF SaveSettings, SettingsInv, SettingsTypeOK, Patch
<1>3. SettingsTypeOK' /\ WritesNumbered'
  BY <1>1, <1>2 DEF SaveSettings, SettingsInv, SettingsTypeOK, WritesNumbered
<1>4. CardAgrees' /\ SentAgrees'
  BY <1>1, <1>2 DEF SaveSettings, SettingsInv, CardAgrees, SentAgrees, Agree, Unwritten, NoPatch
<1>5. HeldAgrees' /\ ReadAgrees' /\ DoneAgrees' /\ ClosedIsIdle'
  BY <1>2 DEF SaveSettings, SettingsInv, SettingsTypeOK, SettingsCard, HeldAgrees, ReadAgrees,
              DoneAgrees, ClosedIsIdle
<1>6. QED
  BY <1>3, <1>4, <1>5 DEF SettingsInv

-----------------------------------------------------------------------------
\* After a write every copy is of an earlier one.
LEMMA WriteOutdates ==
  ASSUME SettingsInv, NEW values, Written(values), UNCHANGED <<held, reading>>
  PROVE  /\ saves' = saves + 1 /\ saves \in Nat /\ saves' \in SaveNo
         /\ HeldAgrees' /\ ReadAgrees'
         /\ held'.no <= saves' /\ reading'.no <= saves'
         /\ card.base < saves' /\ patch.card.base < saves'
<1>1. saves \in Nat /\ saves' = saves + 1 /\ saves' \in SaveNo
  BY SettingsAssumption DEF Written, SettingsInv, SettingsTypeOK, SaveNo
<1>2. /\ held.no \in Nat /\ reading.no \in Nat /\ card.base \in Nat /\ patch.card.base \in Nat
      /\ held.no <= saves /\ reading.no <= saves /\ card.base <= saves /\ patch.card.base <= saves
  BY DEF SettingsInv, SettingsTypeOK, WritesNumbered, Held, Reading, SettingsCard, Patch, SaveNo
<1>3. QED
  BY <1>1, <1>2 DEF HeldAgrees, ReadAgrees

LEMMA PatchWritesKeepsInv ==
  ASSUME SettingsInv, PatchWrites
  PROVE  SettingsInv'
<1>1. /\ saves' = saves + 1 /\ saves \in Nat /\ saves' \in SaveNo
      /\ HeldAgrees' /\ ReadAgrees'
      /\ held'.no <= saves' /\ reading'.no <= saves'
      /\ card.base < saves'
  BY WriteOutdates DEF PatchWrites
<1>2. /\ patch' \in Patch /\ patch'.at = "done" /\ patch'.card.base = saves'
      /\ patch'.card.values = patch.card.values
      /\ settingsRow' = patch.card.values /\ settingsRow' \in FormValues
  BY <1>1 DEF PatchWrites, Written, SettingsInv, SettingsTypeOK, Patch, SettingsCard
<1>3. settingsRow' \in RowValues /\ Resolved(settingsRow') = settingsRow'
  BY <1>2, Resolves
<1>4. Resolved(settingsRow)' = settingsRow'
  BY <1>3 DEF Resolved
<1>5. /\ card' \in SettingsCard /\ card'.values = card.values /\ card'.touched = card.touched
      /\ card'.base = (IF patch.card.loaded THEN saves' ELSE card.base)
  BY <1>1 DEF PatchWrites, SettingsInv, SettingsTypeOK, SettingsCard
<1>6. SettingsTypeOK' /\ WritesNumbered'
  BY <1>1, <1>2, <1>5, <1>3 DEF PatchWrites, SettingsInv, SettingsTypeOK, WritesNumbered, SettingsCard, SaveNo
<1>7. CardAgrees'
  <2>1. CASE patch.card.loaded
    BY <1>2, <1>5, <1>4, <2>1 DEF PatchWrites, SettingsInv, SentAgrees, CardAgrees, Agree, Unwritten
  <2>2. CASE ~patch.card.loaded
    BY <1>1, <1>5, <2>2 DEF CardAgrees, SettingsInv, SettingsTypeOK, SettingsCard, SaveNo
  <2>3. QED
    BY <2>1, <2>2
<1>8. SentAgrees' /\ DoneAgrees'
  BY <1>2 DEF SentAgrees, DoneAgrees
<1>9. ClosedIsIdle'
  BY DEF PatchWrites, SettingsInv, SettingsTypeOK, SettingsCard, ClosedIsIdle
<1>10. QED
  BY <1>1, <1>6, <1>7, <1>8, <1>9 DEF SettingsInv

LEMMA OtherKeepsInv ==
  ASSUME SettingsInv, NEW values \in RowValues, OtherSaves(values)
  PROVE  SettingsInv'
<1>1. /\ saves' \in SaveNo /\ HeldAgrees' /\ ReadAgrees'
      /\ held'.no <= saves' /\ reading'.no <= saves'
      /\ card.base < saves' /\ patch.card.base < saves'
  BY WriteOutdates DEF OtherSaves
<1>2. card' = card /\ patch' = patch /\ settingsRow' \in RowValues
  BY DEF OtherSaves, Written
<1>3. card.base \in Nat /\ patch.card.base \in Nat /\ saves' \in Nat
  BY <1>1 DEF SettingsInv, SettingsTypeOK, SettingsCard, Patch, SaveNo
<1>4. SettingsTypeOK' /\ WritesNumbered'
  BY <1>1, <1>2, <1>3 DEF OtherSaves, SettingsInv, SettingsTypeOK, WritesNumbered
<1>5. card'.base # saves' /\ patch'.card.base # saves'
  BY <1>1, <1>2, <1>3
<1>6. CardAgrees' /\ SentAgrees' /\ DoneAgrees' /\ ClosedIsIdle'
  BY <1>2, <1>5 DEF SettingsInv, CardAgrees, SentAgrees, DoneAgrees, ClosedIsIdle
<1>7. QED
  BY <1>1, <1>4, <1>6 DEF SettingsInv

LEMMA RefilledFields ==
  ASSUME NEW c \in SettingsCard, NEW answer \in SettingsCard
  PROVE  /\ Refilled(c, answer) \in SettingsCard
         /\ Refilled(c, answer).loaded = c.loaded
         /\ Refilled(c, answer).touched = c.touched \ OfMap
         /\ Refilled(c, answer).base = (IF answer.base < c.base THEN answer.base ELSE c.base)
         /\ \A f \in Setting : Refilled(c, answer).values[f] =
                IF f \in OfMap THEN answer.values[f] ELSE c.values[f]
<1>1. Resolved(answer.values) = answer.values
  BY Resolves DEF SettingsCard
<1>2. QED
  BY <1>1 DEF Refilled, SettingsCard, FormValues

LEMMA AnswerKeepsInv ==
  ASSUME SettingsInv, PatchAnswered
  PROVE  SettingsInv'
<1> DEFINE answer == patch.card
<1>1. card \in SettingsCard /\ answer \in SettingsCard /\ card' = Refilled(card, answer)
  BY DEF PatchAnswered, SettingsInv, SettingsTypeOK, Patch
<1>2. /\ card' \in SettingsCard /\ card'.loaded = card.loaded
      /\ card'.touched = card.touched \ OfMap
      /\ card'.base = (IF answer.base < card.base THEN answer.base ELSE card.base)
      /\ \A f \in Setting : card'.values[f] = IF f \in OfMap THEN answer.values[f] ELSE card.values[f]
  BY <1>1, RefilledFields
<1>3. /\ saves \in Nat /\ card.base \in Nat /\ answer.base \in Nat
      /\ card.base <= saves /\ answer.base <= saves
  BY <1>1 DEF SettingsInv, SettingsTypeOK, WritesNumbered, SettingsCard, SaveNo
<1>4. /\ reading' \in Reading /\ reading'.at = "sent" /\ reading'.no = 0
      /\ patch' \in Patch /\ patch'.at = "none" /\ patch'.card.base = 0
  BY BlankTyped DEF PatchAnswered, SettingsInvalidated, NoData, NoPatch, BlankCard
<1>5. SettingsTypeOK' /\ WritesNumbered'
  BY <1>2, <1>3, <1>4 DEF PatchAnswered, SettingsInv, SettingsTypeOK, WritesNumbered
<1>6. CardAgrees'
  <2> SUFFICES ASSUME card'.loaded, card'.base = saves', NEW f \in Setting \ card'.touched
               PROVE  card'.values[f] = Resolved(settingsRow)[f]
    <3>1. Resolved(settingsRow)' = Resolved(settingsRow)
      BY DEF PatchAnswered, Resolved
    <3>2. QED
      BY <1>4, <3>1 DEF CardAgrees, Agree, Unwritten
  <2>1. UNCHANGED <<settingsRow, saves>> /\ patch.at = "done"
    BY DEF PatchAnswered
  <2>2. answer.base = saves /\ card.base = saves
    <3>1. card'.base = saves
      BY <2>1
    <3>2. QED
      BY <1>2, <1>3, <3>1
  <2>3. answer.values = settingsRow /\ Resolved(settingsRow) = settingsRow
    BY <1>1, <2>1, <2>2, Resolves DEF SettingsInv, DoneAgrees, SettingsCard
  <2>4. Agree(card.values, card.touched)
    BY <1>2, <2>1, <2>2 DEF SettingsInv, CardAgrees, Unwritten
  <2>5. QED
    BY <1>2, <2>1, <2>3, <2>4 DEF Agree
<1>7. HeldAgrees' /\ ReadAgrees' /\ SentAgrees' /\ DoneAgrees' /\ ClosedIsIdle'
  BY <1>4 DEF ClosedIsIdle, PatchAnswered, SettingsInv, HeldAgrees, ReadAgrees, SentAgrees, DoneAgrees
<1>8. QED
  BY <1>5, <1>6, <1>7 DEF SettingsInv

LEMMA LostKeepsInv ==
  ASSUME SettingsInv, PatchLost
  PROVE  SettingsInv'
<1>1. /\ card' \in SettingsCard /\ card'.base = card.base /\ card'.loaded = card.loaded
      /\ card'.values = card.values /\ card'.touched = Unwritten
  BY DEF PatchLost, SettingsInv, SettingsTypeOK, SettingsCard, Patch, Unwritten
<1>2. patch' \in Patch /\ patch'.at = "none" /\ patch'.card.base = 0
  BY BlankTyped DEF PatchLost, NoPatch, BlankCard
<1>3. SettingsTypeOK' /\ WritesNumbered'
  BY <1>1, <1>2 DEF PatchLost, SettingsInv, SettingsTypeOK, WritesNumbered, SaveNo
<1>4. CardAgrees'
  BY <1>1, <1>2 DEF PatchLost, SettingsInv, CardAgrees, Agree, Unwritten
<1>5. HeldAgrees' /\ ReadAgrees' /\ SentAgrees' /\ DoneAgrees' /\ ClosedIsIdle'
  BY <1>2 DEF ClosedIsIdle, PatchLost, SettingsInv, HeldAgrees, ReadAgrees, SentAgrees, DoneAgrees
<1>6. QED
  BY <1>3, <1>4, <1>5 DEF SettingsInv

-----------------------------------------------------------------------------
LEMMA SettingsNextInv == SettingsInv /\ [SettingsNext]_settingsVars => SettingsInv'
<1> SUFFICES ASSUME SettingsInv, [SettingsNext]_settingsVars PROVE SettingsInv'
  OBVIOUS
<1>1. CASE SettingsFetched \/ SettingsRead \/ SettingsFail \/ SettingsDropped
  BY <1>1, QueryKeepsInv
<1>2. CASE SettingsArrive
  BY <1>2, ArriveKeepsInv
<1>3. CASE OpenCard
  BY <1>3, OpenKeepsInv
<1>4. CASE LeaveCard
  BY <1>4, LeaveKeepsInv
<1>5. CASE SaveSettings
  BY <1>5, SaveKeepsInv
<1>6. CASE PatchWrites
  BY <1>6, PatchWritesKeepsInv
<1>7. CASE PatchAnswered
  BY <1>7, AnswerKeepsInv
<1>8. CASE PatchLost
  BY <1>8, LostKeepsInv
<1>9. CASE \E f \in Setting, v \in Choice : EditSetting(f, v)
  BY <1>9, EditKeepsInv
<1>10. CASE \E values \in RowValues : OtherSaves(values)
  BY <1>10, OtherKeepsInv
<1>11. CASE \E view \in [View -> Choice] : PickerReports(view)
  BY <1>11, ReportKeepsInv
<1>12. CASE UNCHANGED settingsVars
  BY <1>12 DEF settingsVars, SettingsInv, SettingsTypeOK, WritesNumbered, ClosedIsIdle, HeldAgrees, ReadAgrees,
               CardAgrees, SentAgrees, DoneAgrees, Agree, Unwritten
<1>13. QED
  BY <1>1, <1>2, <1>3, <1>4, <1>5, <1>6, <1>7, <1>8, <1>9, <1>10, <1>12, <1>11 DEF SettingsNext

\* The row, its copies, the card and its PATCH keep their types, and every copy of the last
\* write agrees with the row, its view resolved (dashboard-map-settings-card.tsx, map-default-view.ts).
THEOREM SettingsInvariance == SettingsSpec => []SettingsInv
<1>1. QED
  BY SettingsInitInv, SettingsNextInv, PTL DEF SettingsSpec

\* A save writes what the row had, its view resolved, wherever neither the user nor the map touched
\* the card, however many fields, pages and writes there are (onSave, onSuccess).
THEOREM SavesKeepTheRest == SettingsSpec => SaveKeepsTheRest
<1> DEFINE Kept == PatchWritten /\ patch.card.loaded /\ patch.card.base = saves
                    => \A f \in Setting \ patch.card.touched : settingsRow'[f] = Resolved(settingsRow)[f]
<1>1. SettingsInv /\ [SettingsNext]_settingsVars => [Kept]_settingsVars
  <2> SUFFICES ASSUME SettingsInv, SettingsNext, PatchWritten, patch.card.loaded, patch.card.base = saves,
                      NEW f \in Setting \ patch.card.touched
               PROVE  settingsRow'[f] = Resolved(settingsRow)[f]
    OBVIOUS
  <2>1. PatchWrites
    <3>1. patch' # patch /\ patch.at = "sent" /\ patch'.at = "done"
      BY DEF PatchWritten
    <3>2. CASE UNCHANGED patch
      BY <3>1, <3>2
    <3>3. CASE patch' = NoPatch \/ patch'.at = "sent"
      BY <3>1, <3>3 DEF NoPatch
    <3>4. PatchWrites \/ UNCHANGED patch \/ patch' = NoPatch \/ patch'.at = "sent"
      <4>1. CASE SettingsFetched \/ SettingsRead \/ SettingsArrive \/ SettingsFail \/ SettingsDropped \/ OpenCard
        BY <4>1 DEF SettingsFetched, SettingsRead, SettingsArrive, SettingsFail, SettingsDropped, OpenCard
      <4>2. CASE LeaveCard \/ PatchAnswered \/ PatchLost
        BY <4>2, Zenon DEF LeaveCard, PatchAnswered, PatchLost
      <4>3. CASE \/ \E g \in Setting, v \in Choice : EditSetting(g, v)
                 \/ \E view \in [View -> Choice] : PickerReports(view)
                 \/ \E values \in RowValues : OtherSaves(values)
        BY <4>3 DEF EditSetting, PickerReports, OtherSaves
      <4>4. CASE SaveSettings
        BY <4>4 DEF SaveSettings
      <4>5. QED
        BY <4>1, <4>2, <4>3, <4>4 DEF SettingsNext
    <3>5. QED
      BY <3>2, <3>3, <3>4
  <2>2. settingsRow' = patch.card.values /\ patch.at = "sent"
    BY <2>1 DEF PatchWrites, Written
  <2>3. QED
    BY <2>2 DEF SettingsInv, SentAgrees, Agree
<1>2. QED
  BY <1>1, SettingsInvariance, PTL DEF SettingsSpec, SaveKeepsTheRest

-----------------------------------------------------------------------------
(* OrderEntry, for any figures and costs. An amount is what is read from its text, which  *)
(* is never more than the first number in it, and an entry with an order cannot ask      *)
(* again, because its page is closed or its request done.                                *)

Asking == [at : {"none", "sent", "done", "failed"}, amount : Field, cost : Field, fee : Field, long : BOOLEAN, of : AnyText]
Booking == [entry : 1..MaxEntries, of : Text, amount : Nat, cash : Nat, fee : Field]
EntryPages == [no : 0..MaxEntries, page : {"none", "form", "paste", "draft"}, amount : Field, of : AnyText]

\* What is read from a text of the kind.
ReadFrom(amount, text) == text \in Text /\ amount = AmountRead(text)

\* An amount on the draft or in a request is what is read from its text.
ReadInv ==
    /\ entry.amount # NoFigure => ReadFrom(entry.amount, entry.of)
    /\ \A n \in 1..MaxEntries : asked[n].at # "none" => ReadFrom(asked[n].amount, asked[n].of)

\* An order holds what its text says, or less than that if it was not written plainly.
AsWritten(o) ==
    o.of.first = o.of.meant => /\ o.amount <= Rounded(o.of.meant)
                               /\ o.of.style = "plain" => o.amount = Rounded(o.of.meant)
AmountInv == \A i \in DOMAIN booked : AsWritten(booked[i])

HasOrder(n) == \E i \in DOMAIN booked : booked[i].entry = n

\* An entry with an order cannot ask again, unless the answer was lost.
OnceInv ==
    /\ entry.no = 0 => entry.page = "none"
    /\ \A i, j \in DOMAIN booked : i # j /\ booked[i].entry = booked[j].entry => booked[i].entry \in lostFor
    /\ \A n \in 1..MaxEntries :
         /\ n > entry.no => asked[n].at = "none" /\ ~HasOrder(n)
         /\ HasOrder(n) /\ n \notin lostFor =>
              \/ asked[n].at = "done"
              \/ asked[n].at = "none" /\ ~(entry.no = n /\ entry.page # "none")

EntryInv == EntryTypeOK /\ ReadInv /\ AmountInv /\ OnceInv

LEMMA Texts ==
  /\ NoText \in AnyText /\ AmountRead(NoText) = NoFigure
  /\ \A t \in Text : /\ t \in AnyText /\ t.meant \in Nat
                     /\ AmountRead(t) \in Nat /\ AmountRead(t) <= t.first
                     /\ t.style = "plain" => AmountRead(t) = t.first
  /\ \A f \in Figures : Plainly(f) \in Text /\ AmountRead(Plainly(f)) = f
  <1>1. NoText \in AnyText /\ AmountRead(NoText) = NoFigure
    BY DEF NoText, AnyText, AmountRead
  <1>2. ASSUME NEW t \in Text
        PROVE  /\ t \in AnyText /\ t.meant \in Nat
               /\ AmountRead(t) \in Nat /\ AmountRead(t) <= t.first
               /\ t.style = "plain" => AmountRead(t) = t.first
    <2>1. t.meant \in Nat /\ t.first \in Nat /\ t.style \in Style /\ t \in AnyText
      BY FiguresAssumption DEF Text, AnyText
    <2> DEFINE first == t.first
    <2>2. /\ first \div 1000 \in Nat /\ first \div 1000 <= first
          /\ (first \div 1000) * 1000 \in Nat /\ (first \div 1000) * 1000 <= first
          /\ (first \div 1000000) * 1000 \in Nat /\ (first \div 1000000) * 1000 <= first
      <3>1. first \in Nat
        BY <2>1
      <3> HIDE DEF first
      <3> QED
        BY <3>1
    <2>3. CASE t.style = "comma"
      BY <2>1, <2>2, <2>3 DEF AmountRead
    <2>4. CASE t.style = "space"
      BY <2>1, <2>2, <2>4 DEF AmountRead, Thousand
    <2>5. CASE t.style = "arabic"
      BY <2>1, <2>2, <2>5 DEF AmountRead
    <2>6. CASE t.style = "plain"
      BY <2>1, <2>6 DEF AmountRead
    <2> QED
      BY <2>1, <2>3, <2>4, <2>5, <2>6 DEF Style
  <1>3. ASSUME NEW f \in Figures PROVE Plainly(f) \in Text /\ AmountRead(Plainly(f)) = f
    BY DEF Plainly, Text, Style, Fits, AmountRead
  <1> QED
    BY <1>1, <1>2, <1>3

LEMMA EntryForms ==
  /\ NoAsk \in Asking /\ NoAsk.at = "none"
  /\ \A n \in 0..MaxEntries : Closed(n) \in EntryPages /\ Closed(n).no = n /\ Closed(n).page = "none" /\ Closed(n).amount = NoFigure
  BY Texts DEF NoAsk, Asking, Closed, EntryPages, Field

LEMMA Types ==
  EntryTypeOK <=> /\ entry \in EntryPages
                  /\ box \in AnyText /\ asked \in [1..MaxEntries -> Asking] /\ booked \in Seq(Booking)
                  /\ lostFor \subseteq 1..MaxEntries
  BY DEF EntryTypeOK, Asking, Booking, EntryPages

\* The page may open or close, and requests change, with the orders as they are.
LEMMA PageKeeps ==
  ASSUME EntryInv, booked' = booked, lostFor' = lostFor, EntryTypeOK',
         entry'.no >= entry.no, entry'.no = 0 => entry'.page = "none",
         entry'.no = entry.no => entry'.page = "none" \/ entry.page # "none",
         entry'.amount # NoFigure => ReadFrom(entry'.amount, entry'.of),
         \A m \in 1..MaxEntries : asked'[m] = asked[m] \/
           /\ m <= entry'.no
           /\ asked'[m].at # "none" => ReadFrom(asked'[m].amount, asked'[m].of)
           /\ HasOrder(m) /\ m \notin lostFor =>
                asked'[m].at = "done" \/ (asked'[m].at = "none" /\ ~(entry'.no = m /\ entry'.page # "none"))
  PROVE  EntryInv'
  <1>1. ReadInv'
    BY DEF EntryInv, ReadInv
  <1>2. AmountInv'
    BY DEF EntryInv, AmountInv
  <1>3. MaxEntries \in Nat
    BY FiguresAssumption
  <1>4. entry.no \in Nat /\ entry'.no \in Nat
    BY <1>3 DEF EntryInv, EntryTypeOK
  <1>5. ASSUME NEW m \in 1..MaxEntries
        PROVE  /\ m > entry'.no => asked'[m].at = "none" /\ ~HasOrder(m)'
               /\ HasOrder(m)' /\ m \notin lostFor' =>
                    \/ asked'[m].at = "done"
                    \/ asked'[m].at = "none" /\ ~(entry'.no = m /\ entry'.page # "none")
    <2>1. HasOrder(m)' <=> HasOrder(m)
      BY DEF HasOrder
    <2>2. /\ m > entry.no => asked[m].at = "none" /\ ~HasOrder(m)
          /\ HasOrder(m) /\ m \notin lostFor =>
               \/ asked[m].at = "done"
               \/ asked[m].at = "none" /\ ~(entry.no = m /\ entry.page # "none")
      BY DEF EntryInv, OnceInv
    <2>3. m \in Nat
      BY <1>3
    <2>4. CASE asked'[m] # asked[m]
      BY <2>4, <2>1, <1>4, <2>3, <2>2
    <2>5. CASE asked'[m] = asked[m]
      <3>1. m > entry'.no => m > entry.no
        BY <2>3, <1>4
      <3>2. HasOrder(m) /\ entry'.no = m /\ entry'.page # "none" => entry.no = m /\ entry.page # "none"
        BY <2>2, <2>3, <1>4
      <3> QED
        BY <2>5, <3>1, <3>2, <2>1, <2>2
    <2> QED
      BY <2>4, <2>5
  <1>6. OnceInv'
    BY <1>5 DEF EntryInv, OnceInv
  <1> QED
    BY <1>1, <1>2, <1>6 DEF EntryInv

\* The request of entry n becomes ask; the page stays or gives way.
LEMMA RequestKeeps ==
  ASSUME EntryInv, booked' = booked, lostFor' = lostFor, NEW n \in 1..MaxEntries, n <= entry.no, NEW ask \in Asking,
         asked' = [asked EXCEPT ![n] = ask],
         UNCHANGED <<entry, box>> \/ (entry' = Closed(n) /\ box' = NoText /\ n = entry.no),
         ask.at # "none" => ReadFrom(ask.amount, ask.of),
         HasOrder(n) /\ n \notin lostFor =>
           ask.at = "done" \/ (ask.at = "none" /\ ~(entry'.no = n /\ entry'.page # "none"))
  PROVE  EntryInv'
  <1>1. /\ entry \in EntryPages
        /\ box \in AnyText /\ asked \in [1..MaxEntries -> Asking] /\ booked \in Seq(Booking) /\ lostFor \subseteq 1..MaxEntries
    BY Types DEF EntryInv
  <1>2. asked' \in [1..MaxEntries -> Asking] /\ asked'[n] = ask /\ \A m \in 1..MaxEntries : m # n => asked'[m] = asked[m]
    BY <1>1
  <1>3. MaxEntries \in Nat
    BY FiguresAssumption
  <1>4. n \in 0..MaxEntries /\ entry.no \in Nat
    BY <1>1, <1>3 DEF EntryPages
  <1>5. /\ entry' \in EntryPages /\ box' \in AnyText
        /\ entry'.no = entry.no /\ entry'.page \in {entry.page, "none"}
        /\ entry' = entry \/ (entry'.page = "none" /\ entry'.amount = NoFigure)
    BY <1>1, <1>4, EntryForms, Texts
  <1>6. EntryTypeOK'
    BY <1>1, <1>2, <1>5 DEF EntryTypeOK, Asking, Booking, EntryPages
  <1>7. /\ entry'.amount # NoFigure => ReadFrom(entry'.amount, entry'.of)
        /\ entry'.no = 0 => entry'.page = "none"
    BY <1>5 DEF EntryInv, ReadInv, OnceInv
  <1> QED
    BY <1>2, <1>4, <1>5, <1>6, <1>7, PageKeeps

LEMMA OpenKeeps ==
  ASSUME EntryInv, (\E p \in {"form", "paste"} : OpenEntry(p)) \/ LeaveEntry
  PROVE  EntryInv'
  <1>1. MaxEntries \in Nat
    BY FiguresAssumption
  <1>2. PICK n \in 0..MaxEntries, p \in {"none", "form", "paste", "draft"} :
          /\ entry' = [Closed(n) EXCEPT !.page = p] /\ box' \in AnyText
          /\ (n = entry.no /\ p = "none") \/ n = entry.no + 1
    <2>1. entry.no \in 0..MaxEntries /\ box \in AnyText
      BY DEF EntryInv, EntryTypeOK
    <2>2. CASE LeaveEntry
      <3>1. Closed(entry.no) = [Closed(entry.no) EXCEPT !.page = "none"]
        BY DEF Closed
      <3> QED
        BY <2>1, <2>2, <3>1, Texts DEF LeaveEntry
    <2>3. CASE \E p \in {"form", "paste"} : OpenEntry(p)
      <3>1. entry.no + 1 \in 0..MaxEntries
        BY <2>3, <2>1, <1>1 DEF OpenEntry
      <3> QED
        BY <2>3, <2>1, <3>1 DEF OpenEntry
    <2> QED
      BY <2>2, <2>3
  <1>3. /\ entry' \in EntryPages
        /\ entry'.no = n /\ entry'.page = p /\ entry'.amount = NoFigure
    BY <1>2, EntryForms DEF Closed, EntryPages
  <1>4. UNCHANGED <<asked, booked, lostFor>>
    BY DEF OpenEntry, LeaveEntry
  <1>5. EntryTypeOK'
    BY <1>2, <1>3, <1>4 DEF EntryInv, EntryTypeOK, EntryPages
  <1>6. entry.no \in Nat /\ n \in Nat
    BY <1>1 DEF EntryInv, EntryTypeOK
  <1> QED
    BY <1>2, <1>3, <1>4, <1>5, <1>6, PageKeeps

LEMMA DraftKeeps ==
  ASSUME EntryInv, (\E p \in AnyText : PasteText(p)) \/ RunParse \/ ClearDraft \/ \E t \in AnyText : EditAmount(t)
  PROVE  EntryInv'
  <1>1. entry \in EntryPages /\ box \in AnyText
    BY Types DEF EntryInv
  <1>2. UNCHANGED <<asked, booked, lostFor>> /\ entry.page \in {"paste", "draft"}
    BY DEF PasteText, RunParse, ClearDraft, EditAmount
  <1>3. box' \in AnyText
    BY <1>1 DEF PasteText, RunParse, ClearDraft, EditAmount
  <1>4. \A t \in AnyText : /\ AmountRead(t) \in Field /\ (AmountRead(t) # NoFigure => t \in Text)
                           /\ NumberOf(t) \in {AmountRead(t), NoFigure} /\ NoFigure \in Field
    BY Texts DEF AnyText, NumberOf, Field
  <1>5. PICK page \in {"paste", "draft"}, amount \in Field, text \in AnyText :
          /\ entry' = [entry EXCEPT !.page = page, !.amount = amount, !.of = text]
          /\ amount # NoFigure => ReadFrom(amount, text)
    <2>1. CASE \E p \in AnyText : PasteText(p)
      <3>1. entry' = [entry EXCEPT !.page = entry.page, !.amount = entry.amount, !.of = entry.of]
        BY <2>1, <1>1 DEF PasteText, EntryPages
      <3> QED
        BY <3>1, <1>1, <1>2 DEF EntryPages, EntryInv, ReadInv
    <2>2. CASE RunParse
      BY <2>2, <1>1, <1>4 DEF RunParse, ReadFrom
    <2>3. CASE ClearDraft
      BY <2>3, <1>4, Texts DEF ClearDraft
    <2>4. CASE \E t \in AnyText : EditAmount(t)
      <3>1. PICK t \in AnyText : EditAmount(t)
        BY <2>4
      <3>2. entry' = [entry EXCEPT !.page = "draft", !.amount = NumberOf(t), !.of = t]
        BY <3>1, <1>1 DEF EditAmount, EntryPages
      <3> QED
        BY <3>2, <1>4 DEF ReadFrom
    <2> QED
      BY <2>1, <2>2, <2>3, <2>4
  <1>6. /\ entry' \in EntryPages /\ entry'.no = entry.no /\ entry'.page = page
        /\ entry'.amount = amount /\ entry'.of = text
    BY <1>1, <1>5 DEF EntryPages
  <1>7. EntryTypeOK'
    BY <1>2, <1>3, <1>6 DEF EntryInv, EntryTypeOK, EntryPages
  <1>8. entry.no \in Nat /\ (entry.no = 0 => entry.page = "none")
    BY FiguresAssumption DEF EntryInv, EntryTypeOK, OnceInv
  <1> QED
    BY <1>2, <1>5, <1>6, <1>7, <1>8, PageKeeps

\* A request is sent once, from an open page.
LEMMA SendKeeps ==
  ASSUME EntryInv, UNCHANGED <<entry, box, booked, lostFor>>, entry.page # "none",
         NEW text \in AnyText, NEW amount \in Field, NEW cost \in Field, NEW long \in BOOLEAN,
         SendOnce(Body(text, amount, cost, long)), amount # NoFigure => ReadFrom(amount, text)
  PROVE  EntryInv'
  <1> DEFINE ask == Body(text, amount, cost, long)
  <1>1. entry.no \in 0..MaxEntries /\ MaxEntries \in Nat /\ entry.no # 0
    BY FiguresAssumption DEF EntryInv, EntryTypeOK, OnceInv
  <1>2. entry.no \in 1..MaxEntries /\ entry.no <= entry.no
    BY <1>1
  <1>3. ask \in Asking /\ ask.at = "sent" /\ ask.amount = amount /\ ask.of = text
    BY DEF Body, Asking, Field
  <1>4. asked' = [asked EXCEPT ![entry.no] = ask] /\ asked[entry.no].at = "none" /\ ReadFrom(ask.amount, ask.of)
    BY <1>3 DEF SendOnce, AmountValid
  <1>5. ~(HasOrder(entry.no) /\ entry.no \notin lostFor)
    BY <1>2, <1>4 DEF EntryInv, OnceInv
  <1> HIDE DEF ask
  <1> QED
    BY <1>1, <1>2, <1>3, <1>4, <1>5, RequestKeeps

LEMMA SubmitKeeps ==
  ASSUME EntryInv,
         (\E l \in BOOLEAN : CreateFromDraft(l))
           \/ \E f \in Figures, c \in Costs \cup {NoFigure}, l \in BOOLEAN : SubmitForm(f, c, l)
  PROVE  EntryInv'
  <1>1. ASSUME NEW l \in BOOLEAN, CreateFromDraft(l) PROVE EntryInv'
    <2>1. /\ entry.amount \in Field /\ NoFigure \in Field /\ entry.of \in AnyText
          /\ entry.amount # NoFigure => ReadFrom(entry.amount, entry.of)
      BY DEF EntryInv, EntryTypeOK, ReadInv, Field
    <2> QED
      BY <1>1, <2>1, SendKeeps DEF CreateFromDraft
  <1>2. ASSUME NEW f \in Figures, NEW c \in Costs \cup {NoFigure}, NEW l \in BOOLEAN, SubmitForm(f, c, l)
        PROVE  EntryInv'
    <2>1. f \in Field /\ c \in Field /\ Plainly(f) \in AnyText /\ ReadFrom(f, Plainly(f))
      BY FiguresAssumption, Texts DEF Field, ReadFrom
    <2> QED
      BY <1>2, <2>1, SendKeeps DEF SubmitForm
  <1> QED
    BY <1>1, <1>2

LEMMA OtherClientKeeps ==
  ASSUME EntryInv, NEW f \in Figures, NEW c \in Costs, NEW e \in Costs, OtherClient(f, c, e)
  PROVE  EntryInv'
  <1> DEFINE n == entry.no + 1
             ask == [NoAsk EXCEPT !.at = "sent", !.amount = f, !.cost = c, !.fee = e, !.of = Plainly(f)]
  <1>1. /\ MaxEntries \in Nat /\ f \in Nat /\ c \in Field /\ e \in Field /\ f \in Field
        /\ asked \in [1..MaxEntries -> Asking] /\ entry.no \in Nat
        /\ Plainly(f) \in AnyText /\ ReadFrom(f, Plainly(f))
    BY FiguresAssumption, Types, Texts DEF EntryInv, Field, EntryPages, ReadFrom
  <1>2. n \in 1..MaxEntries /\ n \in 0..MaxEntries /\ n > entry.no
    BY <1>1 DEF OtherClient
  <1>3. ask \in Asking /\ ask.at = "sent" /\ ask.amount = f /\ ask.of = Plainly(f)
    BY <1>1 DEF NoAsk, Asking
  <1>4. /\ entry' = Closed(n) /\ asked' = [asked EXCEPT ![n] = ask] /\ UNCHANGED <<box, booked, lostFor>>
    BY DEF OtherClient
  <1>5. entry' \in EntryPages /\ entry'.no = n /\ entry'.page = "none" /\ entry'.amount = NoFigure
    BY <1>2, <1>4, EntryForms
  <1>6. asked' \in [1..MaxEntries -> Asking] /\ asked'[n] = ask /\ \A m \in 1..MaxEntries : m # n => asked'[m] = asked[m]
    BY <1>1, <1>2, <1>3, <1>4
  <1>7. ~HasOrder(n)
    BY <1>2 DEF EntryInv, OnceInv
  <1>8. EntryTypeOK'
    BY <1>4, <1>5, <1>6, Types DEF EntryInv, EntryTypeOK, Asking, Booking, EntryPages
  <1>9. n <= entry'.no /\ entry'.no # 0 /\ entry'.no # entry.no /\ entry'.no >= entry.no
    BY <1>1, <1>2, <1>5
  <1> HIDE DEF n, ask
  <1> QED
    BY <1>1, <1>3, <1>4, <1>5, <1>6, <1>7, <1>8, <1>9, PageKeeps

LEMMA AnswersKeep ==
  ASSUME EntryInv, NEW n \in 1..MaxEntries, RefuseOrder(n) \/ Created(n) \/ NotCreated(n)
  PROVE  EntryInv'
  <1>1. /\ asked \in [1..MaxEntries -> Asking] /\ entry.no \in Nat /\ n \in Nat
        /\ asked[n].at # "none" /\ booked' = booked /\ lostFor' = lostFor
    BY FiguresAssumption, Types DEF EntryInv, EntryPages, RefuseOrder, Created, NotCreated
  <1>2. n <= entry.no
    BY <1>1 DEF EntryInv, OnceInv
  <1>3. CASE RefuseOrder(n)
    <2> DEFINE ask == [asked[n] EXCEPT !.at = "failed"]
    <2>1. ask \in Asking /\ ask.at = "failed" /\ ask.amount = asked[n].amount /\ ask.of = asked[n].of
      BY <1>1 DEF Asking
    <2>2. asked' = [asked EXCEPT ![n] = ask] /\ UNCHANGED <<entry, box>>
      BY <1>3 DEF RefuseOrder
    <2>3. ReadFrom(asked[n].amount, asked[n].of)
      BY <1>1 DEF EntryInv, ReadInv
    <2>4. ~(HasOrder(n) /\ n \notin lostFor)
      BY <1>3 DEF RefuseOrder, EntryInv, OnceInv
    <2> HIDE DEF ask
    <2> QED
      BY <1>1, <1>2, <2>1, <2>2, <2>3, <2>4, RequestKeeps
  <1>4. CASE Created(n)
    <2>1. asked' = [asked EXCEPT ![n] = NoAsk]
      BY <1>4 DEF Created
    <2>2. IF entry.no = n THEN entry' = Closed(n) /\ box' = NoText ELSE UNCHANGED <<entry, box>>
      BY <1>4 DEF Created
    <2>3. n \in 0..MaxEntries /\ ~(entry'.no = n /\ entry'.page # "none")
      <3>1. n \in 0..MaxEntries
        OBVIOUS
      <3> QED
        BY <2>2, <3>1, EntryForms
    <2> QED
      BY <1>1, <1>2, <2>1, <2>2, <2>3, EntryForms, RequestKeeps
  <1>5. CASE NotCreated(n)
    <2>1. asked' = [asked EXCEPT ![n] = NoAsk] /\ UNCHANGED <<entry, box>>
      BY <1>5 DEF NotCreated
    <2>2. ~(HasOrder(n) /\ n \notin lostFor)
      BY <1>5 DEF NotCreated, EntryInv, OnceInv
    <2> QED
      BY <1>1, <1>2, <2>1, <2>2, EntryForms, RequestKeeps
  <1> QED
    BY <1>3, <1>4, <1>5

LEMMA CreateKeeps ==
  ASSUME EntryInv, NEW n \in 1..MaxEntries, CreateOrder(n)
  PROVE  EntryInv'
  <1>1. /\ asked \in [1..MaxEntries -> Asking] /\ booked \in Seq(Booking) /\ lostFor \subseteq 1..MaxEntries
        /\ entry \in EntryPages /\ box \in AnyText
    BY Types DEF EntryInv
  <1>2. PICK at \in {"done", "failed"} :
          /\ asked' = [asked EXCEPT ![n].at = at]
          /\ lostFor' = IF at = "failed" THEN lostFor \cup {n} ELSE lostFor
    BY DEF CreateOrder
  <1> DEFINE ask == [asked[n] EXCEPT !.at = at]
             o == Booked(n, asked[n])
  <1>3. ask \in Asking /\ ask.at = at /\ ask.amount = asked[n].amount /\ ask.of = asked[n].of
    BY <1>1 DEF Asking
  <1>4. /\ asked[n].at = "sent" /\ booked' = Append(booked, o) /\ UNCHANGED <<entry, box>>
        /\ asked' = [asked EXCEPT ![n] = ask]
    BY <1>2 DEF CreateOrder
  <1>5. asked[n] \in Asking /\ ReadFrom(asked[n].amount, asked[n].of)
    BY <1>1, <1>4 DEF EntryInv, ReadInv
  <1>6. \A a, b \in Nat : Rounded(a) \in Nat /\ (a <= b => Rounded(a) <= Rounded(b))
    BY DEF Rounded
  <1>7. o \in Booking /\ o.entry = n /\ AsWritten(o)
    <2> DEFINE text == asked[n].of
    <2>1. /\ asked[n].cost \in Field /\ asked[n].fee \in Field /\ text \in Text
          /\ asked[n].amount = AmountRead(text)
      BY <1>5 DEF Asking, ReadFrom
    <2>2. /\ AmountRead(text) \in Nat /\ AmountRead(text) <= text.first /\ text.meant \in Nat
          /\ text.style = "plain" => AmountRead(text) = text.first
      BY <2>1, Texts
    <2>3. o.entry = n /\ o.of = text /\ o.amount = Rounded(AmountRead(text))
      BY <2>1 DEF Booked
    <2>4. o \in Booking
      BY <1>6, <2>1, <2>2 DEF Booked, Booking, Field
    <2> HIDE DEF text
    <2>5. AsWritten(o)
      BY <1>6, <2>2, <2>3 DEF AsWritten
    <2> QED
      BY <2>3, <2>4, <2>5
  <1> HIDE DEF ask, o
  <1>8. /\ booked' \in Seq(Booking) /\ Len(booked') = Len(booked) + 1 /\ booked'[Len(booked) + 1] = o
        /\ \A i \in 1..Len(booked) : booked'[i] = booked[i]
        /\ DOMAIN booked = 1..Len(booked) /\ DOMAIN booked' = 1..(Len(booked) + 1) /\ Len(booked) \in Nat
    BY <1>1, <1>4, <1>7
  <1>9. asked' \in [1..MaxEntries -> Asking] /\ asked'[n] = ask /\ \A m \in 1..MaxEntries : m # n => asked'[m] = asked[m]
    BY <1>1, <1>3, <1>4
  <1>10. EntryTypeOK'
    BY <1>1, <1>2, <1>4, <1>8, <1>9, Types DEF EntryTypeOK, Asking, Booking, EntryPages
  <1>11. ReadInv'
    BY <1>3, <1>4, <1>5, <1>9 DEF EntryInv, ReadInv
  <1>12. AmountInv'
    BY <1>7, <1>8 DEF EntryInv, AmountInv
  <1>13. \A m \in 1..MaxEntries : HasOrder(m)' => HasOrder(m) \/ m = n
    BY <1>7, <1>8 DEF HasOrder
  <1>14. HasOrder(n) => n \in lostFor
    BY <1>4 DEF EntryInv, OnceInv
  <1>15. lostFor \subseteq lostFor' /\ (n \in lostFor' \/ at = "done")
    BY <1>2
  <1>16. ASSUME NEW i \in DOMAIN booked', NEW j \in DOMAIN booked', i # j, booked'[i].entry = booked'[j].entry
         PROVE  booked'[i].entry \in lostFor'
    <2>1. CASE i \in DOMAIN booked /\ j \in DOMAIN booked
      BY <2>1, <1>8, <1>15, <1>16 DEF EntryInv, OnceInv
    <2>2. CASE i \notin DOMAIN booked \/ j \notin DOMAIN booked
      <3>1. HasOrder(n) /\ booked'[i].entry = n
        BY <2>2, <1>7, <1>8, <1>16 DEF HasOrder
      <3> QED
        BY <3>1, <1>14, <1>15
    <2> QED
      BY <2>1, <2>2
  <1>17. n <= entry.no /\ ~(n > entry.no)
    <2>1. MaxEntries \in Nat
      BY FiguresAssumption
    <2> QED
      BY <2>1, <1>1, <1>4 DEF EntryInv, OnceInv, EntryPages
  <1>18. ASSUME NEW m \in 1..MaxEntries
         PROVE  /\ m > entry'.no => asked'[m].at = "none" /\ ~HasOrder(m)'
                /\ HasOrder(m)' /\ m \notin lostFor' =>
                     \/ asked'[m].at = "done"
                     \/ asked'[m].at = "none" /\ ~(entry'.no = m /\ entry'.page # "none")
    <2>1. CASE m = n
      BY <2>1, <1>3, <1>4, <1>9, <1>15, <1>17
    <2>2. CASE m # n
      BY <2>2, <1>4, <1>9, <1>13, <1>15 DEF EntryInv, OnceInv
    <2> QED
      BY <2>1, <2>2
  <1>19. OnceInv'
    BY <1>4, <1>16, <1>18 DEF EntryInv, OnceInv
  <1> QED
    BY <1>10, <1>11, <1>12, <1>19 DEF EntryInv

\* EntryInv holds always.
THEOREM EntryInvariance == EntrySpec => []EntryInv
  <1>1. EntryInit => EntryInv
    <2> SUFFICES ASSUME EntryInit PROVE EntryInv
      OBVIOUS
    <2>1. MaxEntries \in Nat
      BY FiguresAssumption
    <2>2. 0 \in 0..MaxEntries
      BY <2>1
    <2>3. EntryTypeOK /\ entry.no = 0 /\ entry.page = "none" /\ entry.amount = NoFigure
      BY <2>2, EntryForms, Texts, Types DEF EntryInit
    <2>4. \A n \in 1..MaxEntries : asked[n].at = "none"
      BY EntryForms DEF EntryInit
    <2>5. DOMAIN booked = {}
      BY DEF EntryInit
    <2> QED
      BY <2>3, <2>4, <2>5 DEF EntryInv, ReadInv, AmountInv, OnceInv, HasOrder
  <1>2. EntryInv /\ [EntryNext]_entryVars => EntryInv'
    <2> SUFFICES ASSUME EntryInv, [EntryNext]_entryVars PROVE EntryInv'
      OBVIOUS
    <2>1. CASE UNCHANGED entryVars
      BY <2>1 DEF entryVars, EntryInv, EntryTypeOK, ReadInv, AmountInv, OnceInv, HasOrder
    <2> QED
      BY <2>1, OpenKeeps, DraftKeeps, SubmitKeeps, OtherClientKeeps, AnswersKeep, CreateKeeps DEF EntryNext
  <1> QED
    BY <1>1, <1>2, PTL DEF EntrySpec

\* For any figures, entries and costs: an order holds the amount its text says if that is written
\* plainly and first in it, never more than that if it is only first, and one entry makes one order
\* unless an answer was lost.
THEOREM EnteredIsBooked == EntrySpec => []OrdersAsEntered
  <1>1. EntryInv => OrdersAsEntered
    BY DEF EntryInv, AmountInv, AsWritten, OnceInv, OrdersAsEntered
  <1> QED
    BY <1>1, EntryInvariance, PTL

\* The rows of one order: the page's answer, a card's own computation and the offer line.
LEMMA RowsAgree ==
  ASSUME NEW o, o.amount \in Nat, o.cash \in Nat
  PROVE  /\ PageRows(o).total = CardRows(o).total /\ CardRows(o).total = OfferLine(o)
         /\ OfferLine(o) \in Nat /\ (o.cash # 0 => OfferLine(o) = o.cash)
         /\ PageRows(o).fee # CardRows(o).fee => o.fee # NoFigure
         /\ CardRows(o).store + CardRows(o).fee = CardRows(o).total \/ o.cash \in 1..(o.amount - 1)
  <1>1. CASE o.cash > 0
    BY <1>1 DEF PageRows, CardRows, Breakdown, Inferred, OfferLine
  <1>2. CASE o.cash = 0
    BY <1>2 DEF PageRows, CardRows, Breakdown, Inferred, OfferLine
  <1> QED
    BY <1>1, <1>2

\* For any figures and any number of orders: the captain is told one sum to collect wherever he looks,
\* and the heading of his earnings is what he was told, on any of the orders he has delivered.
THEOREM CollectsAsTold == EntrySpec => []CollectedAlike
  <1>1. ASSUME EntryInv PROVE CollectedAlike
    <2>1. \A i \in DOMAIN booked : booked[i].amount \in Nat /\ booked[i].cash \in Nat
      <3>1. booked \in Seq(Booking)
        BY <1>1, Types DEF EntryInv
      <3>2. \A i \in DOMAIN booked : booked[i] \in Booking
        BY <3>1
      <3> QED
        BY <3>2 DEF Booking
    <2>2. ASSUME NEW i \in DOMAIN booked
          PROVE  LET o == booked[i]  atPage == PageRows(o)  onCard == CardRows(o) IN
                 /\ atPage.total = onCard.total /\ onCard.total = OfferLine(o)
                 /\ atPage.fee # onCard.fee => o.fee # NoFigure
                 /\ \A paid \in {o.amount, o.cash, o.amount + o.cash} :
                      paid - SecondBox(paid, atPage.total) = atPage.total
                 /\ onCard.store + onCard.fee = onCard.total \/ o.cash \in 1..(o.amount - 1)
      <3> DEFINE o == booked[i]
      <3>1. o.amount \in Nat /\ o.cash \in Nat
        BY <2>1
      <3> HIDE DEF o
      <3>2. \A paid \in {o.amount, o.cash, o.amount + o.cash}, due \in Nat : paid - SecondBox(paid, due) = due
        BY <3>1 DEF SecondBox
      <3>3. /\ PageRows(o).total = CardRows(o).total /\ CardRows(o).total = OfferLine(o)
            /\ OfferLine(o) \in Nat
            /\ PageRows(o).fee # CardRows(o).fee => o.fee # NoFigure
            /\ CardRows(o).store + CardRows(o).fee = CardRows(o).total \/ o.cash \in 1..(o.amount - 1)
        BY <3>1, RowsAgree
      <3>4. \A paid \in {o.amount, o.cash, o.amount + o.cash} :
               paid - SecondBox(paid, PageRows(o).total) = PageRows(o).total
        BY <3>2, <3>3
      <3> QED
        BY <3>3, <3>4 DEF o
    <2>3. ASSUME NEW delivered \in SUBSET DOMAIN booked
          PROVE  Earnings(booked, delivered).hero = Collected(booked, {i \in delivered : booked[i].cash # 0})
      <3> DEFINE cash == [i \in DOMAIN booked |-> IF i \in delivered THEN booked[i].cash ELSE 0]
                 told == [i \in DOMAIN booked |->
                            IF i \in {j \in delivered : booked[j].cash # 0} THEN PageRows(booked[i]).total ELSE 0]
      <3>1. ASSUME NEW i \in DOMAIN booked PROVE cash[i] = told[i]
        <4>1. booked[i].cash # 0 => PageRows(booked[i]).total = booked[i].cash
          BY <2>1, RowsAgree
        <4> QED
          BY <4>1
      <3>2. cash = told
        BY <3>1
      <3> QED
        BY <3>2 DEF Earnings, Collected
    <2> QED
      BY <2>2, <2>3 DEF CollectedAlike
  <1> QED
    BY <1>1, EntryInvariance, PTL

-----------------------------------------------------------------------------
(* WebAccess. The pages and the roles are finite, so that the proof goes through the *)
(* tables of the API (route by route) and of the dashboard (page by page).           *)

\* Each request is for the role it carries, or one of those the API refuses.
WebInv == WebTypeOK /\ \A q \in sent : q.by \in Admitted(q.call) \/ ShownAnyhow(q)

LEMMA Tables ==
  /\ DOMAIN CaptainRoutes = {"captainsList", "captainsCreate", "captainsGet", "captainsUpdate", "captainsActive",
                             "captainsDelete", "captainStats", "captainOrders",
                             "prepaidCharge", "prepaidAdjustment", "prepaidTransactions"}
  /\ DOMAIN OrderRoutes = {"ordersList", "ordersCreate", "distributionAuto", "distributionManual",
                           "distributionDragDrop", "distributionResend", "distributionCancelCaptain",
                           "archive", "overrideStatus"}
  /\ DOMAIN UserRoutes = {"usersList", "usersCreate", "usersActive", "customerProfile"}
  /\ DOMAIN NotificationRoutes = {"notificationsCreate", "quickStatus", "notificationsList"}
  /\ DOMAIN TrackingRoutes = {"activeMap"} /\ DOMAIN ActivityRoutes = {"activityList"}
  /\ DOMAIN SettingsRoutes = {"settingsGet", "settingsPatch"} /\ DOMAIN GeocodeRoutes = {"geocodePlace"}
  BY DEF CaptainRoutes, OrderRoutes, UserRoutes, NotificationRoutes, TrackingRoutes, ActivityRoutes, SettingsRoutes,
         GeocodeRoutes

LEMMA RoutesOfCaptains ==
  /\ \A ask \in {"captainsList", "captainsCreate", "captainsGet", "captainsActive", "captainStats", "captainOrders",
                 "prepaidTransactions"} : Admitted(ask) = Operators
  /\ Admitted("captainsUpdate") = Operators \cup {"CAPTAIN"}
  /\ \A ask \in {"captainsDelete", "prepaidCharge", "prepaidAdjustment"} : Admitted(ask) = Management
  BY Tables DEF Admitted, CaptainRoutes

LEMMA RoutesOfOrders ==
  /\ \A ask \in {"ordersList", "ordersCreate"} : Admitted(ask) = Operators \cup {"STORE_ADMIN"}
  /\ \A ask \in {"distributionAuto", "distributionManual", "distributionDragDrop", "distributionResend",
                 "distributionCancelCaptain", "archive", "overrideStatus"} : Admitted(ask) = Operators
  BY Tables DEF Admitted, OrderRoutes

LEMMA RoutesOfTheRest ==
  /\ Admitted("usersList") = Operators /\ Admitted("customerProfile") = Operators
  /\ Admitted("usersCreate") = {"SUPER_ADMIN"} /\ Admitted("usersActive") = Management
  /\ Admitted("notificationsCreate") = Operators /\ Admitted("quickStatus") = Operators
  /\ Admitted("notificationsList") = Role
  /\ Admitted("activeMap") = Operators /\ Admitted("activityList") = Operators
  /\ Admitted("settingsGet") = Operators /\ Admitted("settingsPatch") = Operators
  /\ Admitted("geocodePlace") = Operators
  BY Tables DEF Admitted, UserRoutes, NotificationRoutes, TrackingRoutes, ActivityRoutes, SettingsRoutes, GeocodeRoutes

\* The browser's idea of a role.
LEMMA Roles ==
  \A r \in Role : /\ isDispatchRole(r) <=> r \in Operators
                  /\ isManagementAdminRole(r) <=> r \in Management
                  /\ canListOrdersRole(r) <=> r \in Operators \cup {"STORE_ADMIN"}
  BY DEF Role, Operators, Management, isDispatchRole, isManagementAdminRole, canListOrdersRole

LEMMA LoadsAreAdmitted ==
  ASSUME NEW r \in Role, NEW p \in Pages, NEW ask \in Loads(p, r)
  PROVE  r \in Admitted(ask) \/ (p = "orders" /\ ask = "ordersList" /\ ~canListOrdersRole(r))
  <1>1. CASE p = "home"
    BY <1>1, Roles, RoutesOfCaptains, RoutesOfOrders, RoutesOfTheRest DEF Loads, HomeLoads, For
  <1>2. CASE p = "orders"
    BY <1>2, Roles, RoutesOfCaptains, RoutesOfOrders DEF Loads, OrdersLoads, For
  <1>3. CASE p = "distribution"
    BY <1>3, Roles, RoutesOfCaptains, RoutesOfOrders, RoutesOfTheRest DEF Loads, DistributionLoads, For
  <1>4. CASE p = "captains"
    BY <1>4, Roles, RoutesOfCaptains DEF Loads, CaptainsLoads, For
  <1>5. CASE p = "users"
    BY <1>5, Roles, RoutesOfTheRest DEF Loads, UsersLoads, For
  <1> QED
    BY <1>1, <1>2, <1>3, <1>4, <1>5 DEF Loads, Pages

LEMMA ButtonsAreAdmitted ==
  ASSUME NEW r \in Role, NEW p \in Pages, ~Bounces(p, r), NEW ask \in Buttons(p, r)
  PROVE  r \in Admitted(ask) \/ ShownAnyhow([by |-> r, call |-> ask])
  <1> USE DEF ShownAnyhow
  <1>1. CASE p = "home"
    BY <1>1, Roles, RoutesOfTheRest DEF Buttons, HomeButtons, For
  <1>2. CASE p = "newOrder"
    BY <1>2, Roles, RoutesOfOrders DEF Buttons
  <1>3. CASE p = "incubator"
    BY <1>3, Roles, RoutesOfOrders DEF Buttons, Bounces
  <1>4. CASE p = "orders"
    BY <1>4, Roles, RoutesOfOrders DEF Buttons, OrdersButtons, For
  <1>5. CASE p = "distribution"
    BY <1>5, Roles, RoutesOfOrders, RoutesOfTheRest DEF Buttons, DistributionButtons, Bounces
  <1>6. CASE p = "captains"
    <2>1. r \in Operators
      BY <1>6, Roles DEF Bounces
    <2>2. r \in Management \/ r = "DISPATCHER"
      BY <2>1 DEF Management
    <2> QED
      BY <1>6, <2>1, <2>2, Roles, RoutesOfCaptains DEF Buttons, CaptainsButtons, RosterButtons, For
  <1>7. CASE p = "users"
    BY <1>7, Roles, RoutesOfTheRest DEF Buttons, UsersButtons, For
  <1> QED
    BY <1>1, <1>2, <1>3, <1>4, <1>5, <1>6, <1>7 DEF Buttons, Pages

LEMMA SentKeeps ==
  ASSUME WebInv, NEW ask \in ApiCall, PageFetch(ask) \/ Press(ask)
  PROVE  WebInv'
  <1>1. who \in Role /\ open \in Pages /\ who' = who /\ open' = open /\ sent' = sent \cup {[by |-> who, call |-> ask]}
    BY DEF PageFetch, Press, RequestSent, WebInv, WebTypeOK
  <1>2. who \in Admitted(ask) \/ ShownAnyhow([by |-> who, call |-> ask])
    <2>1. CASE PageFetch(ask)
      <3>1. who \in Admitted(ask) \/ (ask = "ordersList" /\ ~canListOrdersRole(who))
        BY <2>1, <1>1, LoadsAreAdmitted DEF PageFetch
      <3> QED
        BY <3>1 DEF ShownAnyhow
    <2>2. CASE Press(ask)
      BY <2>2, <1>1, ButtonsAreAdmitted DEF Press
    <2> QED
      BY <2>1, <2>2
  <1>3. WebTypeOK'
    BY <1>1 DEF WebInv, WebTypeOK
  <1> DEFINE q == [by |-> who, call |-> ask]
  <1>4. q.by = who /\ q.call = ask
    OBVIOUS
  <1>5. q.by \in Admitted(q.call) \/ ShownAnyhow(q)
    BY <1>2, <1>4
  <1>6. sent' = sent \cup {q}
    BY <1>1
  <1> HIDE DEF q
  <1> QED
    BY <1>3, <1>5, <1>6 DEF WebInv

\* WebInv holds always.
THEOREM WebInvariance == WebSpec => []WebInv
  <1>1. WebInit => WebInv
    BY DEF WebInit, WebInv, WebTypeOK, Pages
  <1>2. WebInv /\ [WebNext]_webVars => WebInv'
    <2> SUFFICES ASSUME WebInv, [WebNext]_webVars PROVE WebInv'
      OBVIOUS
    <2>1. ASSUME NEW r \in Role, WebSignIn(r) PROVE WebInv'
      BY <2>1 DEF WebSignIn, WebInv, WebTypeOK, Pages
    <2>2. CASE WebSignOut \/ Bounce
      BY <2>2 DEF WebSignOut, Bounce, WebInv, WebTypeOK, Pages
    <2>3. ASSUME NEW p \in Pages, Visit(p) PROVE WebInv'
      BY <2>3 DEF Visit, WebInv, WebTypeOK
    <2>4. ASSUME NEW q \in sent, AnswerCame(q) \/ TokenRefused(q) PROVE WebInv'
      BY <2>4 DEF AnswerCame, TokenRefused, WebInv, WebTypeOK, Pages
    <2>5. CASE UNCHANGED webVars
      BY <2>5 DEF webVars, WebInv, WebTypeOK
    <2> QED
      BY <2>1, <2>2, <2>3, <2>4, <2>5, SentKeeps DEF WebNext
  <1> QED
    BY <1>1, <1>2, PTL DEF WebSpec

\* Where the sidebar leads a role, nothing is refused.
LEMMA NavIsAdmitted ==
  ASSUME NEW r \in Role, NEW p \in NavTo(r)
  PROVE  ~Bounces(p, r) /\ \A ask \in Loads(p, r) : r \in Admitted(ask)
  <1>1. p \in Pages /\ ~Bounces(p, r) /\ (p = "orders" => canListOrdersRole(r))
    BY DEF NavTo, Pages, Bounces
  <1> QED
    BY <1>1, LoadsAreAdmitted

\* What the dashboard sends for a user the API admits, on every page he can be on, but for the requests
\* of ShownAnyhow; and the sidebar leads him to no page that turns him away.
THEOREM RolesAgree == WebSpec => []RefusedOnlyWhere
  <1>1. WebInv => RefusedOnlyWhere
    <2> SUFFICES ASSUME WebInv PROVE RefusedOnlyWhere
      OBVIOUS
    <2>1. who # NoRole => who \in Role
      BY DEF WebInv, WebTypeOK
    <2> QED
      BY <2>1, NavIsAdmitted DEF WebInv, RefusedOnlyWhere
  <1> QED
    BY <1>1, WebInvariance, PTL
=============================================================================
