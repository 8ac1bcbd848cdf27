------------------------------- MODULE OfferNews -------------------------------
(***************************************************************************)
(* Who learns what became of an order.  A handler commits first and          *)
(* announces afterwards: to captains by name, to the dispatchers' pages by   *)
(* the rooms of their company and branch.  An announcement makes the screen  *)
(* that hears it fetch again.  Phones and pages also fetch of themselves;     *)
(* what one misses, it shows until then.                                    *)
(*                                                                         *)
(* One order; offers and answers are reduced to what is announced (the       *)
(* choice of a captain and the transactions are Distribution's).             *)
(***************************************************************************)
EXTENDS FiniteSets, Naturals

CONSTANTS
    Courier, NoCourier,
    Desk,           \* dispatchers' pages
    InRoom,         \* those whose token names a company; others join no room
    MaxTasks        \* bound: handlers between their commit and their announcement

ASSUME NewsAssumption == InRoom \subseteq Desk /\ NoCourier \notin Courier /\ MaxTasks \in Nat \ {0}

VARIABLES
    state,      \* the order's row, and whether its captain's assignment row is PENDING
    tasks,      \* announcements to be made
    news        \* news[v]: what v's screen shows of the order

newsVars == <<state, tasks, news>>

Viewer == Courier \cup Desk
OrderState == [status : {"open", "offered", "working", "closed"}, captain : Courier \cup {NoCourier},
               log : BOOLEAN, archived : BOOLEAN]

\* Whom a handler names, whether the pages are told, and whether it reads the order again to
\* tell its captain: only if it is ASSIGNED (the tick), or in any status (the override).
Task == [phones : SUBSET Courier, pages : BOOLEAN, reread : {"no", "offered", "any"}]

\* "behind" shows an older state; "told" will fetch; "missed" was not told, or did not hear.
News == {"current", "behind", "told", "missed"}

NewsInit ==
    /\ state = [status |-> "open", captain |-> NoCourier, log |-> FALSE, archived |-> FALSE]
    /\ tasks = {}
    /\ news = [v \in Viewer |-> "current"]

-----------------------------------------------------------------------------
\* The captain's card: an offer while the row is PENDING, then the order he works on.
CardOf(c, s) ==
    IF s.captain = c /\ (s.status = "working" \/ (s.status = "offered" /\ s.log)) THEN s.status ELSE "none"

Shows(v, s) == IF v \in Courier THEN CardOf(v, s) ELSE s

\* s is committed; whoever shows something else, or did before, is behind or misses it.
Commit(s, unnamed) ==
    /\ state' = s
    /\ news' = [v \in Viewer |->
         IF news[v] # "behind" /\ (Shows(v, s) = Shows(v, state) \/ news[v] # "current") THEN news[v]
         ELSE IF v \in unnamed THEN "missed" ELSE "behind"]

Announcing(task) == Cardinality(tasks) < MaxTasks /\ tasks' = tasks \cup {task}

ToPages == [phones |-> {}, pages |-> TRUE, reread |-> "no"]
ToBoth(cs) == [ToPages EXCEPT !.phones = cs]

\* The captain, if there is one.
ItsCaptain(c) == {c} \cap Courier

\* The order without a captain, and offered to c; NoCourier if nobody can be found.
Freed(s) == [s EXCEPT !.status = "open", !.captain = NoCourier, !.log = FALSE]
OfferedTo(s, c) == IF c = NoCourier THEN Freed(s) ELSE [s EXCEPT !.status = "offered", !.captain = c, !.log = TRUE]

-----------------------------------------------------------------------------
(* The desk's routes through the distribution service *)

\* emitCaptainDistributionSocket tells the captain of the order as the handler returned it, and
\* with him the pages; nobody, if it has none.  A captain who loses the order is not named.
Distributed(s, c) ==
    /\ Commit(s, (Courier \ {c}) \cup IF c = NoCourier THEN Desk ELSE Desk \ InRoom)
    /\ IF c = NoCourier THEN UNCHANGED tasks ELSE Announcing(ToBoth({c}))

NewsStartAuto(c) ==
    /\ ~state.archived /\ state.status = "open"
    /\ Distributed(OfferedTo(state, c), c)

\* runFastOrderPrecheck, asked before the transaction and again in it.
Precheck(from) == ~state.archived /\ state.status \in from

\* canResendFromStatus and canReassignFromStatus take every status, canManualAssignFromStatus
\* an order nobody has accepted.
NewsResend(c) ==
    /\ Precheck({"open", "offered", "working", "closed"})
    /\ Distributed(OfferedTo(state, c), c)

NewsAssignManual(c) ==
    /\ Precheck({"open", "offered"})
    /\ c # NoCourier
    /\ Distributed(OfferedTo(state, c), c)

NewsReassign(c) ==
    /\ Precheck({"open", "offered", "working", "closed"})
    /\ c # NoCourier
    /\ Distributed(OfferedTo(state, c), c)

NewsCancel ==
    /\ ~state.archived /\ state.captain # NoCourier /\ state.status # "closed"
    /\ Commit(Freed(state), Desk \ InRoom)
    /\ Announcing(ToBoth({state.captain}))

\* Mutant: the tick tells the captain whose offer has ended only.
TickEndedOnly(c) ==
    /\ state.log
    /\ c # NoCourier => state.status = "offered" /\ ~state.archived
    /\ Commit(OfferedTo(state, c), Desk \ InRoom)
    /\ Announcing(ToBoth({state.captain}))

\* processDueTimeouts closes a row and offers the order to the next captain, or frees it;
\* emitAfterTimeoutProcessing names the captain of the row, then reads the order again.
NewsTick(c) ==
    /\ state.log
    /\ c # NoCourier => state.status = "offered" /\ ~state.archived
    /\ Commit(OfferedTo(state, c), Desk \ InRoom)
    /\ Announcing([ToBoth({state.captain}) EXCEPT !.reread = "offered"])

-----------------------------------------------------------------------------
(* The orders service *)

NewsAccept ==
    /\ state.log /\ state.captain # NoCourier
    /\ Commit([state EXCEPT !.status = "working", !.log = FALSE], Desk \ InRoom)
    /\ Announcing(ToBoth({state.captain}))

\* The order is read in the transaction: the next captain is the one it went to.  An archived
\* order stays as it is.
NewsReject(c) ==
    /\ state.log /\ state.captain # NoCourier
    /\ state.archived => c = NoCourier
    /\ Commit(IF state.archived THEN [state EXCEPT !.log = FALSE] ELSE OfferedTo(state, c), Desk \ InRoom)
    /\ Announcing(ToBoth({state.captain, c} \cap Courier))

\* updateStatus, of the captain, the store or the desk.
NewsSetStatus(s) ==
    /\ Commit([state EXCEPT !.status = s], Desk \ InRoom)
    /\ Announcing(ToBoth(ItsCaptain(state.captain)))

\* The released captain is named; whoever the order names when it is read again is told too.
Override(s) ==
    /\ ~state.archived /\ s \in {"open", "closed"}
    /\ \E kept \in BOOLEAN :
         /\ kept => s = "closed"    \* DELIVERED keeps its captain
         /\ Commit([state EXCEPT !.status = s, !.log = FALSE, !.captain = IF kept THEN @ ELSE NoCourier], Desk \ InRoom)
         /\ Announcing([ToBoth(IF kept THEN {} ELSE ItsCaptain(state.captain)) EXCEPT !.reread = "any"])

\* An offered order is cancelled first, in a transaction and with an announcement of its own.
NewsArchive ==
    /\ ~state.archived /\ state.status \in {"open", "closed"}
    /\ Commit([state EXCEPT !.archived = TRUE], Desk \ InRoom)
    /\ Announcing(ToPages)

NewsUnarchive ==
    /\ state.archived
    /\ Commit([state EXCEPT !.archived = FALSE], Desk \ InRoom)
    /\ Announcing(ToPages)

-----------------------------------------------------------------------------
(* Announcements *)

Reread(task) ==
    IF task.reread = "any" \/ (task.reread = "offered" /\ state.status = "offered")
      THEN ItsCaptain(state.captain) ELSE {}

\* The emits: whoever is connected hears them.  A read that fails in front of them, which
\* tickExpired catches row by row, makes an announcement that some or all do not hear.
Announce(task) ==
    LET to == task.phones \cup Reread(task) \cup IF task.pages THEN InRoom ELSE {}
    IN  /\ tasks' = tasks \ {task}
        /\ \E deaf \in SUBSET to :
             news' = [v \in Viewer |-> IF v \in deaf THEN "missed" ELSE IF v \in to THEN "told" ELSE news[v]]
        /\ UNCHANGED state

\* What was heard makes the screen fetch: invalidateCaptainRealtimeQueries on a phone,
Heard(c) ==
    /\ c \in Courier /\ news[c] = "told"
    /\ news' = [news EXCEPT ![c] = "current"]
    /\ UNCHANGED <<state, tasks>>

\* bumpOrderDomain on a page.
PageHeard(p) ==
    /\ p \in Desk /\ news[p] = "told"
    /\ news' = [news EXCEPT ![p] = "current"]
    /\ UNCHANGED <<state, tasks>>

\* The phone comes to the front, the offer nears its end, the socket is down: it fetches of itself.
PhoneFetches(c) ==
    /\ c \in Courier /\ news[c] \in {"behind", "missed"}
    /\ news' = [news EXCEPT ![c] = "current"]
    /\ UNCHANGED <<state, tasks>>

\* A page's interval, and its own commands: invalidateOrderDistributionDomain.
PageFetches(p) ==
    /\ p \in Desk /\ news[p] \in {"behind", "missed"}
    /\ news' = [news EXCEPT ![p] = "current"]
    /\ UNCHANGED <<state, tasks>>

\* The API goes down with announcements to make; its sockets close.
ApiStops ==
    /\ tasks # {}
    /\ tasks' = {}
    /\ news' = [v \in Viewer |-> "missed"]
    /\ UNCHANGED state

NewsNext ==
    \/ \E c \in Courier \cup {NoCourier} :
         NewsStartAuto(c) \/ NewsResend(c) \/ NewsAssignManual(c) \/ NewsReassign(c) \/ NewsTick(c) \/ NewsReject(c)
    \/ \E s \in {"open", "offered", "working", "closed"} : NewsSetStatus(s) \/ Override(s)
    \/ NewsCancel \/ NewsAccept \/ NewsArchive \/ NewsUnarchive
    \/ \E task \in tasks : Announce(task)
    \/ \E v \in Viewer : Heard(v) \/ PageHeard(v) \/ PhoneFetches(v) \/ PageFetches(v)
    \/ ApiStops

NewsSpec == NewsInit /\ [][NewsNext]_newsVars

-----------------------------------------------------------------------------
NewsTypeOK ==
    /\ state \in OrderState
    /\ tasks \subseteq Task
    /\ news \in [Viewer -> News]

\* When no announcement is left to be made, a screen that shows an older state of the order is
\* one that missed something: it was not connected, the announcement failed (index.ts:221) or the
\* API stopped before it, it is in no room, or the desk gave the captain's order away or sent it to distribution without
\* finding anybody.  Every other change, the ticks' whose announcement reads the order late
\* included, reaches the captains it concerns and every page.
NewsReaches == tasks = {} => \A v \in Viewer : news[v] # "behind"
=============================================================================
