----------------------------- MODULE CaptainScreen -----------------------------
(***************************************************************************)
(* The list of current orders on the captain's phone, put together from two   *)
(* requests that are cached and fetched apart: the assignment (one order,     *)
(* primary) and its overflow (the others).  The orders change on the server   *)
(* meanwhile; socket events, polls, the screen and the captain's own taps     *)
(* start fetches, and a fetch reads the rows one query at a time.            *)
(***************************************************************************)
EXTENDS Naturals, Sequences, SequencesExt

CONSTANTS
    Order, NoOrder,
    MaxChanges  \* bound: changes of the captain's orders on the server

ASSUME ScreenAssumption == NoOrder \notin Order /\ MaxChanges \in Nat

VARIABLES
    mine,       \* the captain's live offers, soonest to expire first, and the orders he works on, latest update first
    front,      \* the application is in front, with this screen
    cache,      \* the last answer to each request
    fetch,      \* fetch[q]: where request q is, and what its queries have read
    fresh,      \* the requests whose cached answer was read whole after the last change
    tap,        \* tap[o]: the accept mutation of o
    changes

screenVars == <<mine, front, cache, fetch, fresh, tap, changes>>

Query == {"assignment", "overflow"}
Card == [order : Order, kind : {"OFFER", "ACTIVE"}]
Assignment == Card \cup {[order |-> NoOrder, kind |-> "NONE"]}

Rows == {q \in UNION {[1 .. n -> Order] : n \in 0 .. MaxChanges} : IsInjective(q)}
Fetch == [at : {"none", "asked", "lists", "read"}, answer : Assignment, current : BOOLEAN,
          primary : Order \cup {NoOrder}, offers : Rows, active : Rows, left : SUBSET {"offers", "active"}]

None == [order |-> NoOrder, kind |-> "NONE"]
NoFetch == [at |-> "none", answer |-> None, current |-> TRUE,
            primary |-> NoOrder, offers |-> <<>>, active |-> <<>>, left |-> {}]
Asked == [NoFetch EXCEPT !.at = "asked"]

Cards(os, kind) == {[order |-> o, kind |-> kind] : o \in ToSet(os)}

\* getCurrentAssignment: the offer that expires first, or else the order updated last.
CurrentAssignment ==
    IF mine.offers # <<>> THEN [order |-> Head(mine.offers), kind |-> "OFFER"]
    ELSE IF mine.active # <<>> THEN [order |-> Head(mine.active), kind |-> "ACTIVE"]
    ELSE None

\* Mutant: the order being worked on comes before an offer.
WorkingFirst ==
    IF mine.active # <<>> THEN Head(mine.active)
    ELSE IF mine.offers # <<>> THEN Head(mine.offers)
    ELSE NoOrder

\* resolvePrimaryAssignmentOrderId: the same choice, made by the overflow for itself.
PrimaryOrder ==
    IF mine.offers # <<>> THEN Head(mine.offers)
    ELSE IF mine.active # <<>> THEN Head(mine.active)
    ELSE NoOrder

\* getAssignmentOverflow leaves the primary out, and an order that both lists have comes
\* once, as an offer.
OverflowItems(f) ==
    LET offers == Cards(f.offers, "OFFER")
        active == {c \in Cards(f.active, "ACTIVE") : c.order \notin ToSet(f.offers)}
    IN  {c \in offers \cup active : c.order # f.primary}

\* computedOrders: the assignment, then what the overflow adds to it.
Screen ==
    ({cache.assignment} \ {None})
    \cup {c \in cache.overflow : c.order # cache.assignment.order}

Mine == Cards(mine.offers, "OFFER") \cup Cards(mine.active, "ACTIVE")

ScreenInit ==
    /\ mine = [offers |-> <<>>, active |-> <<>>]
    /\ front = TRUE
    /\ cache = [assignment |-> None, overflow |-> {}]
    /\ fetch = [q \in Query |-> Asked]
    /\ fresh = {}
    /\ tap = [o \in Order |-> "idle"]
    /\ changes = 0

-----------------------------------------------------------------------------
(* What the desk, the tick and the other captains do to this captain's orders. *)

\* What was read before is out of date.
Overtaken == [q \in Query |-> [fetch[q] EXCEPT !.current = fetch[q].at \in {"none", "asked"}]]

ChangeOf(rows) ==
    /\ changes < MaxChanges
    /\ mine' = rows
    /\ changes' = changes + 1
    /\ fetch' = Overtaken
    /\ fresh' = {}
    /\ UNCHANGED <<front, cache, tap>>

\* Every offer has the same window: the last one expires last.
Offered(o) ==
    /\ o \notin ToSet(mine.offers) \cup ToSet(mine.active)
    /\ ChangeOf([mine EXCEPT !.offers = Append(@, o)])

\* An offer elapses, is withdrawn or given to another; an order is taken away or closed.
Gone(o) ==
    /\ o \in ToSet(mine.offers) \cup ToSet(mine.active)
    /\ ChangeOf([offers |-> RemoveFirst(mine.offers, o), active |-> RemoveFirst(mine.active, o)])

\* A new status, his own or the desk's.
Updated(o) ==
    /\ o \in ToSet(mine.active)
    /\ ChangeOf([mine EXCEPT !.active = <<o>> \o RemoveFirst(@, o)])

-----------------------------------------------------------------------------
(* The two requests *)

Ask(qs) == fetch' = [q \in Query |-> IF q \in qs THEN Asked ELSE fetch[q]]

\* Every 12 s while the application is in front, unless the request is in flight.
Poll(q) ==
    /\ front /\ fetch[q].at = "none"
    /\ Ask({q})
    /\ UNCHANGED <<mine, front, cache, fresh, tap, changes>>

\* The answer of getCurrentAssignment; the overflow resolves its primary first.
ReadPrimary(q) ==
    /\ fetch[q].at = "asked"
    /\ fetch' = [fetch EXCEPT ![q] =
         IF q = "assignment"
           THEN [NoFetch EXCEPT !.at = "read", !.answer = CurrentAssignment]
           ELSE [NoFetch EXCEPT !.at = "lists", !.primary = PrimaryOrder, !.left = {"offers", "active"}]]
    /\ UNCHANGED <<mine, front, cache, fresh, tap, changes>>

\* The overflow's two lists are read at the same time, in either order.
ReadList ==
    /\ fetch["overflow"].at = "lists"
    /\ \E l \in fetch["overflow"].left :
         fetch' = [fetch EXCEPT !["overflow"] =
           [fetch["overflow"] EXCEPT
                     !.left = @ \ {l}, !.at = IF fetch["overflow"].left = {l} THEN "read" ELSE "lists",
                     !.offers = IF l = "offers" THEN mine.offers ELSE @,
                     !.active = IF l = "active" THEN mine.active ELSE @]]
    /\ UNCHANGED <<mine, front, cache, fresh, tap, changes>>

Answer(q) == IF q = "assignment" THEN fetch[q].answer ELSE OverflowItems(fetch[q])

\* The answer is cached; when it says something new, the screen is drawn again, its focus
\* effect runs and asks for both anew.
Arrives(q) ==
    /\ fetch[q].at = "read"
    /\ cache' = [cache EXCEPT ![q] = Answer(q)]
    /\ IF cache' # cache /\ front
         THEN Ask(Query)
         ELSE fetch' = [fetch EXCEPT ![q] = NoFetch]
    /\ fresh' = IF fetch[q].current THEN fresh \cup {q} ELSE fresh \ {q}
    /\ UNCHANGED <<mine, front, tap, changes>>

\* The API was not reached, or its answer is lost.
FetchFails(q) ==
    /\ fetch[q].at \in {"asked", "read"}
    /\ fetch' = [fetch EXCEPT ![q] = NoFetch]
    /\ UNCHANGED <<mine, front, cache, fresh, tap, changes>>

-----------------------------------------------------------------------------
(* The socket, the application in the background *)

\* captain:assignment, captain:assignment:ended and captain:order:updated, which changes here
\* and elsewhere send, invalidate the assignment, not the overflow.  An event may come or not:
\* what was under way when the socket broke is not sent again.
EventArrives ==
    /\ Ask({"assignment"})
    /\ UNCHANGED <<mine, front, cache, fresh, tap, changes>>

FrontOrBack ==
    /\ front' = ~front
    /\ IF front' THEN Ask({"assignment"}) ELSE UNCHANGED fetch
    /\ UNCHANGED <<mine, cache, fresh, tap, changes>>

-----------------------------------------------------------------------------
(* The accept button: both requests and the order's details are fetched again, and the order *)
(* must still be on offer in one of them.                                                     *)

Tap(o) ==
    /\ front /\ tap[o] = "idle" /\ [order |-> o, kind |-> "OFFER"] \in Screen
    /\ tap' = [tap EXCEPT ![o] = "assignment"]
    /\ Ask({"assignment"})
    /\ UNCHANGED <<mine, front, cache, fresh, changes>>

Refetched(o) ==
    /\ \/ /\ tap[o] = "assignment" /\ fetch["assignment"].at = "none"
          /\ tap' = [tap EXCEPT ![o] = "overflow"]
          /\ Ask({"overflow"})
       \/ /\ tap[o] = "overflow" /\ fetch["overflow"].at = "none"
          /\ tap' \in {[tap EXCEPT ![o] = at] : at \in
                 IF cache.assignment = [order |-> o, kind |-> "OFFER"] THEN {"post"}
                 ELSE IF o \in ToSet(mine.offers) THEN {"post", "idle"}
                 ELSE {"idle"}}
          /\ UNCHANGED fetch
    /\ UNCHANGED <<mine, front, cache, fresh, changes>>

\* The API accepts an order still on offer; both requests are fetched again when its answer
\* says so.
AcceptPosted(o) ==
    /\ tap[o] = "post"
    /\ tap' = [tap EXCEPT ![o] = "idle"]
    /\ \/ /\ o \in ToSet(mine.offers)
          /\ mine' = [offers |-> RemoveFirst(mine.offers, o), active |-> <<o>> \o mine.active]
          /\ Ask(Query) \/ fetch' = Overtaken
          /\ fresh' = {}
       \/ UNCHANGED <<mine, fetch, fresh>>
    /\ UNCHANGED <<front, cache, changes>>

ScreenNext ==
    \/ \E o \in Order : Offered(o) \/ Gone(o) \/ Updated(o) \/ Tap(o) \/ Refetched(o) \/ AcceptPosted(o)
    \/ \E q \in Query : Poll(q) \/ ReadPrimary(q) \/ Arrives(q) \/ FetchFails(q)
    \/ ReadList \/ EventArrives \/ FrontOrBack

ScreenSpec == ScreenInit /\ [][ScreenNext]_screenVars

-----------------------------------------------------------------------------
ScreenTypeOK ==
    /\ mine.offers \in Rows /\ mine.active \in Rows
    /\ front \in BOOLEAN
    /\ cache.assignment \in Assignment /\ cache.overflow \subseteq Card
    /\ fetch \in [Query -> Fetch]
    /\ fresh \subseteq Query
    /\ tap \in [Order -> {"idle", "assignment", "overflow", "post"}]
    /\ changes \in 0 .. MaxChanges

\* When both answers were read after the last change, however the fetches overlapped, the list
\* is exactly the captain's offers and the orders he works on, each once: what one request
\* leaves out the other has.
ScreenIsWhole == fresh = Query => Screen = Mine
=============================================================================
