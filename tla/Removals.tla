------------------------------ MODULE Removals ------------------------------
(***************************************************************************)
(* The two operations of the desk that take something away and are not one  *)
(* transaction behind the order's lock: archiveOrder looks at the order,    *)
(* cancels the assignment in a transaction of the engine and sets           *)
(* archivedAt in a statement of its own; deleteCaptain counts the captain's *)
(* open orders and then deletes, without a lock.  Every other handler is    *)
(* Distribution's, and may commit in between.                               *)
(***************************************************************************)
EXTENDS Distribution

VARIABLES
    archiving,  \* archiving[o]: what the archive of o under way does next; one at a time
    deleting,   \* the captains whose open orders were counted, and were none
    crossed     \* history: the orders given out or moved on between the two steps of a removal

removalVars == <<order, offer, rounds, captain, archiving, deleting, crossed>>

RemovalInit ==
    /\ Init
    /\ archiving = [o \in Order |-> "nothing"]
    /\ deleting = {}
    /\ crossed = {}

-----------------------------------------------------------------------------
(* The archive. *)

\* Mutant: an order on offer is archived like any other.
ArchiveBeginsOnOffer(o) ==
    /\ archiving[o] = "nothing"
    /\ ~order[o].archived
    /\ order[o].status \notin {"ACCEPTED", "PICKED_UP", "IN_TRANSIT"}
    /\ archiving' = [archiving EXCEPT ![o] = "write"]
    /\ UNCHANGED <<vars, deleting, crossed>>

\* The order is read and looked at: one on its way is not archived, one on offer is to lose
\* its captain first.
ArchiveBegins(o) ==
    /\ archiving[o] = "nothing"
    /\ ~order[o].archived
    /\ order[o].status \notin {"ACCEPTED", "PICKED_UP", "IN_TRANSIT"}
    /\ archiving' = [archiving EXCEPT ![o] =
           IF order[o].captain # NoCaptain /\ order[o].status = "ASSIGNED" THEN "cancel" ELSE "write"]
    /\ UNCHANGED <<vars, deleting, crossed>>

\* cancelCaptainAssignment, with checks of its own: an accepted order loses its captain too.
ArchiveCancels(o) ==
    /\ archiving[o] = "cancel"
    /\ CancelAssignment(o)
    /\ archiving' = [archiving EXCEPT ![o] = "write"]
    /\ UNCHANGED <<deleting, crossed>>

\* archivedAt is written by id, whatever the order has become.
ArchiveWrites(o) ==
    /\ archiving[o] = "write"
    /\ order' = [order EXCEPT ![o].archived = TRUE]
    /\ archiving' = [archiving EXCEPT ![o] = "nothing"]
    /\ UNCHANGED <<offer, rounds, captain, deleting, crossed>>

\* The cancellation refuses, or the request dies: what it has written stays.
ArchiveFails(o) ==
    /\ archiving[o] # "nothing"
    /\ archiving' = [archiving EXCEPT ![o] = "nothing"]
    /\ UNCHANGED <<vars, deleting, crossed>>

-----------------------------------------------------------------------------
(* The deletion of a captain.  A deleted captain is one who is never active again. *)

\* Mutant: only the orders he has accepted count as open.
CountOpenAccepted(c) ==
    /\ captain[c].active /\ c \notin deleting
    /\ \A o \in Order : order[o].captain = c => order[o].status \notin Working \ {"ASSIGNED"}
    /\ deleting' = deleting \cup {c}
    /\ UNCHANGED <<vars, archiving, crossed>>

CountOpen(c) ==
    /\ captain[c].active /\ c \notin deleting
    /\ \A o \in Order : order[o].captain = c => order[o].status \in {"DELIVERED", "CANCELLED"}
    /\ deleting' = deleting \cup {c}
    /\ UNCHANGED <<vars, archiving, crossed>>

\* His orders lose their captain, his rows and he himself are deleted.  Which of the completed
\* rounds were his is not kept: any of them may be gone.
DeleteCaptain(c) ==
    /\ c \in deleting
    /\ order' = [o \in Order |-> IF order[o].captain = c
                                   THEN [order[o] EXCEPT !.captain = NoCaptain, !.by = "AUTO"] ELSE order[o]]
    /\ offer' = [l \in LogId |-> IF Live(l) /\ offer[l].captain = c THEN NoOffer ELSE offer[l]]
    /\ rounds' \in {left \in [Order -> 0 .. MaxAttempts] : \A o \in Order : left[o] <= rounds[o]}
    /\ captain' = [captain EXCEPT ![c].active = FALSE]
    /\ deleting' = deleting \ {c}
    /\ UNCHANGED <<archiving, crossed>>

\* Rolled back: an error, or a row of his written meanwhile (onDelete: Restrict).
DeleteFails(c) ==
    /\ c \in deleting
    /\ deleting' = deleting \ {c}
    /\ UNCHANGED <<vars, archiving, crossed>>

-----------------------------------------------------------------------------
\* The rest of the desk, the captains' answers, the tick.
Handled ==
    \/ \E o \in Order :
         \/ StartAuto(o) \/ Resend(o) \/ CancelAssignment(o) \/ Unarchive(o)
         \/ \E c \in Captain : AssignManual(o, c) \/ Reassign(o, c)
         \/ \E s \in OrderStatus : AdminOverride(o, s) \/ CaptainSetStatus(o, s)
    \/ \E l \in LogId : Accept(l) \/ Reject(l) \/ Expire(l) \/ WindowElapses(l)

\* A handler that commits while a removal is under way crosses it when the order is then
\* somebody's work: the order to be archived, or an order of the captain to be deleted.
Crosses(o) ==
    /\ order'[o] # order[o]
    /\ order'[o].status \in Working
    /\ archiving[o] # "nothing" \/ order'[o].captain \in deleting

HandlerCommits ==
    /\ Handled
    /\ crossed' = crossed \cup {o \in Order : Crosses(o)}
    /\ UNCHANGED <<archiving, deleting>>

RemovalNext ==
    \/ \E o \in Order : ArchiveBegins(o) \/ ArchiveCancels(o) \/ ArchiveWrites(o) \/ ArchiveFails(o)
    \/ \E c \in Captain : CountOpen(c) \/ DeleteCaptain(c) \/ DeleteFails(c)
    \/ HandlerCommits

RemovalSpec == RemovalInit /\ [][RemovalNext]_removalVars

-----------------------------------------------------------------------------
RemovalTypeOK ==
    /\ TypeOK
    /\ archiving \in [Order -> {"nothing", "cancel", "write"}]
    /\ deleting \subseteq Captain
    /\ crossed \subseteq Order

\* No work is lost to a removal: an order somebody is to carry has its captain and is not
\* archived, and one on offer has the row its captain answers and the tick expires, unless the
\* order was given out or moved on between the look of a removal and its writes.
WorkSurvives ==
    \A o \in Order \ crossed :
        order[o].status \in Working =>
            /\ order[o].captain # NoCaptain /\ ~order[o].archived
            /\ order[o].status = "ASSIGNED" =>
                 \E l \in LogId : Live(l) /\ offer[l].order = o /\ offer[l].captain = order[o].captain
=============================================================================
