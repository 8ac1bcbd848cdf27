---------------------------- MODULE TrackingOutbox ----------------------------
(***************************************************************************)
(* The captain's position: read on a timer while the application is in      *)
(* front, sent to the API, kept in a short queue when that fails.           *)
(*                                                                         *)
(* The queue is emptied by flushOutbox, called by the timer's tick and by    *)
(* an effect when the network, the session or the permission comes back:    *)
(* several flushes run at the same time over one queue.  A send stands for   *)
(* all its attempts; a step runs up to the next await.                      *)
(***************************************************************************)
EXTENDS FiniteSets, Sequences, SequencesExt, Naturals

CONSTANTS
    Spot,       \* positions closer than minCoordinateDelta are one spot
    OutboxMax,  \* TRACKING_CONFIG.outboxMax
    Effect,     \* bound: flushes the effect has running at once
    MaxPoints   \* bound: positions read

ASSUME OutboxAssumption ==
    /\ OutboxMax \in Nat \ {0} /\ MaxPoints \in Nat
    /\ "tick" \notin Effect

VARIABLES
    session, granted, foreground, net,  \* the refs the hook reads
    queue,      \* LocationOutbox.items
    sending,    \* sending[f]: the point flush f waits for, or NoPoint
    tick,       \* runTick: where it is, and the point it sends itself
    points,     \* positions read so far
    acked,      \* points the API acknowledged
    owed,       \* points put into the queue and not pushed out at its limit
    overlapped     \* two flushes overlapped, or a point was pushed out during one

outboxVars == <<session, granted, foreground, net, queue, sending, tick, points, acked, owed, overlapped>>

Flush == Effect \cup {"tick"}
Point == [no : 1 .. MaxPoints, spot : Spot]
NoPoint == [no |-> 0]
Tick == [at : {"idle", "flush", "read", "send"}, point : Point \cup {NoPoint}]
Resting == [at |-> "idle", point |-> NoPoint]

Flushing == {f \in Flush : sending[f] # NoPoint}

OutboxInit ==
    /\ session = FALSE /\ granted = FALSE /\ foreground = TRUE /\ net = "unknown"
    /\ queue = <<>>
    /\ sending = [f \in Flush |-> NoPoint]
    /\ tick = Resting
    /\ points = 0
    /\ acked = {} /\ owed = {}
    /\ overlapped = FALSE

-----------------------------------------------------------------------------
(* LocationOutbox *)

\* Mutant: the limit is looked at before the point is added.
EnqueuedPastMax(q, p) ==
    IF q # <<>> /\ Last(q).spot = p.spot THEN q
    ELSE IF Len(q) <= OutboxMax THEN Append(q, p)
    ELSE Append(Tail(q), p)

Enqueued(q, p) ==
    IF q # <<>> /\ Last(q).spot = p.spot THEN q
    ELSE IF Len(q) < OutboxMax THEN Append(q, p)
    ELSE Append(Tail(q), p)

\* The point is kept: of a full queue the oldest goes.
Enqueue(p) ==
    /\ queue' = Enqueued(queue, p)
    /\ owed' = (owed \ (ToSet(queue) \ ToSet(queue'))) \cup (ToSet(queue') \ ToSet(queue))
    /\ overlapped' = (overlapped \/ (Flushing # {} /\ ~(ToSet(queue) \subseteq ToSet(queue'))))

-----------------------------------------------------------------------------
(* flushOutbox *)

\* The head is peeked and sent; with an empty queue the flush is over.
Sends(f, q) ==
    /\ sending' = [sending EXCEPT ![f] = IF q = <<>> THEN NoPoint ELSE Head(q)]
    /\ overlapped' = (overlapped \/ (q # <<>> /\ Flushing \ {f} # {}))

FlushOver(f) == tick' = IF f = "tick" THEN [tick EXCEPT !.at = "read"] ELSE tick

\* Mutant: the head is taken off before it is known to have arrived.
FlushAnsweredAnyhow(f) ==
    /\ sending[f] # NoPoint
    /\ acked' \in {acked, acked \cup {sending[f]}}
    /\ queue' = IF queue = <<>> THEN queue ELSE Tail(queue)
    /\ IF acked' # acked
         THEN Sends(f, queue') /\ IF queue' = <<>> THEN FlushOver(f) ELSE UNCHANGED tick
         ELSE sending' = [sending EXCEPT ![f] = NoPoint] /\ FlushOver(f) /\ UNCHANGED overlapped
    /\ UNCHANGED <<session, granted, foreground, net, points, owed>>

\* The answer of the API: acknowledged, the head of the queue is taken off, whichever it is
\* by now, and the next is sent; failed for good, the flush is over.
FlushAnswered(f) ==
    /\ sending[f] # NoPoint
    /\ \/ /\ acked' = acked \cup {sending[f]}
          /\ queue' = IF queue = <<>> THEN queue ELSE Tail(queue)
          /\ Sends(f, queue')
          /\ IF queue' = <<>> THEN FlushOver(f) ELSE UNCHANGED tick
       \/ /\ sending' = [sending EXCEPT ![f] = NoPoint]
          /\ FlushOver(f)
          /\ UNCHANGED <<queue, acked, overlapped>>
    /\ UNCHANGED <<session, granted, foreground, net, points, owed>>

-----------------------------------------------------------------------------
(* runTick *)

TickStarts ==
    /\ tick.at = "idle" /\ session /\ foreground /\ granted
    /\ IF net = "online" /\ queue # <<>>
         THEN tick' = [tick EXCEPT !.at = "flush"] /\ Sends("tick", queue)
         ELSE tick' = [tick EXCEPT !.at = "read"] /\ UNCHANGED <<sending, overlapped>>
    /\ UNCHANGED <<session, granted, foreground, net, queue, points, acked, owed>>

\* Mutant: after a failed reading the next ticks find this one still in flight.
GpsFailsInFlight ==
    /\ tick.at = "read"
    /\ tick' = [tick EXCEPT !.at = "send"]
    /\ UNCHANGED <<session, granted, foreground, net, queue, sending, points, acked, owed, overlapped>>

GpsFails ==
    /\ tick.at = "read"
    /\ tick' = Resting
    /\ UNCHANGED <<session, granted, foreground, net, queue, sending, points, acked, owed, overlapped>>

\* The position is read: it goes to the API, or to the queue when there is no network.
Read ==
    /\ tick.at = "read" /\ points < MaxPoints
    /\ points' = points + 1
    /\ \E s \in Spot :
         LET p == [no |-> points', spot |-> s] IN
         IF net = "online"
           THEN tick' = [at |-> "send", point |-> p] /\ UNCHANGED <<queue, owed, overlapped>>
           ELSE tick' = Resting /\ Enqueue(p)
    /\ UNCHANGED <<session, granted, foreground, net, sending, acked>>

TickAnswered ==
    /\ tick.at = "send" /\ tick.point # NoPoint
    /\ tick' = Resting
    /\ \/ acked' = acked \cup {tick.point} /\ UNCHANGED <<queue, owed, overlapped>>
       \/ Enqueue(tick.point) /\ UNCHANGED acked
    /\ UNCHANGED <<session, granted, foreground, net, sending, points>>

-----------------------------------------------------------------------------
(* The effects *)

Ready == net = "online" /\ session /\ granted

\* When the network, the session or the permission comes back, a flush of its own starts.
FlushEffect ==
    IF Ready' /\ queue # <<>>
      THEN \E f \in Effect : sending[f] = NoPoint /\ Sends(f, queue)
      ELSE UNCHANGED <<sending, overlapped>>

SetNet ==
    /\ net' \in {"online", "offline", "unknown"} \ {net}
    /\ UNCHANGED <<session, granted, foreground, queue, tick, points, acked, owed>>
    /\ FlushEffect

\* The switch on the screen; the permission is asked for when it is turned on.
SetSession ==
    /\ session' = ~session
    /\ UNCHANGED <<granted, foreground, net, queue, tick, points, acked, owed>>
    /\ FlushEffect

\* The answer to that, or to the button that asks again.
AnswerPermission ==
    /\ session
    /\ granted' = ~granted
    /\ UNCHANGED <<session, foreground, net, queue, tick, points, acked, owed>>
    /\ FlushEffect

SetForeground ==
    /\ foreground' = ~foreground
    /\ UNCHANGED <<session, granted, net, queue, sending, tick, points, acked, owed, overlapped>>

OutboxNext ==
    \/ \E f \in Flush : FlushAnswered(f)
    \/ TickStarts \/ GpsFails \/ Read \/ TickAnswered
    \/ SetNet \/ SetSession \/ AnswerPermission \/ SetForeground

\* The interval fires, sends end, and sending again and again succeeds in the end; neither
\* the phone's network nor its user owes anything.  That sends end rests on the phone giving up
\* a dead connection: fetch has no timeout of its own.
OutboxFairness ==
    /\ WF_outboxVars(TickStarts)
    /\ WF_outboxVars(GpsFails \/ Read)
    /\ WF_outboxVars(TickAnswered)
    /\ \A f \in Flush :
         /\ WF_outboxVars(FlushAnswered(f))
         /\ SF_outboxVars(FlushAnswered(f) /\ acked' # acked)

OutboxSpec == OutboxInit /\ [][OutboxNext]_outboxVars /\ OutboxFairness

-----------------------------------------------------------------------------
OutboxTypeOK ==
    /\ session \in BOOLEAN /\ granted \in BOOLEAN /\ foreground \in BOOLEAN
    /\ net \in {"online", "offline", "unknown"}
    /\ queue \in Seq(Point) /\ Len(queue) <= OutboxMax
    /\ sending \in [Flush -> Point \cup {NoPoint}]
    /\ tick \in Tick
    /\ points \in 0 .. MaxPoints
    /\ acked \subseteq Point /\ owed \subseteq Point
    /\ overlapped \in BOOLEAN

\* A point put into the queue is there until the API has it: "the point was saved to be sent
\* when the network is back", as the screen tells the captain.
SavedIsSent == owed \subseteq acked \cup ToSet(queue)

\* The same, as long as one flush runs at a time and nothing is pushed out during it,
\* whatever sends fail and however ticks, effects and the network alternate.
SavedUnlessOverlapped == overlapped \/ SavedIsSent

\* With the tracking on, in front and with the network back for good, the queue empties, also
\* after every later send that fails.
OutboxDrains ==
    <>[](session /\ granted /\ foreground /\ net = "online") => []<>(queue = <<>> /\ Flushing = {})
=============================================================================
