---------------------------- MODULE CalloopQueue ----------------------------
(***************************************************************************)
(* The main-thread queue on Linux: a priority queue whose receiver is an   *)
(* event source of the calloop loop and is woken by a ping                 *)
(* (crates/gpui_linux/src/linux/dispatcher.rs).  Any thread sends; the     *)
(* event loop reads the ping, drains the queue through try_iter and calls  *)
(* back for each runnable.  Items are counted by priority; their order is  *)
(* the subject of PriorityQueue.                                           *)
(***************************************************************************)
EXTENDS PriorityPick, FiniteSets

CONSTANTS
    Senders,    \* threads that hold a reference to the sender
    Loop,       \* the event-loop thread, which sends from its callbacks too
    MaxItems    \* bound: items ever sent

ASSUME SendersAssumption == Loop \notin Senders /\ MaxItems \in Nat

VARIABLES
    queues,     \* the items of each priority
    sent,       \* items pushed so far
    ping,       \* the eventfd behind the Ping is readable
    sendPc,     \* "idle", or "pushed": between the push and the ping
    sender,     \* life of PriorityQueueCalloopSender: "alive", "pinged" by its
                \* Drop, "dropped" once its sender field decremented the count
    loopPc,     \* "poll", "drain", or "callback"
    isEmpty,    \* is_empty of process_events
    delivered,  \* runnables handed to the callback
    closed      \* Event::Closed was delivered and the source removed

vars == <<queues, sent, ping, sendPc, sender, loopPc, isEmpty, delivered, closed>>

Threads == Senders \union {Loop}

TypeOK ==
    /\ queues \in [Priorities -> Seq({1})]
    /\ sent \in 0..MaxItems
    /\ ping \in BOOLEAN
    /\ sendPc \in [Threads -> {"idle", "pushed"}]
    /\ sender \in {"alive", "pinged", "dropped"}
    /\ loopPc \in {"poll", "drain", "callback"}
    /\ isEmpty \in BOOLEAN
    /\ delivered \in 0..MaxItems
    /\ closed \in BOOLEAN

Init ==
    /\ queues = [p \in Priorities |-> <<>>]
    /\ sent = 0 /\ delivered = 0
    /\ ping = FALSE
    /\ sendPc = [t \in Threads |-> "idle"]
    /\ sender = "alive"
    /\ loopPc = "poll" /\ isEmpty = TRUE
    /\ closed = FALSE

\* PriorityQueueSender's count; the receiver reads it with the mutex held.
sender_count == IF sender = "dropped" THEN 0 ELSE 1

-----------------------------------------------------------------------------
(* Sending threads, the event loop in a callback among them.                *)

MaySend(t) == t = Loop => loopPc = "callback"

\* PriorityQueueCalloopSender::send: the push, then the ping.
Send(t, p) ==
    /\ sender = "alive" /\ sendPc[t] = "idle" /\ MaySend(t)
    /\ sent < MaxItems
    /\ queues' = [queues EXCEPT ![p] = Append(@, 1)]
    /\ sent' = sent + 1
    /\ sendPc' = [sendPc EXCEPT ![t] = "pushed"]
    /\ UNCHANGED <<ping, sender, loopPc, isEmpty, delivered, closed>>

\* Mutant: the ping is written when the push failed, not when it succeeded.
PingOnError(t) ==
    /\ sendPc[t] = "pushed"
    /\ sendPc' = [sendPc EXCEPT ![t] = "idle"]
    /\ UNCHANGED <<queues, sent, ping, sender, loopPc, isEmpty, delivered, closed>>

Ping(t) ==
    /\ sendPc[t] = "pushed"
    /\ ping' = TRUE
    /\ sendPc' = [sendPc EXCEPT ![t] = "idle"]
    /\ UNCHANGED <<queues, sent, sender, loopPc, isEmpty, delivered, closed>>

\* Drop for PriorityQueueCalloopSender pings; its fields are dropped after.
DropPing ==
    /\ sender = "alive" /\ \A t \in Threads : sendPc[t] = "idle"
    /\ sender' = "pinged"
    /\ ping' = TRUE
    /\ UNCHANGED <<queues, sent, sendPc, loopPc, isEmpty, delivered, closed>>

DropSenderField ==
    /\ sender = "pinged"
    /\ sender' = "dropped"
    /\ UNCHANGED <<queues, sent, ping, sendPc, loopPc, isEmpty, delivered, closed>>

-----------------------------------------------------------------------------
(* process_events.                                                          *)

\* PingSource::process_events reads the eventfd before it calls back.
Poll ==
    /\ loopPc = "poll" /\ ~closed
    /\ ping
    /\ ping' = FALSE
    /\ loopPc' = "drain" /\ isEmpty' = TRUE
    /\ UNCHANGED <<queues, sent, sendPc, sender, delivered, closed>>

\* try_iter yields a runnable, which the callback runs.
Deliver(p) ==
    /\ loopPc = "drain"
    /\ p \in Pickable(queues)
    /\ queues' = [queues EXCEPT ![p] = Tail(@)]
    /\ delivered' = delivered + 1
    /\ isEmpty' = FALSE
    /\ loopPc' = "callback"
    /\ UNCHANGED <<sent, ping, sendPc, sender, closed>>

CallbackReturns ==
    /\ loopPc = "callback" /\ sendPc[Loop] = "idle"
    /\ loopPc' = "drain"
    /\ UNCHANGED <<queues, sent, ping, sendPc, sender, isEmpty, delivered, closed>>

\* try_iter ends with None.  "Re-notify the ping source so we can try again."
\* after a round that delivered something.
DrainEmpty ==
    /\ loopPc = "drain" /\ IsEmpty(queues) /\ sender_count # 0
    /\ ping' = (ping \/ ~isEmpty)
    /\ loopPc' = "poll"
    /\ UNCHANGED <<queues, sent, sendPc, sender, isEmpty, delivered, closed>>

\* Mutant: the drop in progress already counts.
DropStarted == IsEmpty(queues) /\ sender # "alive"

\* try_recv's error: the queues are empty and every sender is gone.
Disconnected == IsEmpty(queues) /\ sender_count = 0

\* try_iter ends with RecvError: Event::Closed, and the source is removed.
DrainClosed ==
    /\ loopPc = "drain" /\ Disconnected
    /\ closed' = TRUE
    /\ loopPc' = "poll"
    /\ UNCHANGED <<queues, sent, ping, sendPc, sender, isEmpty, delivered>>

-----------------------------------------------------------------------------
SenderStep ==
    \/ \E t \in Threads : \/ \E p \in Priorities : Send(t, p)
                          \/ Ping(t)
    \/ DropPing
    \/ DropSenderField

LoopStep ==
    \/ Poll
    \/ \E p \in Priorities : Deliver(p)
    \/ CallbackReturns
    \/ DrainEmpty
    \/ DrainClosed

Next == SenderStep \/ LoopStep

\* Threads that started to send or to drop the sender finish; the loop runs.
Fairness ==
    /\ \A t \in Threads : WF_vars(Ping(t))
    /\ WF_vars(DropSenderField)
    /\ WF_vars(LoopStep)

Spec == Init /\ [][Next]_vars /\ Fairness

-----------------------------------------------------------------------------
(* Properties.                                                              *)

\* The source is closed for good and not too early: when it is removed nothing
\* is left to deliver, and no sender is left that could still send to it.
ClosedIsFinal ==
    closed => sender = "dropped" /\ delivered = sent /\ IsEmpty(queues)

\* Every runnable dispatched to the main thread runs.
EveryRunnableDelivered == \A n \in 1..MaxItems : (sent >= n) ~> (delivered >= n)

\* The test of the queue: after drop(tx) the loop gets Event::Closed.
ClosedAfterDrop == (sender = "dropped") ~> closed

=============================================================================
