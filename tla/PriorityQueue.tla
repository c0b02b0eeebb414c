---------------------------- MODULE PriorityQueue ---------------------------
(***************************************************************************)
(* The queue between the threads that dispatch runnables and the worker    *)
(* threads that run them (crates/gpui/src/queue.rs, and the worker loop of *)
(* crates/gpui_linux/src/linux/dispatcher.rs).                             *)
(*                                                                         *)
(* The one PriorityQueueSender is shared by reference; receivers are       *)
(* clones, one for each worker.  queues is guarded by a mutex whose        *)
(* critical sections are one step each, except that condvar.wait releases  *)
(* it.  receiver_count and sender_count are atomics read outside of what   *)
(* the mutex protects.                                                     *)
(***************************************************************************)
EXTENDS PriorityPick, FiniteSets

CONSTANTS
    Senders,    \* threads that hold a reference to the sender
    Receivers,  \* threads with a receiver each
    MaxItems    \* bound: items ever sent

ASSUME MaxItemsAssumption == MaxItems \in Nat
ASSUME ThreadsAssumption == IsFiniteSet(Senders) /\ IsFiniteSet(Receivers)

VARIABLES
    queues,         \* PriorityQueues: the items of each priority
    sent,           \* items pushed so far (an item is its number)
    sendPc,         \* "idle", or the priority about to be pushed
    senderAlive,    \* the sender was not dropped (sender_count)
    recvPc,         \* what each receiver does
    popped          \* items received, by priority, in order

vars == <<queues, sent, sendPc, senderAlive, recvPc, popped>>

\* "gone": dropped; "running": between two pops; "popping": inside pop, the
\* mutex not yet acquired; "waiting": parked in condvar.wait; "woken": notified
\* but without the mutex; "closed": pop returned RecvError.
RecvPcs == {"running", "popping", "waiting", "woken", "closed", "gone"}

Items == 1..MaxItems
TypeOK ==
    /\ queues \in [Priorities -> Seq(Items)]
    /\ sent \in 0..MaxItems
    /\ sendPc \in [Senders -> Priorities \union {"idle"}]
    /\ senderAlive \in BOOLEAN
    /\ recvPc \in [Receivers -> RecvPcs]
    /\ popped \in [Priorities -> Seq(Items)]

Init ==
    /\ queues = [p \in Priorities |-> <<>>]
    /\ sent = 0
    /\ sendPc = [s \in Senders |-> "idle"]
    /\ senderAlive = TRUE
    /\ recvPc = [r \in Receivers |-> "running"]
    /\ popped = [p \in Priorities |-> <<>>]

receiver_count == Cardinality({r \in Receivers : recvPc[r] # "gone"})
sender_count == IF senderAlive THEN 1 ELSE 0
Waiting == {r \in Receivers : recvPc[r] = "waiting"}
Sending == {s \in Senders : sendPc[s] # "idle"}
Woken == {r \in Receivers : recvPc[r] = "woken"}
Queued == Len(queues["High"]) + Len(queues["Medium"]) + Len(queues["Low"])

-----------------------------------------------------------------------------
(* Senders.                                                                 *)

\* send and spin_send: receiver_count is read first, without the mutex.
BeginSend(s, p) ==
    /\ senderAlive /\ sendPc[s] = "idle"
    /\ sent + Cardinality(Sending) < MaxItems
    /\ receiver_count # 0
    /\ sendPc' = [sendPc EXCEPT ![s] = p]
    /\ UNCHANGED <<queues, sent, senderAlive, recvPc, popped>>

\* condvar.notify_one wakes one of the waiting receivers, if any.
NotifyOne ==
    \/ Waiting = {} /\ UNCHANGED recvPc
    \/ \E r \in Waiting : recvPc' = [recvPc EXCEPT ![r] = "woken"]

\* Mutant: the newest item is put in front.
PushFront(q, item) == <<item>> \o q

\* push_back.
PushBack(q, item) == Append(q, item)

\* Mutant: no wake-up after the push.
PushSilently(s) ==
    /\ sendPc[s] # "idle"
    /\ LET p == sendPc[s]
       IN  queues' = [queues EXCEPT ![p] = PushBack(@, sent + 1)]
    /\ sent' = sent + 1
    /\ sendPc' = [sendPc EXCEPT ![s] = "idle"]
    /\ UNCHANGED <<senderAlive, popped, recvPc>>

\* The mutex is taken, the item pushed, a receiver notified.
Push(s) ==
    /\ sendPc[s] # "idle"
    /\ LET p == sendPc[s]
       IN  queues' = [queues EXCEPT ![p] = PushBack(@, sent + 1)]
    /\ sent' = sent + 1
    /\ NotifyOne
    /\ sendPc' = [sendPc EXCEPT ![s] = "idle"]
    /\ UNCHANGED <<senderAlive, popped>>

\* PriorityQueueSender::drop: only the counter changes, nobody is notified.
DropSender ==
    /\ senderAlive /\ \A s \in Senders : sendPc[s] = "idle"
    /\ senderAlive' = FALSE
    /\ UNCHANGED <<queues, sent, sendPc, recvPc, popped>>

-----------------------------------------------------------------------------
(* Receivers.                                                               *)

Take(r, p) ==
    /\ p \in Pickable(queues)
    /\ popped' = [popped EXCEPT ![p] = Append(@, Head(queues[p]))]
    /\ queues' = [queues EXCEPT ![p] = Tail(@)]
    /\ recvPc' = [recvPc EXCEPT ![r] = "running"]
    /\ UNCHANGED <<sent, sendPc, senderAlive>>

BeginPop(r) ==
    /\ recvPc[r] = "running"
    /\ recvPc' = [recvPc EXCEPT ![r] = "popping"]
    /\ UNCHANGED <<queues, sent, sendPc, senderAlive, popped>>

\* recv with the mutex: an item, an error, or the wait that gives it back.
Pop(r, p) == recvPc[r] = "popping" /\ Take(r, p)

PopClosed(r) ==
    /\ recvPc[r] = "popping" /\ IsEmpty(queues) /\ sender_count = 0
    /\ recvPc' = [recvPc EXCEPT ![r] = "closed"]
    /\ UNCHANGED <<queues, sent, sendPc, senderAlive, popped>>

Wait(r) ==
    /\ recvPc[r] = "popping" /\ IsEmpty(queues) /\ sender_count # 0
    /\ recvPc' = [recvPc EXCEPT ![r] = "waiting"]
    /\ UNCHANGED <<queues, sent, sendPc, senderAlive, popped>>

\* After the wait the loop looks at the queues only, not at sender_count.
PopWoken(r, p) == recvPc[r] = "woken" /\ Take(r, p)

WaitAgain(r) ==
    /\ recvPc[r] = "woken" /\ IsEmpty(queues)
    /\ recvPc' = [recvPc EXCEPT ![r] = "waiting"]
    /\ UNCHANGED <<queues, sent, sendPc, senderAlive, popped>>

\* try_pop and spin_try_pop: an item, None (no step), or RecvError.
TryPop(r, p) == recvPc[r] = "running" /\ Take(r, p)

TryPopClosed(r) ==
    /\ recvPc[r] = "running" /\ IsEmpty(queues) /\ sender_count = 0
    /\ recvPc' = [recvPc EXCEPT ![r] = "closed"]
    /\ UNCHANGED <<queues, sent, sendPc, senderAlive, popped>>

\* PriorityQueueReceiver::drop; a worker drops its receiver when Iter ended.
DropReceiver(r) ==
    /\ recvPc[r] \in {"running", "closed"}
    /\ recvPc' = [recvPc EXCEPT ![r] = "gone"]
    /\ UNCHANGED <<queues, sent, sendPc, senderAlive, popped>>

\* Receiver::clone by a receiver that exists.
CloneReceiver(r, n) ==
    /\ recvPc[r] = "running" /\ recvPc[n] = "gone"
    /\ recvPc' = [recvPc EXCEPT ![n] = "running"]
    /\ UNCHANGED <<queues, sent, sendPc, senderAlive, popped>>

-----------------------------------------------------------------------------
SenderStep ==
    \/ \E s \in Senders : \/ \E p \in Priorities : BeginSend(s, p)
                          \/ Push(s)
    \/ DropSender

\* What the worker loop "for runnable in receiver.iter()" does.
WorkerStep(r) ==
    \/ BeginPop(r)
    \/ \E p \in Priorities : Pop(r, p) \/ PopWoken(r, p)
    \/ PopClosed(r)
    \/ Wait(r)
    \/ WaitAgain(r)

\* What other users of a receiver do.
ClientStep(r) ==
    \/ \E p \in Priorities : TryPop(r, p)
    \/ TryPopClosed(r)
    \/ DropReceiver(r)
    \/ \E n \in Receivers : CloneReceiver(r, n)

Next == SenderStep \/ \E r \in Receivers : WorkerStep(r) \/ ClientStep(r)
Spec == Init /\ [][Next]_vars

\* A thread that can run runs, a started send is finished, and the generator
\* lets every coin come up again and again.
Fairness ==
    /\ \A s \in Senders : WF_vars(Push(s))
    /\ \A r \in Receivers : WF_vars(WorkerStep(r))
    /\ \A p \in Priorities :
          SF_vars(\E r \in Receivers : Pop(r, p) \/ PopWoken(r, p))

FairSpec == Spec /\ Fairness

-----------------------------------------------------------------------------
(* Properties.                                                              *)

\* Items of one priority leave in the order in which they were pushed, each
\* once, whichever workers take them.
FifoPerPriority ==
    /\ \A p \in Priorities :
          LET all == popped[p] \o queues[p]
          IN  \A i, j \in 1..Len(all) : i < j => all[i] < all[j]
    /\ \A n \in 1..sent : \E p \in Priorities :
          \E i \in 1..Len(popped[p] \o queues[p]) : (popped[p] \o queues[p])[i] = n

\* No lost wake-up: while a receiver is parked, there are at least as many
\* notified receivers on their way to the mutex as there are items, so an item
\* never waits for a receiver that nobody wakes.
NoLostWakeup == Waiting # {} => Queued <= Cardinality(Woken)

\* The coin of the last queue that is not empty is certain, so pop never
\* unwraps None, and random_ratio never gets a weight above the mass.
PopFindsItem == ~IsEmpty(queues) => ~MayFindNothing(queues) /\ RatioInRange(queues)

\* Every item that was pushed is received, low priority or not and even if the
\* sender is dropped, unless receivers are dropped.
EveryItemReceived ==
    \A n \in Items : (sent >= n) ~>
        \/ \E p \in Priorities : n \in {popped[p][i] : i \in 1..Len(popped[p])}
        \/ \E r \in Receivers : recvPc[r] = "gone"

=============================================================================
