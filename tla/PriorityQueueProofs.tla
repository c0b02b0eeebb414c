------------------------- MODULE PriorityQueueProofs ------------------------
(***************************************************************************)
(* Proofs about PriorityQueue, and about the queue of the main thread that *)
(* wraps it (CalloopQueue, here the instance Calloop over variables of its *)
(* own), for any finite sets of senders and receivers and any number of    *)
(* items.                                                                  *)
(***************************************************************************)
EXTENDS PriorityQueue, Integers, FiniteSetTheorems, SequenceTheorems, TLAPS

CONSTANT Loop
VARIABLES loopQueues, loopSent, ping, loopSendPc, sender, loopPc, isEmpty,
          delivered, closed

Calloop == INSTANCE CalloopQueue WITH
               queues <- loopQueues, sent <- loopSent, sendPc <- loopSendPc

\* The bound on items covers the sends in progress.
SendBound == sent + Cardinality(Sending) <= MaxItems

IInv == TypeOK /\ SendBound /\ NoLostWakeup

\* Sets of threads are finite.
LEMMA ThreadSetsFinite ==
    /\ IsFiniteSet(Sending) /\ Cardinality(Sending) \in Nat
    /\ IsFiniteSet(Woken) /\ Cardinality(Woken) \in Nat
BY ThreadsAssumption, FS_Subset, FS_CardinalityType DEF Sending, Woken

\* The length of the queues, and when it is zero.
LEMMA QueuedLength ==
    ASSUME TypeOK
    PROVE  Queued \in Nat /\ (IsEmpty(queues) => Queued = 0)
BY DEF TypeOK, Queued, IsEmpty, Priorities

\* The last coin that pop_inner throws is certain: a queue that is not empty
\* always yields an item, and no weight exceeds the mass it is compared with.
THEOREM PickTotal ==
    ASSUME NEW q, ~IsEmpty(q)
    PROVE  /\ ~MayFindNothing(q)
           /\ RatioInRange(q)
           /\ Pickable(q) # {}
<1>1. /\ Weight["High"] = 60 /\ Weight["Medium"] = 30 /\ Weight["Low"] = 10
    BY DEF Weight, Priorities
<1>2. \E p \in Priorities : q[p] # <<>>
    BY DEF IsEmpty
<1>3. ~MayFindNothing(q)
  <2>1. CASE q["Low"] # <<>>
      BY <1>1, <2>1 DEF MayFindNothing, MayPass, MassAt, Mass, Share, Priorities
  <2>2. CASE q["Low"] = <<>> /\ q["Medium"] # <<>>
      BY <1>1, <2>2 DEF MayFindNothing, MayPass, MassAt, Mass, Share, Priorities
  <2>3. CASE q["Low"] = <<>> /\ q["Medium"] = <<>> /\ q["High"] # <<>>
      BY <1>1, <2>3 DEF MayFindNothing, MayPass, MassAt, Mass, Share, Priorities
  <2>4. QED
      BY <1>2, <2>1, <2>2, <2>3 DEF Priorities
<1>4. RatioInRange(q)
    BY <1>1 DEF RatioInRange, MassAt, Mass, Share, Priorities
<1>5. Pickable(q) # {}
  <2>1. CASE q["High"] # <<>>
    <3>1. "High" \in Pickable(q)
        BY <2>1 DEF Pickable, Before, Priorities
    <3>2. QED
        BY <3>1
  <2>2. CASE q["High"] = <<>> /\ q["Medium"] # <<>>
    <3>1. "Medium" \in Pickable(q)
        BY <2>2 DEF Pickable, Before, Priorities, MayPass
    <3>2. QED
        BY <3>1
  <2>3. CASE q["High"] = <<>> /\ q["Medium"] = <<>> /\ q["Low"] # <<>>
    <3>1. "Low" \in Pickable(q)
        BY <2>3 DEF Pickable, Before, Priorities, MayPass
    <3>2. QED
        BY <3>1
  <2>4. QED
      BY <1>2, <2>1, <2>2, <2>3 DEF Priorities
<1>6. QED
    BY <1>3, <1>4, <1>5

\* The initial state satisfies the invariant.
LEMMA InitInv == Init => IInv
<1> SUFFICES ASSUME Init PROVE IInv
    OBVIOUS
<1>1. Sending = {} /\ Waiting = {}
    BY DEF Init, Sending, Waiting
<1>2. QED
    BY <1>1, FS_EmptySet, MaxItemsAssumption
       DEF Init, IInv, TypeOK, SendBound, NoLostWakeup, RecvPcs

\* When one queue changes, all of them together change by as much.
LEMMA OneQueueChanges ==
    ASSUME TypeOK, NEW p \in Priorities, NEW q \in Seq(Items),
           queues' = [queues EXCEPT ![p] = q]
    PROVE  Queued' = Queued + (Len(q) - Len(queues[p]))
<1>1. PICK h \in Seq(Items) : queues["High"] = h
    BY DEF TypeOK, Priorities
<1>2. PICK m \in Seq(Items) : queues["Medium"] = m
    BY DEF TypeOK, Priorities
<1>3. PICK l \in Seq(Items) : queues["Low"] = l
    BY DEF TypeOK, Priorities
<1>4. Queued = Len(h) + Len(m) + Len(l)
    BY <1>1, <1>2, <1>3 DEF Queued
<1>5. queues'[p] = q /\ \A x \in Priorities : x # p => queues'[x] = queues[x]
    BY DEF TypeOK
<1>6. CASE p = "High"
  <2>1. queues'["High"] = q /\ queues'["Medium"] = m /\ queues'["Low"] = l
      BY <1>1, <1>2, <1>3, <1>5, <1>6 DEF Priorities
  <2>2. Queued' = Len(q) + Len(m) + Len(l) /\ queues[p] = h
      BY <1>1, <1>6, <2>1 DEF Queued
  <2>3. Len(q) + Len(m) + Len(l) = Len(h) + Len(m) + Len(l) + (Len(q) - Len(h))
      OBVIOUS
  <2>4. QED
      BY <1>4, <2>2, <2>3
<1>7. CASE p = "Medium"
  <2>1. queues'["High"] = h /\ queues'["Medium"] = q /\ queues'["Low"] = l
      BY <1>1, <1>2, <1>3, <1>5, <1>7 DEF Priorities
  <2>2. Queued' = Len(h) + Len(q) + Len(l) /\ queues[p] = m
      BY <1>2, <1>7, <2>1 DEF Queued
  <2>3. Len(h) + Len(q) + Len(l) = Len(h) + Len(m) + Len(l) + (Len(q) - Len(m))
      OBVIOUS
  <2>4. QED
      BY <1>4, <2>2, <2>3
<1>8. CASE p = "Low"
  <2>1. queues'["High"] = h /\ queues'["Medium"] = m /\ queues'["Low"] = q
      BY <1>1, <1>2, <1>3, <1>5, <1>8 DEF Priorities
  <2>2. Queued' = Len(h) + Len(m) + Len(q) /\ queues[p] = l
      BY <1>3, <1>8, <2>1 DEF Queued
  <2>3. Len(h) + Len(m) + Len(q) = Len(h) + Len(m) + Len(l) + (Len(q) - Len(l))
      OBVIOUS
  <2>4. QED
      BY <1>4, <2>2, <2>3
<1>9. QED
    BY <1>6, <1>7, <1>8 DEF Priorities

\* Taking an item shortens the queues by one.
LEMMA TakeShape ==
    ASSUME TypeOK, NEW r \in Receivers, NEW p \in Priorities, Take(r, p)
    PROVE  TypeOK' /\ Queued' = Queued - 1
<1>1. queues[p] \in Seq(Items) /\ queues[p] # <<>>
    BY DEF TypeOK, Take, Pickable
<1>2. /\ Tail(queues[p]) \in Seq(Items) /\ Head(queues[p]) \in Items
      /\ Len(Tail(queues[p])) = Len(queues[p]) - 1 /\ Len(queues[p]) \in Nat
    BY <1>1
<1>3. TypeOK'
    BY <1>2 DEF TypeOK, Take, RecvPcs
<1>4. queues' = [queues EXCEPT ![p] = Tail(queues[p])]
    BY DEF Take
<1>5. Queued' = Queued + (Len(Tail(queues[p])) - Len(queues[p]))
    BY <1>2, <1>4, OneQueueChanges
<1>6. QED
    BY <1>2, <1>3, <1>5, QueuedLength

\* Steps of the senders.
LEMMA SenderInv == IInv /\ SenderStep => IInv'
<1> SUFFICES ASSUME IInv, SenderStep PROVE IInv'
    OBVIOUS
<1> USE DEF IInv
<1>1. ASSUME NEW s \in Senders, NEW p \in Priorities, BeginSend(s, p) PROVE IInv'
  <2>1. TypeOK'
      BY <1>1 DEF BeginSend, TypeOK
  <2>2. Sending' = Sending \union {s} /\ s \notin Sending
      BY <1>1 DEF BeginSend, TypeOK, Sending, Priorities
  <2>3. Cardinality(Sending') = Cardinality(Sending) + 1
      BY <2>2, ThreadSetsFinite, FS_AddElement
  <2>4. SendBound'
      BY <1>1, <2>3, ThreadSetsFinite, MaxItemsAssumption DEF BeginSend, SendBound, TypeOK
  <2>5. NoLostWakeup'
      BY <1>1 DEF BeginSend, NoLostWakeup, Waiting, Woken, Queued
  <2>6. QED
      BY <2>1, <2>4, <2>5
<1>2. ASSUME NEW s \in Senders, Push(s) PROVE IInv'
  <2>1. s \in Sending /\ sendPc[s] \in Priorities
      BY <1>2 DEF Push, Sending, TypeOK
  <2>2. Sending' = Sending \ {s}
      BY <1>2 DEF Push, Sending, TypeOK
  <2>3. Cardinality(Sending') = Cardinality(Sending) - 1
      BY <2>1, <2>2, ThreadSetsFinite, FS_RemoveElement
  <2>4. Cardinality(Sending) > 0
      BY <2>1, ThreadSetsFinite, FS_EmptySet
  <2>5. sent + 1 \in Items /\ sent' = sent + 1
      BY <1>2, <2>4, ThreadSetsFinite, MaxItemsAssumption DEF Push, SendBound, TypeOK, Items
  <2>6. SendBound'
      BY <2>3, <2>5, ThreadSetsFinite, MaxItemsAssumption DEF SendBound, TypeOK
  <2>7. recvPc' \in [Receivers -> RecvPcs]
      BY <1>2 DEF Push, NotifyOne, Waiting, TypeOK, RecvPcs
  <2>8. /\ queues' = [queues EXCEPT ![sendPc[s]] = Append(@, sent + 1)]
        /\ queues[sendPc[s]] \in Seq(Items)
      BY <1>2, <2>1 DEF Push, PushBack, TypeOK
  <2>9. /\ Append(queues[sendPc[s]], sent + 1) \in Seq(Items)
        /\ Len(Append(queues[sendPc[s]], sent + 1)) = Len(queues[sendPc[s]]) + 1
      BY <2>5, <2>8
  <2>10. TypeOK'
    <3>1. queues' \in [Priorities -> Seq(Items)]
        BY <2>1, <2>8, <2>9 DEF TypeOK
    <3>2. sent' \in 0..MaxItems
        BY <2>5, MaxItemsAssumption DEF Items
    <3>3. /\ sendPc' = [sendPc EXCEPT ![s] = "idle"]
          /\ UNCHANGED <<senderAlive, popped>>
        BY <1>2 DEF Push
    <3>4. QED
        BY <2>7, <3>1, <3>2, <3>3 DEF TypeOK
  <2>11. Queued' = Queued + 1
    <3>1. Queued' = Queued + (Len(Append(queues[sendPc[s]], sent + 1)) - Len(queues[sendPc[s]]))
      <4>1. TypeOK /\ queues' = [queues EXCEPT ![sendPc[s]] = Append(queues[sendPc[s]], sent + 1)]
          BY <2>8
      <4>2. QED
          BY <2>1, <2>9, <4>1, OneQueueChanges
    <3>2. Len(queues[sendPc[s]]) \in Nat
        BY <2>8
    <3>3. QED
        BY <2>9, <3>1, <3>2, QueuedLength
  <2>12. NoLostWakeup'
    <3>1. CASE Waiting = {} /\ UNCHANGED recvPc
        BY <3>1 DEF NoLostWakeup, Waiting
    <3>2. ASSUME NEW r \in Waiting, recvPc' = [recvPc EXCEPT ![r] = "woken"]
          PROVE  NoLostWakeup'
      <4>1. Woken' = Woken \union {r} /\ r \notin Woken
          BY <3>2 DEF Woken, Waiting, TypeOK
      <4>2. Cardinality(Woken') = Cardinality(Woken) + 1
          BY <4>1, ThreadSetsFinite, FS_AddElement
      <4>3. Queued <= Cardinality(Woken)
          BY <3>2 DEF NoLostWakeup
      <4>4. QED
          BY <2>11, <4>2, <4>3, ThreadSetsFinite, QueuedLength DEF NoLostWakeup
    <3>3. QED
        BY <1>2, <3>1, <3>2 DEF Push, NotifyOne
  <2>13. QED
      BY <2>6, <2>10, <2>12
<1>3. ASSUME DropSender PROVE IInv'
    BY <1>3 DEF DropSender, TypeOK, SendBound, NoLostWakeup, Sending, Waiting, Woken, Queued
<1>4. QED
    BY <1>1, <1>2, <1>3 DEF SenderStep

\* A receiver that was not notified takes an item.
LEMMA TakeInv ==
    ASSUME IInv, NEW r \in Receivers, NEW p \in Priorities, Take(r, p),
           recvPc[r] \in {"popping", "running", "woken"}
    PROVE  IInv'
<1>1. TypeOK' /\ Queued' = Queued - 1
    BY TakeShape DEF IInv
<1>2. SendBound'
    BY DEF IInv, SendBound, Take, Sending
<1>3. Waiting' = Waiting
    BY DEF IInv, Take, Waiting, TypeOK
<1>4. NoLostWakeup'
  <2>1. CASE recvPc[r] = "woken"
    <3>1. Woken' = Woken \ {r} /\ r \in Woken
        BY <2>1 DEF IInv, Take, Woken, TypeOK
    <3>2. Cardinality(Woken') = Cardinality(Woken) - 1
        BY <3>1, ThreadSetsFinite, FS_RemoveElement
    <3>3. QED
        BY <1>1, <1>3, <3>2, ThreadSetsFinite, QueuedLength DEF IInv, NoLostWakeup
  <2>2. CASE recvPc[r] # "woken"
    <3>1. Woken' = Woken
        BY <2>2 DEF IInv, Take, Woken, TypeOK
    <3>2. QED
        BY <1>1, <1>3, <3>1, ThreadSetsFinite, QueuedLength DEF IInv, NoLostWakeup
  <2>3. QED
      BY <2>1, <2>2
<1>5. QED
    BY <1>1, <1>2, <1>4 DEF IInv

\* A receiver changes its pc and takes nothing: it may park only when the
\* queues are empty.
LEMMA ParkInv ==
    ASSUME IInv, NEW r \in Receivers, NEW x \in RecvPcs,
           recvPc' = [recvPc EXCEPT ![r] = x],
           UNCHANGED <<queues, sent, sendPc, senderAlive, popped>>,
           IsEmpty(queues) \/ (recvPc[r] \notin {"woken", "waiting"} /\ x \notin {"woken", "waiting"})
    PROVE  IInv'
<1>1. TypeOK'
    BY DEF IInv, TypeOK
<1>2. SendBound'
    BY DEF IInv, SendBound, Sending
<1>3. Queued' = Queued
    BY DEF Queued
<1>4. NoLostWakeup'
  <2>1. CASE IsEmpty(queues)
    <3>1. IsFiniteSet(Woken') /\ Cardinality(Woken') \in Nat
        BY ThreadsAssumption, FS_Subset, FS_CardinalityType DEF Woken
    <3>2. QED
        BY <1>3, <2>1, <3>1, QueuedLength DEF IInv, NoLostWakeup
  <2>2. CASE recvPc[r] \notin {"woken", "waiting"} /\ x \notin {"woken", "waiting"}
    <3>1. Woken' = Woken /\ Waiting' = Waiting
        BY <2>2 DEF IInv, TypeOK, Woken, Waiting
    <3>2. QED
        BY <1>3, <3>1 DEF IInv, NoLostWakeup
  <2>3. QED
      BY <2>1, <2>2
<1>5. QED
    BY <1>1, <1>2, <1>4 DEF IInv

\* Steps of a receiver.
LEMMA ReceiverInv ==
    ASSUME NEW r \in Receivers
    PROVE  IInv /\ (WorkerStep(r) \/ ClientStep(r)) => IInv'
<1> SUFFICES ASSUME IInv, WorkerStep(r) \/ ClientStep(r) PROVE IInv'
    OBVIOUS
<1>1. ASSUME NEW p \in Priorities, Pop(r, p) \/ PopWoken(r, p) \/ TryPop(r, p) PROVE IInv'
    BY <1>1, TakeInv DEF Pop, PopWoken, TryPop
<1>2. ASSUME BeginPop(r) PROVE IInv'
    BY <1>2, ParkInv DEF BeginPop, RecvPcs
<1>3. ASSUME PopClosed(r) \/ TryPopClosed(r) PROVE IInv'
    BY <1>3, ParkInv DEF PopClosed, TryPopClosed, RecvPcs
<1>4. ASSUME Wait(r) \/ WaitAgain(r) PROVE IInv'
    BY <1>4, ParkInv DEF Wait, WaitAgain, RecvPcs
<1>5. ASSUME DropReceiver(r) PROVE IInv'
    BY <1>5, ParkInv DEF DropReceiver, RecvPcs
<1>6. ASSUME NEW n \in Receivers, CloneReceiver(r, n) PROVE IInv'
    BY <1>6, ParkInv DEF CloneReceiver, RecvPcs
<1>7. QED
    BY <1>1, <1>2, <1>3, <1>4, <1>5, <1>6 DEF WorkerStep, ClientStep

\* The invariant holds in every behaviour.
THEOREM InvariantHolds == Spec => []IInv
<1>1. IInv /\ UNCHANGED vars => IInv'
    BY DEF vars, IInv, TypeOK, SendBound, NoLostWakeup, Sending, Waiting, Woken, Queued
<1>2. IInv /\ [Next]_vars => IInv'
    BY <1>1, SenderInv, ReceiverInv DEF Next
<1>3. QED
    BY InitInv, <1>2, PTL DEF Spec

\* An item never waits in the queue for a receiver that nobody woke, and pop
\* always finds the item it was woken for.
THEOREM PriorityQueueSafety == Spec => [](TypeOK /\ NoLostWakeup /\ PopFindsItem)
<1>1. PopFindsItem
    BY PickTotal DEF PopFindsItem
<1>2. QED
    BY InvariantHolds, <1>1, PTL DEF IInv

-----------------------------------------------------------------------------
(* Order.                                                                   *)

\* All items of priority p, received or queued, in the order of their pushes.
History(p) == popped[p] \o queues[p]

\* The numbers of a history rise, and none is in the future.
Rising == \A p \in Priorities :
    /\ \A i, j \in 1..Len(History(p)) : i < j => History(p)[i] < History(p)[j]
    /\ \A i \in 1..Len(History(p)) : History(p)[i] <= sent

\* Every item that was pushed is in a history.
Complete == \A n \in 1..sent : \E p \in Priorities :
    \E i \in 1..Len(History(p)) : History(p)[i] = n

\* Moving the head of b to the end of a leaves a \o b as it is.
LEMMA MoveHead ==
    ASSUME NEW S, NEW a \in Seq(S), NEW b \in Seq(S), b # <<>>
    PROVE  Append(a, Head(b)) \o Tail(b) = a \o b
<1>1. Head(b) \in S /\ Tail(b) \in Seq(S) /\ b = <<Head(b)>> \o Tail(b)
    BY HeadTailProperties
<1>2. Append(a, Head(b)) = a \o <<Head(b)>> /\ <<Head(b)>> \in Seq(S)
    BY <1>1, AppendIsConcat
<1>3. (a \o <<Head(b)>>) \o Tail(b) = a \o (<<Head(b)>> \o Tail(b))
    BY <1>1, <1>2, ConcatAssociative
<1>4. QED
    BY <1>1, <1>2, <1>3

\* Appending to b appends to a \o b.
LEMMA AppendRight ==
    ASSUME NEW S, NEW a \in Seq(S), NEW b \in Seq(S), NEW x \in S
    PROVE  a \o Append(b, x) = Append(a \o b, x)
<1>1. Append(b, x) = b \o <<x>> /\ <<x>> \in Seq(S) /\ a \o b \in Seq(S)
    BY AppendIsConcat, ConcatProperties
<1>2. (a \o b) \o <<x>> = a \o (b \o <<x>>)
    BY <1>1, ConcatAssociative
<1>3. Append(a \o b, x) = (a \o b) \o <<x>>
    BY <1>1, AppendIsConcat
<1>4. QED
    BY <1>1, <1>2, <1>3

\* A receiver that takes an item leaves the histories as they are.
LEMMA TakeHistory ==
    ASSUME TypeOK, NEW r \in Receivers, NEW p \in Priorities, Take(r, p)
    PROVE  \A x \in Priorities : History(x)' = History(x)
<1>1. queues[p] \in Seq(Items) /\ queues[p] # <<>> /\ popped[p] \in Seq(Items)
    BY DEF TypeOK, Take, Pickable
<1>2. queues'[p] = Tail(queues[p]) /\ popped'[p] = Append(popped[p], Head(queues[p]))
    BY DEF TypeOK, Take
<1>3. \A x \in Priorities : x # p => queues'[x] = queues[x] /\ popped'[x] = popped[x]
    BY DEF TypeOK, Take
<1>4. History(p)' = History(p)
    BY <1>1, <1>2, MoveHead DEF History
<1>5. QED
    BY <1>3, <1>4 DEF History

\* A push appends its item to one history.
LEMMA PushHistory ==
    ASSUME TypeOK, NEW s \in Senders, Push(s), sent + 1 \in Items
    PROVE  \E p \in Priorities :
              /\ History(p) \in Seq(Items)
              /\ History(p)' = Append(History(p), sent + 1)
              /\ \A x \in Priorities : x # p => History(x)' = History(x)
<1>1. PICK p \in Priorities : p = sendPc[s]
    BY DEF TypeOK, Push
<1>2. queues[p] \in Seq(Items) /\ popped[p] \in Seq(Items) /\ popped' = popped
    BY <1>1 DEF TypeOK, Push
<1>3. queues'[p] = Append(queues[p], sent + 1)
    BY <1>1 DEF TypeOK, Push, PushBack
<1>4. \A x \in Priorities : x # p => queues'[x] = queues[x]
    BY <1>1 DEF TypeOK, Push, PushBack
<1>5. History(p)' = Append(History(p), sent + 1)
  <2>1. \A x \in Items : popped[p] \o Append(queues[p], x) = Append(popped[p] \o queues[p], x)
    <3>1. \A a, b \in Seq(Items), x \in Items : a \o Append(b, x) = Append(a \o b, x)
        BY AppendRight
    <3>2. QED
        BY <1>2, <3>1, Zenon
  <2>2. QED
      BY <1>2, <1>3, <2>1 DEF History
<1>6. History(p) \in Seq(Items)
    BY <1>2, ConcatProperties DEF History
<1>7. \A x \in Priorities : x # p => History(x)' = History(x)
    BY <1>2, <1>4 DEF History
<1>8. QED
    BY <1>1, <1>5, <1>6, <1>7

\* When the histories stay, so does what is known about them.
LEMMA HistorySame ==
    ASSUME Rising, Complete, sent' = sent,
           \A x \in Priorities : History(x)' = History(x)
    PROVE  Rising' /\ Complete'
BY DEF Rising, Complete

\* Items of one priority are received in the order of their pushes, each once
\* and none is lost, whichever receivers take them and whatever the coins say.
THEOREM QueueIsFifo == Spec => []FifoPerPriority
<1>1. Init => Rising /\ Complete
  <2> SUFFICES ASSUME Init PROVE Rising /\ Complete
      OBVIOUS
  <2>1. <<>> \o <<>> = <<>>
      BY EmptySeq, ConcatEmptySeq
  <2>2. \A p \in Priorities : 1..Len(History(p)) = {}
    <3>1. \A p \in Priorities : History(p) = <<>>
        BY <2>1 DEF Init, History
    <3>2. 1..Len(<<>>) = {}
        BY EmptySeq
    <3>3. QED
        BY <3>1, <3>2
  <2>3. 1..sent = {}
      BY DEF Init
  <2>4. QED
      BY <2>2, <2>3 DEF Rising, Complete
<1>2. ASSUME IInv, Rising, Complete, [Next]_vars
      PROVE  Rising' /\ Complete'
  <2>1. CASE \E s \in Senders : Push(s)
    <3>1. PICK s \in Senders : Push(s)
        BY <2>1
    <3>2. sent' = sent + 1 /\ sent + 1 \in Items /\ sent \in Nat
      <4>1. s \in Sending /\ sent' = sent + 1
          BY <3>1 DEF Push, Sending
      <4>2. Cardinality(Sending) > 0
          BY <4>1, ThreadSetsFinite, FS_EmptySet
      <4>3. QED
          BY <1>2, <4>1, <4>2, ThreadSetsFinite, MaxItemsAssumption
             DEF IInv, SendBound, TypeOK, Items
    <3>3. PICK p \in Priorities :
              /\ History(p) \in Seq(Items)
              /\ History(p)' = Append(History(p), sent + 1)
              /\ \A x \in Priorities : x # p => History(x)' = History(x)
        BY <1>2, <3>1, <3>2, PushHistory DEF IInv
    <3>4. PICK h \in Seq(Items) : h = History(p)
        BY <3>3
    <3>5. /\ History(p)' = Append(h, sent + 1)
          /\ Len(Append(h, sent + 1)) = Len(h) + 1 /\ Len(h) \in Nat
          /\ \A i \in 1..Len(h) : Append(h, sent + 1)[i] = h[i]
          /\ Append(h, sent + 1)[Len(h) + 1] = sent + 1
          /\ \A i \in 1..Len(h) : h[i] \in Nat /\ h[i] <= sent
      <4>1. History(p)' = Append(h, sent + 1)
          BY <3>3, <3>4
      <4>2. \A i \in 1..Len(h) : h[i] \in Nat /\ h[i] <= sent
        <5>1. \A i \in 1..Len(h) : h[i] \in Items
            BY ElementOfSeq
        <5>2. QED
            BY <1>2, <3>4, <5>1 DEF Rising, Items
      <4>3. QED
          BY <3>2, <4>1, <4>2, AppendProperties, LenProperties
    <3>6. Rising'
      <4> SUFFICES ASSUME NEW x \in Priorities
                   PROVE  /\ \A i, j \in 1..Len(History(x)') :
                                 i < j => History(x)'[i] < History(x)'[j]
                          /\ \A i \in 1..Len(History(x)') : History(x)'[i] <= sent'
          BY DEF Rising
      <4>1. CASE x # p
        <5>1. History(x)' = History(x)
            BY <3>3, <4>1
        <5>2. \A i \in 1..Len(History(x)) : History(x)[i] <= sent + 1
          <6>1. queues[x] \in Seq(Items) /\ popped[x] \in Seq(Items)
              BY <1>2 DEF IInv, TypeOK
          <6>2. History(x) \in Seq(Items)
              BY <6>1, ConcatProperties DEF History
          <6>3. \A i \in 1..Len(History(x)) : History(x)[i] \in Items
              BY <6>2, ElementOfSeq
          <6>4. QED
              BY <1>2, <3>2, <6>3 DEF Rising, Items
        <5>3. QED
            BY <1>2, <3>2, <5>1, <5>2 DEF Rising
      <4>2. CASE x = p
        <5>1. \A i, j \in 1..Len(h) : i < j => h[i] < h[j]
            BY <1>2, <3>4 DEF Rising
        <5>2. \A i \in 1..Len(h) + 1 : i \in 1..Len(h) \/ i = Len(h) + 1
            BY <3>5
        <5>3. Len(History(x)') = Len(h) + 1
            BY <3>5, <4>2
        <5>4. \A i \in 1..Len(h) : History(x)'[i] = h[i] /\ h[i] < sent + 1
            BY <3>2, <3>5, <4>2
        <5>5. History(x)'[Len(h) + 1] = sent + 1
            BY <3>5, <4>2
        <5>6. \A i \in 1..Len(h) + 1 : History(x)'[i] <= sent + 1
            BY <3>2, <3>5, <5>2, <5>4, <5>5
        <5>7. \A i, j \in 1..Len(h) + 1 : i < j => i \in 1..Len(h)
            BY <3>5
        <5>8. \A i, j \in 1..Len(h) + 1 : i < j => History(x)'[i] < History(x)'[j]
            BY <5>1, <5>2, <5>4, <5>5, <5>7
        <5>9. QED
            BY <3>2, <5>3, <5>6, <5>8
      <4>3. QED
          BY <4>1, <4>2
    <3>7. Complete'
      <4> SUFFICES ASSUME NEW n \in 1..sent'
                   PROVE  \E x \in Priorities : \E i \in 1..Len(History(x)') : History(x)'[i] = n
          BY DEF Complete
      <4>1. CASE n = sent + 1
        <5>1. Len(h) + 1 \in 1..Len(History(p)') /\ History(p)'[Len(h) + 1] = n
            BY <3>5, <4>1
        <5>2. QED
            BY <5>1
      <4>2. CASE n \in 1..sent
        <5>0. PICK x \in Priorities : \E i \in 1..Len(History(x)) : History(x)[i] = n
            BY <1>2, <4>2 DEF Complete
        <5>1. PICK i \in 1..Len(History(x)) : History(x)[i] = n
            BY <5>0
        <5>2. CASE x # p
            BY <3>3, <5>1, <5>2
        <5>3. CASE x = p
          <6>1. i \in 1..Len(h) /\ h[i] = n
              BY <3>4, <5>1, <5>3
          <6>2. i \in 1..Len(History(p)') /\ History(p)'[i] = n
              BY <3>5, <6>1
          <6>3. QED
              BY <6>2
        <5>4. QED
            BY <5>2, <5>3
      <4>3. QED
          BY <3>2, <4>1, <4>2
    <3>8. QED
        BY <3>6, <3>7
  <2>2. CASE \E r \in Receivers, p \in Priorities : Take(r, p)
    <3>1. sent' = sent
        BY <2>2 DEF Take
    <3>2. QED
        BY <1>2, <2>2, <3>1, TakeHistory, HistorySame DEF IInv
  <2>3. CASE UNCHANGED <<queues, popped, sent>>
    <3>1. sent' = sent /\ \A x \in Priorities : History(x)' = History(x)
        BY <2>3 DEF History
    <3>2. QED
        BY <1>2, <3>1, HistorySame
  <2>4. QED
      BY <1>2, <2>1, <2>2, <2>3
         DEF Next, SenderStep, BeginSend, DropSender, WorkerStep, BeginPop, Pop, PopWoken,
             PopClosed, Wait, WaitAgain, ClientStep, TryPop, TryPopClosed, DropReceiver,
             CloneReceiver, vars
<1>3. Rising /\ Complete => FifoPerPriority
    BY DEF Rising, Complete, FifoPerPriority, History
<1>4. QED
    BY InvariantHolds, <1>1, <1>2, <1>3, PTL DEF Spec

-----------------------------------------------------------------------------
(* The queue of the main thread.                                            *)

LoopQueued == Len(loopQueues["High"]) + Len(loopQueues["Medium"]) + Len(loopQueues["Low"])

\* No item is lost or delivered twice between the push and the callback.
LoopAccounted == loopSent = delivered + LoopQueued

\* The source is removed only when nobody can push any more.
LoopClosedForGood == closed => sender = "dropped" /\ Calloop!IsEmpty(loopQueues)

LoopInv == Calloop!TypeOK /\ LoopAccounted /\ LoopClosedForGood

\* The length of the queues, and when it is zero.
LEMMA LoopQueuedLength ==
    ASSUME Calloop!TypeOK
    PROVE  LoopQueued \in Nat /\ (Calloop!IsEmpty(loopQueues) => LoopQueued = 0)
BY DEF Calloop!TypeOK, LoopQueued, Calloop!IsEmpty, Calloop!Priorities

\* When one queue changes, all of them together change by as much.
LEMMA LoopOneQueueChanges ==
    ASSUME Calloop!TypeOK, NEW p \in Calloop!Priorities, NEW q \in Seq({1}), NEW d \in Int,
           loopQueues' = [loopQueues EXCEPT ![p] = q], Len(q) = Len(loopQueues[p]) + d
    PROVE  LoopQueued' = LoopQueued + d
<1>1. PICK h \in Nat : Len(loopQueues["High"]) = h
    BY DEF Calloop!TypeOK, Calloop!Priorities
<1>2. PICK m \in Nat : Len(loopQueues["Medium"]) = m
    BY DEF Calloop!TypeOK, Calloop!Priorities
<1>3. PICK l \in Nat : Len(loopQueues["Low"]) = l
    BY DEF Calloop!TypeOK, Calloop!Priorities
<1>4. LoopQueued = h + m + l
    BY <1>1, <1>2, <1>3 DEF LoopQueued
<1>5. /\ Len(loopQueues'[p]) = Len(loopQueues[p]) + d
      /\ \A x \in Calloop!Priorities : x # p => Len(loopQueues'[x]) = Len(loopQueues[x])
    BY DEF Calloop!TypeOK
<1>6. CASE p = "High"
  <2>1. /\ Len(loopQueues'["High"]) = h + d /\ Len(loopQueues'["Medium"]) = m
        /\ Len(loopQueues'["Low"]) = l
      BY <1>1, <1>2, <1>3, <1>5, <1>6 DEF Calloop!Priorities
  <2>2. LoopQueued' = (h + d) + m + l
      BY <2>1 DEF LoopQueued
  <2>3. (h + d) + m + l = (h + m + l) + d
      OBVIOUS
  <2>4. QED
      BY <1>4, <2>2, <2>3
<1>7. CASE p = "Medium"
  <2>1. /\ Len(loopQueues'["High"]) = h /\ Len(loopQueues'["Medium"]) = m + d
        /\ Len(loopQueues'["Low"]) = l
      BY <1>1, <1>2, <1>3, <1>5, <1>7 DEF Calloop!Priorities
  <2>2. LoopQueued' = h + (m + d) + l
      BY <2>1 DEF LoopQueued
  <2>3. h + (m + d) + l = (h + m + l) + d
      OBVIOUS
  <2>4. QED
      BY <1>4, <2>2, <2>3
<1>8. CASE p = "Low"
  <2>1. /\ Len(loopQueues'["High"]) = h /\ Len(loopQueues'["Medium"]) = m
        /\ Len(loopQueues'["Low"]) = l + d
      BY <1>1, <1>2, <1>3, <1>5, <1>8 DEF Calloop!Priorities
  <2>2. LoopQueued' = h + m + (l + d)
      BY <2>1 DEF LoopQueued
  <2>3. h + m + (l + d) = (h + m + l) + d
      OBVIOUS
  <2>4. QED
      BY <1>4, <2>2, <2>3
<1>9. QED
    BY <1>6, <1>7, <1>8 DEF Calloop!Priorities

\* A push: one item more is sent and queued, and the sender is alive.
LEMMA LoopSendInv ==
    ASSUME LoopInv, NEW t \in Calloop!Threads, NEW p \in Calloop!Priorities, Calloop!Send(t, p)
    PROVE  LoopInv'
<1>1. loopQueues[p] \in Seq({1}) /\ Append(loopQueues[p], 1) \in Seq({1})
    BY DEF LoopInv, Calloop!TypeOK
<1>2. Len(Append(loopQueues[p], 1)) = Len(loopQueues[p]) + 1
    BY <1>1
<1>3. loopQueues' = [loopQueues EXCEPT ![p] = Append(loopQueues[p], 1)]
    BY DEF Calloop!Send
<1>4. LoopQueued' = LoopQueued + 1
  <2>1. Calloop!TypeOK /\ 1 \in Int
      BY DEF LoopInv
  <2>2. QED
      BY <1>1, <1>2, <1>3, <2>1, LoopOneQueueChanges
<1>5. Calloop!TypeOK'
    BY <1>1, <1>3, MaxItemsAssumption DEF LoopInv, Calloop!TypeOK, Calloop!Send
<1>6. LoopAccounted'
    BY <1>4, LoopQueuedLength DEF LoopInv, Calloop!TypeOK, LoopAccounted, Calloop!Send
<1>7. LoopClosedForGood'
    BY DEF LoopInv, LoopClosedForGood, Calloop!Send
<1>8. QED
    BY <1>5, <1>6, <1>7 DEF LoopInv

\* A delivery: what leaves the queues is counted as delivered.
LEMMA LoopDeliverInv ==
    ASSUME LoopInv, NEW p \in Calloop!Priorities, Calloop!Deliver(p)
    PROVE  LoopInv'
<1>1. loopQueues[p] \in Seq({1}) /\ loopQueues[p] # <<>>
    BY DEF LoopInv, Calloop!TypeOK, Calloop!Deliver, Calloop!Pickable
<1>2. Tail(loopQueues[p]) \in Seq({1}) /\ Len(Tail(loopQueues[p])) = Len(loopQueues[p]) + (-1)
    BY <1>1
<1>3. loopQueues' = [loopQueues EXCEPT ![p] = Tail(loopQueues[p])]
    BY DEF Calloop!Deliver
<1>4. LoopQueued' = LoopQueued + (-1)
  <2>1. Calloop!TypeOK /\ -1 \in Int
      BY DEF LoopInv
  <2>2. QED
      BY <1>2, <1>3, <2>1, LoopOneQueueChanges
<1>5. loopQueues' \in [Calloop!Priorities -> Seq({1})]
    BY <1>2, <1>3 DEF LoopInv, Calloop!TypeOK
<1>6. LoopQueued' \in Nat
    BY <1>5 DEF LoopQueued, Calloop!Priorities
<1>7. delivered' = delivered + 1 /\ loopSent' = loopSent
    BY DEF Calloop!Deliver
<1>8. LoopAccounted' /\ delivered' \in 0..MaxItems
    BY <1>4, <1>6, <1>7, LoopQueuedLength, MaxItemsAssumption DEF LoopInv, Calloop!TypeOK, LoopAccounted
<1>9. Calloop!TypeOK'
    BY <1>5, <1>8 DEF LoopInv, Calloop!TypeOK, Calloop!Deliver
<1>10. LoopClosedForGood'
    BY <1>1 DEF LoopInv, LoopClosedForGood, Calloop!Deliver, Calloop!IsEmpty
<1>11. QED
    BY <1>8, <1>9, <1>10 DEF LoopInv

\* Steps that leave the queues alone.
LEMMA LoopQuietInv ==
    ASSUME LoopInv, UNCHANGED <<loopQueues, loopSent, delivered>>, Calloop!TypeOK',
           LoopClosedForGood'
    PROVE  LoopInv'
BY DEF LoopInv, LoopAccounted, LoopQueued

\* Every step keeps the invariant.
LEMMA LoopNextInv == LoopInv /\ [Calloop!Next]_Calloop!vars => LoopInv'
<1> SUFFICES ASSUME LoopInv, [Calloop!Next]_Calloop!vars PROVE LoopInv'
    OBVIOUS
<1> USE DEF LoopInv
<1>1. ASSUME NEW t \in Calloop!Threads, Calloop!Ping(t) PROVE LoopInv'
    BY <1>1, LoopQuietInv DEF Calloop!Ping, Calloop!TypeOK, LoopClosedForGood
<1>2. ASSUME Calloop!DropPing PROVE LoopInv'
    BY <1>2, LoopQuietInv DEF Calloop!DropPing, Calloop!TypeOK, LoopClosedForGood
<1>3. ASSUME Calloop!DropSenderField PROVE LoopInv'
    BY <1>3, LoopQuietInv DEF Calloop!DropSenderField, Calloop!TypeOK, LoopClosedForGood
<1>4. ASSUME Calloop!Poll PROVE LoopInv'
    BY <1>4, LoopQuietInv DEF Calloop!Poll, Calloop!TypeOK, LoopClosedForGood
<1>5. ASSUME Calloop!CallbackReturns PROVE LoopInv'
    BY <1>5, LoopQuietInv DEF Calloop!CallbackReturns, Calloop!TypeOK, LoopClosedForGood
<1>6. ASSUME Calloop!DrainEmpty PROVE LoopInv'
    BY <1>6, LoopQuietInv DEF Calloop!DrainEmpty, Calloop!TypeOK, LoopClosedForGood
<1>7. ASSUME Calloop!DrainClosed PROVE LoopInv'
    BY <1>7, LoopQuietInv
       DEF Calloop!DrainClosed, Calloop!Disconnected, Calloop!sender_count, Calloop!TypeOK,
           LoopClosedForGood
<1>8. CASE UNCHANGED Calloop!vars
    BY <1>8, LoopQuietInv DEF Calloop!vars, Calloop!TypeOK, LoopClosedForGood
<1>9. QED
    BY <1>1, <1>2, <1>3, <1>4, <1>5, <1>6, <1>7, <1>8, LoopSendInv, LoopDeliverInv
       DEF Calloop!Next, Calloop!SenderStep, Calloop!LoopStep

\* The initial state satisfies the invariant.
LEMMA LoopInitInv == Calloop!Init => LoopInv
<1> SUFFICES ASSUME Calloop!Init PROVE LoopInv
    OBVIOUS
<1>1. Calloop!TypeOK
  <2>1. ping \in BOOLEAN /\ isEmpty \in BOOLEAN /\ closed \in BOOLEAN
      BY Zenon DEF Calloop!Init
  <2>2. QED
      BY <2>1, MaxItemsAssumption DEF Calloop!Init, Calloop!TypeOK
<1>2. Calloop!IsEmpty(loopQueues)
    BY DEF Calloop!Init, Calloop!IsEmpty
<1>3. QED
    BY <1>1, <1>2, LoopQueuedLength DEF Calloop!Init, LoopInv, LoopAccounted, LoopClosedForGood

\* No runnable is lost or delivered twice between the push and the callback,
\* whatever threads send and drop concurrently.
THEOREM RunnablesAccounted == Calloop!Spec => [](Calloop!TypeOK /\ LoopAccounted)
BY LoopInitInv, LoopNextInv, PTL DEF Calloop!Spec, LoopInv

\* Event::Closed is delivered only when the sender is gone for good and nothing
\* is left to deliver.
THEOREM ClosedCorrect == Calloop!Spec => []Calloop!ClosedIsFinal
<1>1. LoopInv => Calloop!ClosedIsFinal
    BY LoopQueuedLength
       DEF LoopInv, Calloop!TypeOK, LoopAccounted, LoopClosedForGood, Calloop!ClosedIsFinal
<1>2. QED
    BY <1>1, LoopInitInv, LoopNextInv, PTL DEF Calloop!Spec

=============================================================================
