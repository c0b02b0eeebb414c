-------------------------- MODULE EntityMapProofs ---------------------------
(***************************************************************************)
(* Proofs about EntityMap for any set of threads, entities and handles.    *)
(***************************************************************************)
EXTENDS EntityMap, FiniteSetTheorems, TLAPS

-----------------------------------------------------------------------------
(* The inductive invariant.                                                 *)

\* What a thread inside the lock relies on.
LocalsInv ==
    \A t \in Threads :
        /\ pc[t] \in {"clone", "drop"} =>
              /\ arg[t] \in Handles /\ tgt[t] \in Ids
              /\ target[arg[t]] = tgt[t] /\ owner[arg[t]] = t
        /\ pc[t] \in {"load", "cas"} => tgt[t] \in Present
        /\ pc[t] = "cas" => seen[t] # 0
        /\ pc[t] = "zero" => /\ tgt[t] \in Present /\ counts[tgt[t]] = 0
                             /\ tgt[t] \notin DroppedIds
        /\ pc[t] = "flush" => t = Main /\ OutsideUpdates
        /\ pc[t] \in Upgradable => \A u \in Threads : pc[u] \in Upgradable => u = t

\* Where the entity of an id is.
StoreInv ==
    /\ DroppedIds \subseteq Present
    /\ accessed \subseteq Present
    /\ entities \union leased = {id \in Ids : phase[id] = "inserted"}

IInv ==
    /\ TypeOK
    /\ NoOverRelease
    /\ CountIsHandles
    /\ ReleasePending
    /\ LocalsInv
    /\ StoreInv

-----------------------------------------------------------------------------
(* Counting handles.                                                        *)

\* The handles to an entity are finitely many.
LEMMA LiveFinite ==
    \A id \in Ids : IsFiniteSet(Live(id)) /\ Cardinality(Live(id)) \in Nat
BY HandlesAssumption, FS_Subset, FS_CardinalityType DEF Live

\* A count of zero is an entity without handles.
LEMMA CountZero ==
    ASSUME CountIsHandles, NEW id \in Ids
    PROVE  counts[id] = 0 <=> Live(id) = {}
BY LiveFinite, FS_EmptySet DEF CountIsHandles

\* A new handle h to id adds one to the handles of id and changes no others.
LEMMA LiveAdd ==
    ASSUME TypeOK, NEW h \in Free, NEW id \in Ids,
           target' = [target EXCEPT ![h] = id]
    PROVE  \A i \in Ids :
              /\ Cardinality(Live(i)') =
                    IF i = id THEN Cardinality(Live(i)) + 1 ELSE Cardinality(Live(i))
              /\ Live(i)' = IF i = id THEN Live(i) \union {h} ELSE Live(i)
<1> SUFFICES ASSUME NEW i \in Ids
             PROVE  /\ Cardinality(Live(i)') =
                         IF i = id THEN Cardinality(Live(i)) + 1 ELSE Cardinality(Live(i))
                    /\ Live(i)' = IF i = id THEN Live(i) \union {h} ELSE Live(i)
    OBVIOUS
<1>1. h \in Handles /\ target[h] = NoEntity
    BY DEF Free
<1>2. h \notin Live(i)
    BY <1>1, NoEntityAssumption DEF Live
<1>3. Live(i)' = IF i = id THEN Live(i) \union {h} ELSE Live(i)
    BY <1>1, NoEntityAssumption DEF Live, TypeOK
<1>4. QED
    BY <1>2, <1>3, LiveFinite, FS_AddElement

\* A dropped handle h takes one from the handles of its entity.
LEMMA LiveRemove ==
    ASSUME TypeOK, NEW h \in Handles, target[h] \in Ids,
           target' = [target EXCEPT ![h] = NoEntity]
    PROVE  \A i \in Ids :
              /\ Cardinality(Live(i)') =
                    IF i = target[h] THEN Cardinality(Live(i)) - 1 ELSE Cardinality(Live(i))
              /\ Live(i)' = Live(i) \ {h}
<1> SUFFICES ASSUME NEW i \in Ids
             PROVE  /\ Cardinality(Live(i)') =
                         IF i = target[h] THEN Cardinality(Live(i)) - 1
                                          ELSE Cardinality(Live(i))
                    /\ Live(i)' = Live(i) \ {h}
    OBVIOUS
<1>1. h \in Live(i) <=> i = target[h]
    BY DEF Live
<1>2. Live(i)' = Live(i) \ {h}
    BY NoEntityAssumption DEF Live, TypeOK
<1>3. QED
    BY <1>1, <1>2, LiveFinite, FS_RemoveElement

-----------------------------------------------------------------------------
(* Every step preserves the invariant: one lemma for the main thread, one   *)
(* for the handles.                                                         *)

\* The initial state satisfies the invariant.
LEMMA InitInv == Init => IInv
<1> SUFFICES ASSUME Init PROVE IInv
    OBVIOUS
<1>1. TypeOK
    BY MainAssumption DEF Init, TypeOK, Phases, PCs, Panics, Upgradable
<1>2. \A id \in Ids : Live(id) = {}
    BY NoEntityAssumption DEF Init, Live
<1>3. CountIsHandles
    BY <1>2, FS_EmptySet DEF Init, CountIsHandles, Present
<1>4. QED
    BY <1>1, <1>3 DEF Init, IInv, NoOverRelease, ReleasePending, LocalsInv, StoreInv,
        DroppedIds, Present, OutsideUpdates, Upgradable

\* A step that leaves the handles alone keeps the handle sets.
LEMMA LiveSame == target' = target => \A id \in Ids : Live(id)' = Live(id)
BY DEF Live

\* Steps of the main thread.
LEMMA MainInv == IInv /\ MainStep => IInv'
<1> SUFFICES ASSUME IInv, MainStep PROVE IInv'
    OBVIOUS
<1> USE MainAssumption DEF IInv, Idle
<1>1. ASSUME NEW id \in Ids, NEW h \in Handles, Reserve(id, h) PROVE IInv'
  <2> USE <1>1 DEF Reserve, locals
  <2>1. TypeOK'
      BY DEF TypeOK, Phases, Free
  <2>2. h \in Free /\ \A i \in Ids :
          /\ Cardinality(Live(i)') =
                IF i = id THEN Cardinality(Live(i)) + 1 ELSE Cardinality(Live(i))
          /\ Live(i)' = IF i = id THEN Live(i) \union {h} ELSE Live(i)
      BY LiveAdd
  <2>3. Present' = Present \union {id} /\ id \notin Present
      BY DEF Present, TypeOK
  <2>4. CountIsHandles'
    <3>1. Live(id) = {} /\ Cardinality(Live(id)) = 0
        BY <2>3, FS_EmptySet DEF CountIsHandles
    <3>2. ASSUME NEW i \in Ids
          PROVE  /\ counts'[i] = Cardinality(Live(i)')
                 /\ Live(i)' # {} => i \in Present'
      <4>1. counts' = [counts EXCEPT ![id] = 1] /\ counts \in [Ids -> Nat]
          BY DEF TypeOK
      <4>2. CASE i = id
          BY <2>2, <2>3, <3>1, <4>1, <4>2
      <4>3. CASE i # id
          BY <2>2, <2>3, <4>1, <4>3 DEF CountIsHandles
      <4>4. QED
          BY <4>2, <4>3
    <3>3. QED
        BY <3>2 DEF CountIsHandles
  <2>5. DroppedIds' = DroppedIds
      BY DEF DroppedIds
  <2>6. ReleasePending' 
      BY <2>3, <2>5 DEF ReleasePending, LocalsInv, StoreInv, TypeOK
  <2>7. LocalsInv'
      BY <2>3, <2>5 DEF LocalsInv, StoreInv, TypeOK, Free, WriteFree, Outside, OutsideUpdates, Upgradable
  <2>8. StoreInv'
      BY <2>3, <2>5 DEF StoreInv, TypeOK
  <2>9. QED
      BY <2>1, <2>4, <2>6, <2>7, <2>8 DEF NoOverRelease
<1>2. ASSUME NEW id \in Ids, BeginBuild(id) PROVE IInv'
  <2> USE <1>2 DEF BeginBuild, locals
  <2>1. TypeOK'
      BY DEF TypeOK, Phases, Panics
  <2>2. Present' = Present
      BY DEF Present, TypeOK
  <2>3. CountIsHandles'
      BY <2>2, LiveSame DEF CountIsHandles
  <2>4. DroppedIds' = DroppedIds
      BY DEF DroppedIds
  <2>5. ReleasePending'
      BY <2>2, <2>4 DEF ReleasePending
  <2>6. LocalsInv'
      BY <2>2, <2>4 DEF LocalsInv, TypeOK, OutsideUpdates, Upgradable
  <2>7. StoreInv'
      BY <2>2, <2>4 DEF StoreInv, TypeOK, OwnedBy, CountIsHandles
  <2>8. QED
      BY <2>1, <2>3, <2>5, <2>6, <2>7 DEF NoOverRelease
<1>3. ASSUME NEW id \in Ids, Insert(id) PROVE IInv'
  <2> USE <1>3 DEF Insert, locals
  <2>1. TypeOK'
      BY DEF TypeOK, Phases, Panics
  <2>2. Present' = Present
      BY DEF Present, TypeOK
  <2>3. CountIsHandles'
      BY <2>2, LiveSame DEF CountIsHandles
  <2>4. DroppedIds' = DroppedIds
      BY DEF DroppedIds
  <2>5. ReleasePending'
      BY <2>2, <2>4 DEF ReleasePending
  <2>6. LocalsInv'
      BY <2>2, <2>4 DEF LocalsInv, TypeOK, OutsideUpdates, Upgradable
  <2>7. StoreInv'
    <3>1. id \in Present
        BY DEF Present
    <3>2. QED
        BY <2>2, <2>4, <3>1 DEF StoreInv, TypeOK
  <2>8. QED
      BY <2>1, <2>3, <2>5, <2>6, <2>7 DEF NoOverRelease
<1>4. ASSUME NEW id \in Ids, Lease(id) PROVE IInv'
  <2> USE <1>4 DEF Lease, locals
  <2>1. TypeOK'
      BY DEF TypeOK, Phases, Panics
  <2>2. Present' = Present
      BY DEF Present, TypeOK
  <2>3. CountIsHandles'
      BY <2>2, LiveSame DEF CountIsHandles
  <2>4. DroppedIds' = DroppedIds
      BY DEF DroppedIds
  <2>5. ReleasePending'
      BY <2>2, <2>4 DEF ReleasePending
  <2>6. LocalsInv'
      BY <2>2, <2>4 DEF LocalsInv, TypeOK, OutsideUpdates, Upgradable
  <2>7. StoreInv'
      BY <2>2, <2>4 DEF StoreInv, TypeOK, OwnedBy, CountIsHandles
  <2>8. QED
      BY <2>1, <2>3, <2>5, <2>6, <2>7 DEF NoOverRelease
<1>5. ASSUME NEW id \in Ids, EndLease(id) PROVE IInv'
  <2> USE <1>5 DEF EndLease, locals
  <2>1. TypeOK'
      BY DEF TypeOK, Phases, Panics
  <2>2. Present' = Present
      BY DEF Present, TypeOK
  <2>3. CountIsHandles'
      BY <2>2, LiveSame DEF CountIsHandles
  <2>4. DroppedIds' = DroppedIds
      BY DEF DroppedIds
  <2>5. ReleasePending'
      BY <2>2, <2>4 DEF ReleasePending
  <2>6. LocalsInv'
      BY <2>2, <2>4 DEF LocalsInv, TypeOK, OutsideUpdates, Upgradable
  <2>7. StoreInv'
      BY <2>2, <2>4 DEF StoreInv, TypeOK, OwnedBy, CountIsHandles
  <2>8. QED
      BY <2>1, <2>3, <2>5, <2>6, <2>7 DEF NoOverRelease
<1>6. ASSUME NEW id \in Ids, Read(id) PROVE IInv'
  <2> USE <1>6 DEF Read, locals
  <2>1. TypeOK'
      BY DEF TypeOK, Phases, Panics
  <2>2. Present' = Present
      BY DEF Present, TypeOK
  <2>3. CountIsHandles'
      BY <2>2, LiveSame DEF CountIsHandles
  <2>4. DroppedIds' = DroppedIds
      BY DEF DroppedIds
  <2>5. ReleasePending'
      BY <2>2, <2>4 DEF ReleasePending
  <2>6. LocalsInv'
      BY <2>2, <2>4 DEF LocalsInv, TypeOK, OutsideUpdates, Upgradable
  <2>7. StoreInv'
      BY <2>2, <2>4 DEF StoreInv, TypeOK, OwnedBy, CountIsHandles
  <2>8. QED
      BY <2>1, <2>3, <2>5, <2>6, <2>7 DEF NoOverRelease
<1>7. ASSUME ClearAccessed PROVE IInv'
  <2> USE <1>7 DEF ClearAccessed, locals, heap
  <2>1. TypeOK'
      BY DEF TypeOK, PCs
  <2>2. Present' = Present /\ DroppedIds' = DroppedIds
      BY DEF Present, DroppedIds
  <2>3. CountIsHandles'
      BY <2>2, LiveSame DEF CountIsHandles
  <2>4. ReleasePending'
      BY <2>2 DEF ReleasePending, TypeOK
  <2>5. LocalsInv'
      BY <2>2 DEF LocalsInv, TypeOK, OutsideUpdates, Upgradable
  <2>6. StoreInv'
      BY <2>2 DEF StoreInv
  <2>7. QED
      BY <2>1, <2>3, <2>4, <2>5, <2>6 DEF NoOverRelease
<1>8. ASSUME BeginFlush PROVE IInv'
  <2> USE <1>8 DEF BeginFlush, locals, heap
  <2>1. TypeOK'
      BY DEF TypeOK, PCs
  <2>2. Present' = Present /\ DroppedIds' = DroppedIds
      BY DEF Present, DroppedIds
  <2>3. CountIsHandles'
      BY <2>2, LiveSame DEF CountIsHandles
  <2>4. ReleasePending'
      BY <2>2 DEF ReleasePending, TypeOK
  <2>5. LocalsInv'
      BY <2>2 DEF LocalsInv, TypeOK, OutsideUpdates, Upgradable
  <2>6. StoreInv'
      BY <2>2 DEF StoreInv
  <2>7. QED
      BY <2>1, <2>3, <2>4, <2>5, <2>6 DEF NoOverRelease
<1>9. ASSUME TakeDropped PROVE IInv'
  <2> USE <1>9 DEF TakeDropped
  <2>1. TypeOK'
      BY DEF TypeOK, Phases, Panics, PCs
  <2>2. Present' = Present \ DroppedIds /\ DroppedIds' = {}
      BY DEF Present, DroppedIds, TypeOK
  <2>3. \A id \in DroppedIds : id \in Present /\ counts[id] = 0
      BY DEF StoreInv, ReleasePending
  <2>4. CountIsHandles'
    <3>1. \A id \in DroppedIds : id \in Ids /\ Live(id) = {}
        BY <2>3, CountZero DEF Present
    <3>2. QED
        BY <2>2, <3>1, LiveSame DEF CountIsHandles
  <2>5. ReleasePending'
      BY <2>2 DEF ReleasePending, WriteFree, Outside, TypeOK
  <2>6. LocalsInv'
      BY <2>2 DEF LocalsInv, TypeOK, OutsideUpdates, Upgradable, WriteFree, Outside
  <2>7. leased = {}
      BY DEF LocalsInv, OutsideUpdates
  <2>8. StoreInv'
      BY <2>2, <2>7 DEF StoreInv, TypeOK
  <2>9. QED
      BY <2>1, <2>3, <2>4, <2>5, <2>6, <2>8 DEF NoOverRelease
<1>10. QED
    BY <1>1, <1>2, <1>3, <1>4, <1>5, <1>6, <1>7, <1>8, <1>9 DEF MainStep

\* Steps of a thread that uses its handles.
LEMMA HandleInv == ASSUME NEW t \in Threads PROVE IInv /\ HandleStep(t) => IInv'
<1> SUFFICES ASSUME IInv, HandleStep(t) PROVE IInv'
    OBVIOUS
<1> USE DEF IInv, Idle
<1>1. ASSUME NEW h \in Handles, NEW u \in Threads, Move(t, u, h) PROVE IInv'
  <2> USE <1>1 DEF Move, heap, locals
  <2>1. TypeOK'
      BY DEF TypeOK
  <2>2. Present' = Present /\ DroppedIds' = DroppedIds
      BY DEF Present, DroppedIds
  <2>3. CountIsHandles' /\ ReleasePending' /\ StoreInv'
      BY <2>2, LiveSame DEF CountIsHandles, ReleasePending, StoreInv
  <2>4. LocalsInv'
      BY <2>2 DEF LocalsInv, Holds, OutsideUpdates, TypeOK
  <2>5. QED
      BY <2>1, <2>3, <2>4 DEF NoOverRelease
<1>2. ASSUME NEW h \in Handles, BeginClone(t, h) PROVE IInv'
  <2> USE <1>2 DEF BeginClone, heap
  <2>1. TypeOK'
      BY DEF TypeOK, PCs, Upgradable, Present
  <2>2. Present' = Present /\ DroppedIds' = DroppedIds
      BY DEF Present, DroppedIds
  <2>3. CountIsHandles' /\ StoreInv'
      BY <2>2, LiveSame DEF CountIsHandles, StoreInv
  <2>4. ReleasePending'
      BY <2>2 DEF ReleasePending, TypeOK
  <2>5. LocalsInv'
      BY <2>2 DEF LocalsInv, OutsideUpdates, TypeOK, Upgradable, Holds
  <2>6. QED
      BY <2>1, <2>3, <2>4, <2>5 DEF NoOverRelease
<1>3. ASSUME NEW h \in Handles, BeginDrop(t, h) PROVE IInv'
  <2> USE <1>3 DEF BeginDrop, heap
  <2>1. TypeOK'
      BY DEF TypeOK, PCs, Upgradable, Present
  <2>2. Present' = Present /\ DroppedIds' = DroppedIds
      BY DEF Present, DroppedIds
  <2>3. CountIsHandles' /\ StoreInv'
      BY <2>2, LiveSame DEF CountIsHandles, StoreInv
  <2>4. ReleasePending'
      BY <2>2 DEF ReleasePending, TypeOK
  <2>5. LocalsInv'
      BY <2>2 DEF LocalsInv, OutsideUpdates, TypeOK, Upgradable, Holds, UpgradableFree
  <2>6. QED
      BY <2>1, <2>3, <2>4, <2>5 DEF NoOverRelease
<1>4. ASSUME NEW id \in Ids, BeginUpgrade(t, id) PROVE IInv'
  <2> USE <1>4 DEF BeginUpgrade, heap
  <2>1. TypeOK'
      BY DEF TypeOK, PCs, Upgradable, Present
  <2>2. Present' = Present /\ DroppedIds' = DroppedIds
      BY DEF Present, DroppedIds
  <2>3. CountIsHandles' /\ StoreInv'
      BY <2>2, LiveSame DEF CountIsHandles, StoreInv
  <2>4. ReleasePending'
      BY <2>2 DEF ReleasePending, TypeOK
  <2>5. LocalsInv'
      BY <2>2 DEF LocalsInv, OutsideUpdates, TypeOK, Upgradable, Present
  <2>6. QED
      BY <2>1, <2>3, <2>4, <2>5 DEF NoOverRelease
<1>5. ASSUME UpgradeLoad(t) PROVE IInv'
  <2> USE <1>5 DEF UpgradeLoad, heap
  <2>1. Present' = Present /\ DroppedIds' = DroppedIds
      BY DEF Present, DroppedIds
  <2>2. CountIsHandles' /\ StoreInv'
      BY <2>1, LiveSame DEF CountIsHandles, StoreInv
  <2>3. tgt[t] \in Ids /\ counts[tgt[t]] \in Nat
      BY DEF LocalsInv, Present, TypeOK
  <2>4. TypeOK' /\ ReleasePending' /\ LocalsInv'
    <3>1. CASE counts[tgt[t]] = 0
      <4>1. Return(t)
          BY <3>1 DEF Loaded
      <4>2. TypeOK'
          BY <4>1 DEF Return, TypeOK, PCs
      <4>3. ReleasePending'
          BY <2>1, <4>1 DEF Return, ReleasePending, TypeOK
      <4>4. LocalsInv'
          BY <2>1, <4>1 DEF Return, LocalsInv, OutsideUpdates, TypeOK, Upgradable
      <4>5. QED
          BY <4>2, <4>3, <4>4
    <3>2. CASE counts[tgt[t]] # 0
      <4>1. /\ pc' = [pc EXCEPT ![t] = "cas"]
            /\ seen' = [seen EXCEPT ![t] = counts[tgt[t]]]
            /\ UNCHANGED <<arg, tgt>>
          BY <3>2 DEF Loaded
      <4>2. TypeOK'
          BY <2>3, <4>1 DEF TypeOK, PCs
      <4>3. ReleasePending'
          BY <2>1, <4>1 DEF ReleasePending, TypeOK
      <4>4. LocalsInv'
          BY <2>1, <3>2, <4>1 DEF LocalsInv, OutsideUpdates, TypeOK, Upgradable
      <4>5. QED
          BY <4>2, <4>3, <4>4
    <3>3. QED
        BY <3>1, <3>2
  <2>5. QED
      BY <2>2, <2>4 DEF NoOverRelease
<1>6. ASSUME UpgradeRetry(t) PROVE IInv'
  <2> USE <1>6 DEF UpgradeRetry, heap
  <2>1. Present' = Present /\ DroppedIds' = DroppedIds
      BY DEF Present, DroppedIds
  <2>2. CountIsHandles' /\ StoreInv'
      BY <2>1, LiveSame DEF CountIsHandles, StoreInv
  <2>3. tgt[t] \in Ids /\ counts[tgt[t]] \in Nat
      BY DEF LocalsInv, Present, TypeOK
  <2>4. TypeOK' /\ ReleasePending' /\ LocalsInv'
    <3>1. CASE counts[tgt[t]] = 0
      <4>1. Return(t)
          BY <3>1 DEF Loaded
      <4>2. TypeOK'
          BY <4>1 DEF Return, TypeOK, PCs
      <4>3. ReleasePending'
          BY <2>1, <4>1 DEF Return, ReleasePending, TypeOK
      <4>4. LocalsInv'
          BY <2>1, <4>1 DEF Return, LocalsInv, OutsideUpdates, TypeOK, Upgradable
      <4>5. QED
          BY <4>2, <4>3, <4>4
    <3>2. CASE counts[tgt[t]] # 0
      <4>1. /\ pc' = [pc EXCEPT ![t] = "cas"]
            /\ seen' = [seen EXCEPT ![t] = counts[tgt[t]]]
            /\ UNCHANGED <<arg, tgt>>
          BY <3>2 DEF Loaded
      <4>2. TypeOK'
          BY <2>3, <4>1 DEF TypeOK, PCs
      <4>3. ReleasePending'
          BY <2>1, <4>1 DEF ReleasePending, TypeOK
      <4>4. LocalsInv'
          BY <2>1, <3>2, <4>1 DEF LocalsInv, OutsideUpdates, TypeOK, Upgradable
      <4>5. QED
          BY <4>2, <4>3, <4>4
    <3>3. QED
        BY <3>1, <3>2
  <2>5. QED
      BY <2>2, <2>4 DEF NoOverRelease
<1>7. ASSUME NEW n \in Handles, Clone(t, n) PROVE IInv'
  <2> USE <1>7 DEF Clone, Return
  <2>1. tgt[t] \in Present /\ counts[tgt[t]] # 0
    <3>1. tgt[t] \in Ids /\ arg[t] \in Live(tgt[t])
        BY DEF LocalsInv, Live
    <3>2. QED
        BY <3>1, CountZero DEF CountIsHandles
  <2>2. \A i \in Ids :
          /\ Cardinality(Live(i)') =
                IF i = tgt[t] THEN Cardinality(Live(i)) + 1 ELSE Cardinality(Live(i))
          /\ Live(i)' = IF i = tgt[t] THEN Live(i) \union {n} ELSE Live(i)
      BY <2>1, LiveAdd DEF Present
  <2>3. TypeOK' /\ tgt[t] \in Ids
    <3>1. tgt[t] \in Ids
        BY <2>1 DEF Present
    <3>2. counts' = [counts EXCEPT ![tgt[t]] = @ + 1] /\ panic' = panic
        BY <2>1
    <3>3. /\ target' = [target EXCEPT ![n] = tgt[t]]
          /\ owner' = [owner EXCEPT ![n] = t]
        BY <2>1
    <3>4. QED
        BY <3>1, <3>2, <3>3 DEF TypeOK, PCs
  <2>4. Present' = Present /\ DroppedIds' = DroppedIds
      BY DEF Present, DroppedIds
  <2>5. CountIsHandles'
      BY <2>1, <2>2, <2>4 DEF CountIsHandles, TypeOK, Present
  <2>a. StoreInv'
      BY <2>4 DEF StoreInv
  <2>b. /\ counts' = [counts EXCEPT ![tgt[t]] = @ + 1]
        /\ pc' = [pc EXCEPT ![t] = "idle"] /\ pc[t] # "zero"
        /\ tgt' = [tgt EXCEPT ![t] = NoEntity]
        /\ dropped' = dropped
        /\ owner' = [owner EXCEPT ![n] = t]
        /\ target' = [target EXCEPT ![n] = tgt[t]]
        /\ n \in Free
        /\ UNCHANGED <<phase, leased>>
      BY <2>1
  <2>6. ReleasePending'
    <3>1. ASSUME NEW id \in Present
          PROVE  counts'[id] = 0 <=> counts[id] = 0
        BY <2>1, <2>3, <2>b DEF TypeOK, Present
    <3>2. ASSUME NEW u \in Threads, NEW id \in Ids
          PROVE  pc'[u] = "zero" /\ tgt'[u] = id <=> pc[u] = "zero" /\ tgt[u] = id
        BY <2>b DEF TypeOK
    <3>3. \A id \in Present : id \in Ids
        BY DEF Present
    <3>4. \A i, j \in 1..Len(dropped') : dropped'[i] = dropped'[j] => i = j
        BY <2>b DEF ReleasePending
    <3>5. QED
        BY <2>4, <3>1, <3>2, <3>3, <3>4 DEF ReleasePending
  <2>7. LocalsInv'
    <3>1. ASSUME NEW u \in Threads, pc'[u] = "zero"
          PROVE  tgt[u] # tgt[t] /\ pc[u] = "zero" /\ u # t
        BY <2>1, <2>b, <3>1 DEF LocalsInv, TypeOK
    <3>2. ASSUME NEW u \in Threads, pc[u] \in {"clone", "drop"}
          PROVE  arg[u] # n
        BY <2>b, <3>2, NoEntityAssumption DEF LocalsInv, Free
    <3>3. QED
        BY <2>1, <2>3, <2>4, <2>b, <3>1, <3>2
           DEF LocalsInv, OutsideUpdates, TypeOK, Upgradable
  <2>8. QED
      BY <2>1, <2>3, <2>5, <2>6, <2>7, <2>a DEF NoOverRelease
<1>8. ASSUME NEW n \in Handles, UpgradeCas(t, n) PROVE IInv'
  <2> USE <1>8 DEF UpgradeCas, Return
  <2>1. tgt[t] \in Present /\ counts[tgt[t]] # 0
      BY DEF LocalsInv
  <2>2. \A i \in Ids :
          /\ Cardinality(Live(i)') =
                IF i = tgt[t] THEN Cardinality(Live(i)) + 1 ELSE Cardinality(Live(i))
          /\ Live(i)' = IF i = tgt[t] THEN Live(i) \union {n} ELSE Live(i)
      BY <2>1, LiveAdd DEF Present
  <2>3. TypeOK' /\ tgt[t] \in Ids
    <3>1. tgt[t] \in Ids
        BY <2>1 DEF Present
    <3>2. counts' = [counts EXCEPT ![tgt[t]] = @ + 1] /\ panic' = panic
        BY <2>1
    <3>3. /\ target' = [target EXCEPT ![n] = tgt[t]]
          /\ owner' = [owner EXCEPT ![n] = t]
        BY <2>1
    <3>4. QED
        BY <3>1, <3>2, <3>3 DEF TypeOK, PCs
  <2>4. Present' = Present /\ DroppedIds' = DroppedIds
      BY DEF Present, DroppedIds
  <2>5. CountIsHandles'
      BY <2>1, <2>2, <2>4 DEF CountIsHandles, TypeOK, Present
  <2>a. StoreInv'
      BY <2>4 DEF StoreInv
  <2>b. /\ counts' = [counts EXCEPT ![tgt[t]] = @ + 1]
        /\ pc' = [pc EXCEPT ![t] = "idle"] /\ pc[t] # "zero"
        /\ tgt' = [tgt EXCEPT ![t] = NoEntity]
        /\ dropped' = dropped
        /\ owner' = [owner EXCEPT ![n] = t]
        /\ target' = [target EXCEPT ![n] = tgt[t]]
        /\ n \in Free
        /\ UNCHANGED <<phase, leased>>
      BY <2>1
  <2>6. ReleasePending'
    <3>1. ASSUME NEW id \in Present
          PROVE  counts'[id] = 0 <=> counts[id] = 0
        BY <2>1, <2>3, <2>b DEF TypeOK, Present
    <3>2. ASSUME NEW u \in Threads, NEW id \in Ids
          PROVE  pc'[u] = "zero" /\ tgt'[u] = id <=> pc[u] = "zero" /\ tgt[u] = id
        BY <2>b DEF TypeOK
    <3>3. \A id \in Present : id \in Ids
        BY DEF Present
    <3>4. \A i, j \in 1..Len(dropped') : dropped'[i] = dropped'[j] => i = j
        BY <2>b DEF ReleasePending
    <3>5. QED
        BY <2>4, <3>1, <3>2, <3>3, <3>4 DEF ReleasePending
  <2>7. LocalsInv'
    <3>1. ASSUME NEW u \in Threads, pc'[u] = "zero"
          PROVE  tgt[u] # tgt[t] /\ pc[u] = "zero" /\ u # t
        BY <2>1, <2>b, <3>1 DEF LocalsInv, TypeOK
    <3>2. ASSUME NEW u \in Threads, pc[u] \in {"clone", "drop"}
          PROVE  arg[u] # n
        BY <2>b, <3>2, NoEntityAssumption DEF LocalsInv, Free
    <3>3. QED
        BY <2>1, <2>3, <2>4, <2>b, <3>1, <3>2
           DEF LocalsInv, OutsideUpdates, TypeOK, Upgradable
  <2>8. QED
      BY <2>1, <2>3, <2>5, <2>6, <2>7, <2>a DEF NoOverRelease
<1>9. ASSUME DropCount(t) PROVE IInv'
  <2> USE <1>9 DEF DropCount
  <2> DEFINE d == tgt[t]
  <2>1. /\ d \in Ids /\ arg[t] \in Handles /\ target[arg[t]] = d
        /\ d \in Present /\ counts[d] # 0
    <3>1. d \in Ids /\ arg[t] \in Handles /\ arg[t] \in Live(d)
        BY DEF LocalsInv, Live
    <3>2. QED
        BY <3>1, CountZero DEF CountIsHandles, Live
  <2>2. \A i \in Ids :
          /\ Cardinality(Live(i)') =
                IF i = d THEN Cardinality(Live(i)) - 1 ELSE Cardinality(Live(i))
          /\ Live(i)' = Live(i) \ {arg[t]}
      BY <2>1, LiveRemove
  <2>3. TypeOK'
    <3>1. /\ counts' = [counts EXCEPT ![d] = @ - 1] /\ panic' = panic
          /\ target' = [target EXCEPT ![arg[t]] = NoEntity]
          /\ counts[d] - 1 \in Nat
        BY <2>1 DEF TypeOK
    <3>2. /\ pc' \in [Threads -> PCs]
          /\ arg' \in [Threads -> Handles \union {NoHandle}]
          /\ tgt' \in [Threads -> Ids \union {NoEntity}]
          /\ seen' \in [Threads -> Nat]
      <4>1. CASE counts[d] = 1
          BY <2>1, <4>1 DEF LastHandle, TypeOK, PCs, Upgradable
      <4>2. CASE counts[d] # 1
        <5>1. Return(t)
            BY <2>1, <4>2 DEF LastHandle
        <5>2. QED
            BY <5>1 DEF Return, TypeOK, PCs
      <4>3. QED
          BY <4>1, <4>2
    <3>3. QED
        BY <2>1, <3>1, <3>2 DEF TypeOK
  <2>4. Present' = Present /\ DroppedIds' = DroppedIds
      BY DEF Present, DroppedIds
  <2>5. counts' = [counts EXCEPT ![d] = @ - 1] /\ panic' = panic
      BY <2>1
  <2>6. CountIsHandles'
      BY <2>1, <2>2, <2>4, <2>5 DEF CountIsHandles, TypeOK
  <2>7. d \notin DroppedIds
      BY <2>1 DEF ReleasePending
  <2>8. ReleasePending' /\ LocalsInv'
    <3>1. CASE counts[d] = 1
      <4>1. /\ pc' = [pc EXCEPT ![t] = "zero"]
            /\ UNCHANGED <<arg, tgt, seen>>
          BY <3>1, <2>1 DEF LastHandle
      <4>2. ReleasePending'
          BY <3>1, <4>1, <2>1, <2>4, <2>5 DEF ReleasePending, TypeOK
      <4>3. LocalsInv'
          BY <3>1, <4>1, <2>1, <2>4, <2>5, <2>7
             DEF LocalsInv, TypeOK, OutsideUpdates, Upgradable
      <4>4. QED
          BY <4>2, <4>3
    <3>2. CASE counts[d] # 1
      <4>1. Return(t)
          BY <3>2, <2>1 DEF LastHandle
      <4>2. ReleasePending'
          BY <3>2, <4>1, <2>1, <2>4, <2>5 DEF ReleasePending, TypeOK, Return
      <4>3. LocalsInv'
          BY <3>2, <4>1, <2>1, <2>4, <2>5, <2>7
             DEF LocalsInv, TypeOK, OutsideUpdates, Upgradable, Return
      <4>4. QED
          BY <4>2, <4>3
    <3>3. QED
        BY <3>1, <3>2
  <2>9. StoreInv'
      BY <2>4 DEF StoreInv
  <2>10. QED
      BY <2>3, <2>5, <2>6, <2>8, <2>9 DEF NoOverRelease
<1>10. ASSUME PushDropped(t) PROVE IInv'
  <2> USE <1>10 DEF PushDropped, Return
  <2>1. tgt[t] \in Present /\ counts[tgt[t]] = 0 /\ tgt[t] \notin DroppedIds /\ tgt[t] \in Ids
      BY DEF LocalsInv, Present
  <2>2. TypeOK'
      BY <2>1 DEF TypeOK, PCs
  <2>3. Present' = Present
      BY DEF Present
  <2>a. /\ Len(dropped) \in Nat /\ Len(dropped') = Len(dropped) + 1
        /\ dropped'[Len(dropped) + 1] = tgt[t]
        /\ \A i \in 1..Len(dropped) : dropped'[i] = dropped[i]
      BY <2>1 DEF TypeOK
  <2>b. \A i \in 1..Len(dropped') : i \in 1..Len(dropped) \/ i = Len(dropped) + 1
      BY <2>a
  <2>4. DroppedIds' = DroppedIds \union {tgt[t]}
    <3> HIDE <1>10 DEF PushDropped
    <3>1. \A x \in DroppedIds' : x \in DroppedIds \union {tgt[t]}
        BY <2>a, <2>b DEF DroppedIds
    <3>2. \A x \in DroppedIds : x \in DroppedIds'
        BY <2>a DEF DroppedIds
    <3>3. tgt[t] \in DroppedIds'
        BY <2>a DEF DroppedIds
    <3>4. QED
        BY <3>1, <3>2, <3>3
  <2>5. CountIsHandles'
      BY <2>3, LiveSame DEF CountIsHandles
  <2>6. \A u \in Threads : pc[u] = "zero" => u = t
      BY DEF LocalsInv, Upgradable
  <2>7. ReleasePending'
    <3>1. \A i, j \in 1..Len(dropped') : dropped'[i] = dropped'[j] => i = j
        BY <2>1, <2>a, <2>b DEF ReleasePending, DroppedIds
    <3>2. \A id \in Present' : counts'[id] = 0 <=>
             id \in DroppedIds' \/ \E u \in Threads : pc'[u] = "zero" /\ tgt'[u] = id
        BY <2>1, <2>3, <2>4, <2>6 DEF ReleasePending, TypeOK
    <3>3. QED
        BY <3>1, <3>2 DEF ReleasePending
  <2>8. LocalsInv'
      BY <2>1, <2>3, <2>4, <2>6 DEF LocalsInv, TypeOK, OutsideUpdates, Upgradable
  <2>9. StoreInv'
      BY <2>1, <2>3, <2>4 DEF StoreInv
  <2>10. QED
      BY <2>2, <2>5, <2>7, <2>8, <2>9 DEF NoOverRelease
<1>11. QED
    BY <1>1, <1>2, <1>3, <1>4, <1>5, <1>6, <1>7, <1>8, <1>9, <1>10 DEF HandleStep

\* A step that changes no variable keeps the invariant.
LEMMA StutterInv == IInv /\ UNCHANGED vars => IInv'
<1> SUFFICES ASSUME IInv, UNCHANGED vars PROVE IInv'
    OBVIOUS
<1> USE DEF vars, heap, locals
<1>1. Present' = Present /\ DroppedIds' = DroppedIds
    BY DEF Present, DroppedIds
<1>2. TypeOK'
    BY DEF IInv, TypeOK
<1>3. CountIsHandles'
    BY <1>1, LiveSame DEF IInv, CountIsHandles
<1>4. QED
    BY <1>1, <1>2, <1>3 DEF IInv, NoOverRelease, ReleasePending, LocalsInv, StoreInv, OutsideUpdates

\* The invariant holds in every reachable state.
THEOREM Invariant == Spec => []IInv
<1>1. IInv /\ [Next]_vars => IInv'
    BY MainInv, HandleInv, StutterInv DEF Next
<1>2. QED
    BY InitInv, <1>1, PTL DEF Spec

\* Drop, Clone and take_dropped never meet an over-released entity, counts are
\* exactly the strong handles, each unreferenced entity is queued for release
\* once, and a strong handle always finds its entity.
THEOREM EntityMapSafety ==
    Spec => [](TypeOK /\ NoOverRelease /\ CountIsHandles /\ ReleasePending
               /\ HandleFindsEntity)
<1>1. IInv => HandleFindsEntity
  <2> SUFFICES ASSUME IInv, NEW id \in Ids
               PROVE  /\ Live(id) # {} => \/ phase[id] \in {"reserved", "building"}
                                          \/ id \in entities \union leased
                      /\ id \in entities \union leased \union accessed => id \in Present
      BY DEF HandleFindsEntity
  <2>1. Live(id) # {} => id \in Present
      BY DEF IInv, CountIsHandles
  <2>2. QED
      BY <2>1 DEF IInv, StoreInv, Present
<1>2. QED
    BY Invariant, <1>1, PTL DEF IInv

\* The reference count of every entity is the number of strong handles to it,
\* whatever clones, drops and compare_exchange loops of upgrade interleave.
THEOREM CountsExact == Spec => []CountIsHandles
BY EntityMapSafety, PTL

\* The entity of a strong handle is in the map, leased, or being built: get,
\* lease and read never look for it in vain.
THEOREM HandlesFindEntities == Spec => []HandleFindsEntity
BY EntityMapSafety, PTL

-----------------------------------------------------------------------------
(* What one step may not do, and what it looks like to a client.            *)

\* A step either leaves the handles alone, or creates the entity, or adds or
\* removes one handle of an entity that had one.
LEMMA StepShape ==
    ASSUME IInv, [Next]_vars
    PROVE  \/ UNCHANGED <<target, counts>>
           \/ \E id \in Ids, h \in Handles :
                 /\ phase[id] = "unused" /\ h \in Free
                 /\ target' = [target EXCEPT ![h] = id]
                 /\ counts' = [counts EXCEPT ![id] = 1]
                 /\ phase' = [phase EXCEPT ![id] = "reserved"]
           \/ \E id \in Present, h \in Free :
                 /\ counts[id] # 0
                 /\ target' = [target EXCEPT ![h] = id]
                 /\ counts' = [counts EXCEPT ![id] = @ + 1]
                 /\ phase' = phase
           \/ \E h \in Handles :
                 /\ target[h] \in Ids /\ counts[target[h]] # 0
                 /\ target' = [target EXCEPT ![h] = NoEntity]
                 /\ counts' = [counts EXCEPT ![target[h]] = @ - 1]
                 /\ phase' = phase
<1>1. CASE MainStep
  <2>1. ASSUME NEW id \in Ids, NEW h \in Handles, Reserve(id, h)
        PROVE  /\ phase[id] = "unused" /\ h \in Free
               /\ target' = [target EXCEPT ![h] = id]
               /\ counts' = [counts EXCEPT ![id] = 1]
               /\ phase' = [phase EXCEPT ![id] = "reserved"]
      BY <2>1 DEF Reserve
  <2>2. \/ \E id \in Ids, h \in Handles : Reserve(id, h)
        \/ UNCHANGED <<target, counts>>
      BY <1>1 DEF MainStep, BeginBuild, Insert, Lease, EndLease, Read, ClearAccessed,
                  BeginFlush, TakeDropped, heap
  <2>3. QED
      BY <2>1, <2>2
<1>2. CASE \E t \in Threads : HandleStep(t)
  <2> PICK t \in Threads : HandleStep(t)
      BY <1>2
  <2>1. \/ \E n \in Handles : Clone(t, n) \/ UpgradeCas(t, n)
        \/ DropCount(t)
        \/ UNCHANGED <<target, counts>>
      BY DEF HandleStep, Move, BeginClone, BeginDrop, BeginUpgrade, PushDropped,
             UpgradeLoad, UpgradeRetry, heap
  <2>2. ASSUME NEW n \in Handles, Clone(t, n)
        PROVE  /\ tgt[t] \in Present /\ counts[tgt[t]] # 0 /\ n \in Free
               /\ target' = [target EXCEPT ![n] = tgt[t]]
               /\ counts' = [counts EXCEPT ![tgt[t]] = @ + 1]
               /\ phase' = phase
    <3>1. tgt[t] \in Ids /\ arg[t] \in Live(tgt[t])
        BY <2>2 DEF Clone, IInv, LocalsInv, Live
    <3>2. tgt[t] \in Present /\ counts[tgt[t]] # 0
        BY <3>1, CountZero DEF IInv, CountIsHandles
    <3>3. QED
        BY <2>2, <3>2 DEF Clone
  <2>3. ASSUME NEW n \in Handles, UpgradeCas(t, n)
        PROVE  /\ tgt[t] \in Present /\ counts[tgt[t]] # 0 /\ n \in Free
               /\ target' = [target EXCEPT ![n] = tgt[t]]
               /\ counts' = [counts EXCEPT ![tgt[t]] = @ + 1]
               /\ phase' = phase
      BY <2>3 DEF UpgradeCas, IInv, LocalsInv
  <2>4. ASSUME DropCount(t)
        PROVE  /\ arg[t] \in Handles /\ target[arg[t]] \in Ids
               /\ counts[target[arg[t]]] # 0
               /\ target' = [target EXCEPT ![arg[t]] = NoEntity]
               /\ counts' = [counts EXCEPT ![target[arg[t]]] = @ - 1]
               /\ phase' = phase
    <3>1. /\ tgt[t] \in Ids /\ arg[t] \in Handles /\ target[arg[t]] = tgt[t]
          /\ arg[t] \in Live(tgt[t])
        BY <2>4 DEF DropCount, IInv, LocalsInv, Live
    <3>2. tgt[t] \in Present /\ counts[tgt[t]] # 0
        BY <3>1, CountZero DEF IInv, CountIsHandles
    <3>3. QED
        BY <2>4, <3>1, <3>2 DEF DropCount
  <2>5. QED
      BY <2>1, <2>2, <2>3, <2>4
<1>3. CASE UNCHANGED vars
    BY <1>3 DEF vars, heap
<1>4. QED
    BY <1>1, <1>2, <1>3 DEF Next

\* A count that reached zero stays zero, so an upgrade that races with the
\* last drop cannot revive the entity.
THEOREM EntityNeverResurrected == Spec => NoResurrection
<1>1. ASSUME IInv, [Next]_vars, NEW id \in Ids, phase[id] # "unused", counts[id] = 0
      PROVE  counts'[id] = 0
    BY <1>1, StepShape DEF IInv, TypeOK, Present
<1>2. IInv /\ [Next]_vars =>
        [\A id \in Ids : phase[id] # "unused" /\ counts[id] = 0 => counts'[id] = 0]_vars
    BY <1>1
<1>3. QED
    BY Invariant, <1>2, PTL DEF Spec, NoResurrection

\* A step that leaves the handles alone creates no entity, and releases only
\* entities without handles.
LEMMA ReleaseShape ==
    ASSUME IInv, [Next]_vars, UNCHANGED <<target, counts>>
    PROVE  \/ \A id \in Ids : /\ phase'[id] = "unused" <=> phase[id] = "unused"
                              /\ phase'[id] = "removed" <=> phase[id] = "removed"
           \/ /\ \A id \in DroppedIds : id \in Ids /\ id \in Present /\ Live(id) = {}
              /\ \A id \in Ids : phase'[id] = IF id \in DroppedIds THEN "removed"
                                                                  ELSE phase[id]
<1>1. CASE MainStep
  <2>1. ASSUME NEW id \in Ids, NEW h \in Handles, Reserve(id, h)
        PROVE  FALSE
    <3>1. target'[h] = id /\ target[h] = NoEntity
        BY <2>1 DEF Reserve, Free, IInv, TypeOK
    <3>2. QED
        BY <3>1, NoEntityAssumption
  <2>2. ASSUME NEW id \in Ids, BeginBuild(id) \/ Insert(id)
        PROVE  \A i \in Ids : /\ phase'[i] = "unused" <=> phase[i] = "unused"
                              /\ phase'[i] = "removed" <=> phase[i] = "removed"
      BY <2>2 DEF BeginBuild, Insert, IInv, TypeOK
  <2>3. ASSUME TakeDropped
        PROVE  /\ \A id \in DroppedIds : id \in Ids /\ id \in Present /\ Live(id) = {}
               /\ \A id \in Ids : phase'[id] = IF id \in DroppedIds THEN "removed"
                                                                   ELSE phase[id]
    <3>1. \A id \in DroppedIds : id \in Present /\ id \in Ids /\ counts[id] = 0
        BY DEF IInv, StoreInv, ReleasePending, Present
    <3>2. QED
        BY <2>3, <3>1, CountZero DEF TakeDropped, IInv
  <2>4. \/ \E id \in Ids, h \in Handles : Reserve(id, h)
        \/ \E id \in Ids : BeginBuild(id) \/ Insert(id)
        \/ TakeDropped
        \/ phase' = phase
      BY <1>1 DEF MainStep, Lease, EndLease, Read, ClearAccessed, BeginFlush, heap
  <2>5. QED
      BY <2>1, <2>2, <2>3, <2>4
<1>2. CASE \E t \in Threads : HandleStep(t)
  <2>1. phase' = phase
      BY <1>2 DEF HandleStep, Move, BeginClone, Clone, BeginDrop, DropCount, BeginUpgrade,
                  PushDropped, UpgradeLoad, UpgradeRetry, UpgradeCas, heap
  <2>2. QED
      BY <2>1
<1>3. CASE UNCHANGED vars
    BY <1>3 DEF vars, heap
<1>4. QED
    BY <1>1, <1>2, <1>3 DEF Next

\* The locked, multi-step operations of the threads implement atomic shared
\* ownership: only an owner makes another owner, and an entity is released
\* once, after its last owner is gone.
THEOREM EntityMapRefinesOwnership == Spec => ImplementsOwnership
<1> DEFINE made == {id \in Ids : phase[id] # "unused"}
           held == [id \in Ids |-> Live(id)]
           released == {id \in Ids : phase[id] = "removed"}
<1>1. Init => Ownership!Init
    BY NoEntityAssumption DEF Init, Ownership!Init, Live
<1>2. ASSUME IInv, [Next]_vars PROVE [Ownership!Next]_Ownership!vars
  <2>1. CASE UNCHANGED <<target, counts>>
    <3>1. held' = held
        BY <2>1, LiveSame
    <3>2. CASE \A id \in Ids : /\ phase'[id] = "unused" <=> phase[id] = "unused"
                               /\ phase'[id] = "removed" <=> phase[id] = "removed"
      <4>1. made' = made /\ released' = released
          BY <3>2
      <4>2. QED
          BY <3>1, <4>1 DEF Ownership!vars
    <3>3. CASE /\ \A id \in DroppedIds : id \in Ids /\ id \in Present /\ Live(id) = {}
               /\ \A id \in Ids : phase'[id] = IF id \in DroppedIds THEN "removed"
                                                                   ELSE phase[id]
      <4>1. made' = made /\ released' = released \union DroppedIds
          BY <3>3 DEF Present
      <4>2. DroppedIds \subseteq made \ released /\ \A id \in DroppedIds : held[id] = {}
          BY <3>3 DEF Present
      <4>3. CASE DroppedIds = {}
          BY <3>1, <4>1, <4>3 DEF Ownership!vars
      <4>4. CASE DroppedIds # {}
        <5>1. DroppedIds \in SUBSET Ids
            BY <3>3
        <5>2. \E S \in SUBSET Ids :
                 /\ S # {} /\ S \subseteq made \ released
                 /\ \A id \in S : held[id] = {}
                 /\ released' = released \union S
                 /\ UNCHANGED <<made, held>>
            BY <3>1, <4>1, <4>2, <4>4, <5>1
        <5>3. \E S \in SUBSET Ids : Ownership!Release(S)
            BY <5>2 DEF Ownership!Release
        <5>4. QED
            BY <5>3, Zenon DEF Ownership!Next
      <4>5. QED
          BY <4>3, <4>4
    <3>4. QED
        BY <1>2, <2>1, <3>2, <3>3, ReleaseShape
  <2>2. ASSUME NEW id \in Ids, NEW h \in Handles,
               phase[id] = "unused", h \in Free,
               target' = [target EXCEPT ![h] = id],
               phase' = [phase EXCEPT ![id] = "reserved"]
        PROVE  Ownership!Next
    <3>1. \A i \in Ids : Live(i)' = IF i = id THEN Live(i) \union {h} ELSE Live(i)
        BY <1>2, <2>2, LiveAdd DEF IInv
    <3>2. Live(id) = {}
        BY <1>2, <2>2 DEF IInv, CountIsHandles, Present
    <3>3. held' = [held EXCEPT ![id] = {h}]
        BY <3>1, <3>2
    <3>4. made' = made \union {id} /\ id \notin made /\ released' = released
        BY <1>2, <2>2 DEF IInv, TypeOK
    <3>5. Ownership!Make(id, h)
        BY <3>3, <3>4 DEF Ownership!Make
    <3>6. QED
        BY <3>5 DEF Ownership!Next
  <2>3. ASSUME NEW id \in Present, NEW h \in Free, counts[id] # 0,
               target' = [target EXCEPT ![h] = id], phase' = phase
        PROVE  Ownership!Next
    <3>1. id \in Ids /\ h \in Handles /\ h \notin Live(id)
        BY NoEntityAssumption DEF Present, Free, Live
    <3>2. \A i \in Ids : Live(i)' = IF i = id THEN Live(i) \union {h} ELSE Live(i)
        BY <1>2, <2>3, <3>1, LiveAdd DEF IInv
    <3>3. Live(id) # {}
        BY <1>2, <2>3, <3>1, CountZero DEF IInv
    <3>4. held' = [held EXCEPT ![id] = @ \union {h}] /\ held[id] = Live(id)
        BY <3>1, <3>2
    <3>5. made' = made /\ released' = released
        BY <2>3
    <3>6. Ownership!Share(id, h)
        BY <3>1, <3>3, <3>4, <3>5 DEF Ownership!Share
    <3>7. QED
        BY <3>1, <3>6 DEF Ownership!Next
  <2>4. ASSUME NEW h \in Handles, target[h] \in Ids,
               target' = [target EXCEPT ![h] = NoEntity], phase' = phase
        PROVE  Ownership!Next
    <3>1. \A i \in Ids : Live(i)' = Live(i) \ {h}
        BY <1>2, <2>4, LiveRemove DEF IInv
    <3>2. h \in Live(target[h]) /\ \A i \in Ids : i # target[h] => h \notin Live(i)
        BY <2>4 DEF Live
    <3>3. /\ held' = [held EXCEPT ![target[h]] = @ \ {h}]
          /\ held[target[h]] = Live(target[h])
        BY <2>4, <3>1, <3>2
    <3>4. made' = made /\ released' = released
        BY <2>4
    <3>5. Ownership!Discard(target[h], h)
        BY <3>2, <3>3, <3>4 DEF Ownership!Discard
    <3>6. QED
        BY <2>4, <3>5 DEF Ownership!Next
  <2>5. QED
      BY <1>2, <2>1, <2>2, <2>3, <2>4, StepShape
<1>3. QED
    BY Invariant, <1>1, <1>2, PTL DEF Spec, ImplementsOwnership, Ownership!Spec

=============================================================================
