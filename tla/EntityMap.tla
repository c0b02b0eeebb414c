----------------------------- MODULE EntityMap ------------------------------
(***************************************************************************)
(* The entity map of an App (crates/gpui/src/app/entity_map.rs): reference *)
(* counted entities whose strong handles may be cloned, dropped and        *)
(* obtained from weak handles on any thread, while the main thread         *)
(* reserves, inserts, leases and finally releases the entities.            *)
(*                                                                         *)
(* ref_counts is a RwLock.  A thread that is inside a read section has a   *)
(* pc other than "idle" and "flush"; an upgradable section is one of the   *)
(* pcs in Upgradable.  A section that takes the write lock and does        *)
(* everything under it is one atomic step.                                 *)
(***************************************************************************)
EXTENDS Naturals, Sequences, FiniteSets

CONSTANTS
    Threads,    \* the threads that hold handles
    Main,       \* the thread that owns the App
    Ids,        \* entity ids; slot map keys are versioned, so never reused
    Handles,    \* identities of strong handles
    NoEntity,   \* the target of a handle that does not exist
    NoHandle    \* the argument of a thread that is not in Clone or Drop

ASSUME MainAssumption     == Main \in Threads
ASSUME HandlesAssumption  == IsFiniteSet(Handles)
ASSUME NoEntityAssumption == NoEntity \notin Ids
ASSUME NoHandleAssumption == NoHandle \notin Handles

VARIABLES
    phase,      \* the life of an id, from slot map vacancy to removal
    counts,     \* EntityRefCounts.counts
    dropped,    \* EntityRefCounts.dropped_entity_ids
    entities,   \* keys of EntityMap.entities
    leased,     \* ids whose entity is on the main thread's stack
    accessed,   \* EntityMap.accessed_entities
    target,     \* the entity each strong handle refers to
    owner,      \* the thread that owns each strong handle
    pc,         \* where each thread is inside Clone, Drop or upgrade
    arg,        \* the handle it clones or drops
    tgt,        \* the entity it works on
    seen,       \* the count it loaded in atomic_incr_if_not_zero
    panic       \* "none", or the assertion that failed

heap   == <<phase, counts, dropped, entities, leased, accessed>>
locals == <<pc, arg, tgt, seen>>
vars   == <<heap, target, owner, locals, panic>>

Phases == {"unused", "reserved", "building", "inserted", "removed"}
Upgradable == {"drop", "zero"}
PCs == {"idle", "flush", "clone", "load", "cas"} \union Upgradable
Panics == {"none", "over_release", "referenced", "double_lease"}

\* The ids that have a key in the counts slot map.
Present == {id \in Ids : phase[id] \in {"reserved", "building", "inserted"}}
\* The strong handles to an entity.
Live(id) == {h \in Handles : target[h] = id}
Free == {h \in Handles : target[h] = NoEntity}
OwnedBy(t, id) == {h \in Live(id) : owner[h] = t}

TypeOK ==
    /\ phase \in [Ids -> Phases]
    /\ counts \in [Ids -> Nat]
    /\ dropped \in Seq(Ids)
    /\ entities \subseteq Ids
    /\ leased \subseteq Ids
    /\ accessed \subseteq Ids
    /\ target \in [Handles -> Ids \union {NoEntity}]
    /\ owner \in [Handles -> Threads]
    /\ pc \in [Threads -> PCs]
    /\ arg \in [Threads -> Handles \union {NoHandle}]
    /\ tgt \in [Threads -> Ids \union {NoEntity}]
    /\ seen \in [Threads -> Nat]
    /\ panic \in Panics

Init ==
    /\ phase = [id \in Ids |-> "unused"]
    /\ counts = [id \in Ids |-> 0]
    /\ dropped = <<>>
    /\ entities = {} /\ leased = {} /\ accessed = {}
    /\ target = [h \in Handles |-> NoEntity]
    /\ owner = [h \in Handles |-> Main]
    /\ pc = [t \in Threads |-> "idle"]
    /\ arg = [t \in Threads |-> NoHandle]
    /\ tgt = [t \in Threads |-> NoEntity]
    /\ seen = [t \in Threads |-> 0]
    /\ panic = "none"

-----------------------------------------------------------------------------
(* The RwLock around EntityRefCounts.                                       *)

Idle(t) == panic = "none" /\ pc[t] = "idle"
\* A thread that waits for the write lock ("flush") is not inside.
Outside == {"idle", "flush"}
\* No thread holds the lock in any mode, so write() succeeds.
WriteFree == \A t \in Threads : pc[t] \in Outside
\* upgradable_read() shares the lock with readers, not with its own kind.
UpgradableFree == \A t \in Threads : pc[t] \notin Upgradable
\* RwLockUpgradableReadGuard::upgrade waits until the readers have left.
NoOtherReader(t) == \A u \in Threads \ {t} : pc[u] \in Outside

-----------------------------------------------------------------------------
(* Main thread: reserve, insert, lease, read, take_dropped.                 *)

\* A new Slot: a key with count 1 and its only handle.
Reserve(id, h) ==
    /\ Idle(Main) /\ WriteFree
    /\ phase[id] = "unused"
    /\ h \in Free
    /\ phase' = [phase EXCEPT ![id] = "reserved"]
    /\ counts' = [counts EXCEPT ![id] = 1]
    /\ target' = [target EXCEPT ![h] = id]
    /\ owner' = [owner EXCEPT ![h] = Main]
    /\ UNCHANGED <<dropped, entities, leased, accessed, locals, panic>>

\* App::new and insert_entity call build_entity with a weak handle to the
\* slot; from here on the entity can be upgraded before it is inserted.
BeginBuild(id) ==
    /\ Idle(Main)
    /\ phase[id] = "reserved"
    /\ OwnedBy(Main, id) # {}
    /\ phase' = [phase EXCEPT ![id] = "building"]
    /\ UNCHANGED <<counts, dropped, entities, leased, accessed, target, owner,
                   locals, panic>>

Insert(id) ==
    /\ Idle(Main)
    /\ phase[id] = "building"
    /\ phase' = [phase EXCEPT ![id] = "inserted"]
    /\ entities' = entities \union {id}
    /\ accessed' = accessed \union {id}
    /\ UNCHANGED <<counts, dropped, leased, target, owner, locals, panic>>

\* lease moves the entity to the stack; it panics when it is there already,
\* and when the entity is still being built.
Lease(id) ==
    /\ Idle(Main)
    /\ OwnedBy(Main, id) # {} /\ phase[id] # "reserved"
    /\ accessed' = accessed \union {id}
    /\ IF id \in entities
       THEN /\ entities' = entities \ {id}
            /\ leased' = leased \union {id}
            /\ UNCHANGED panic
       ELSE /\ panic' = "double_lease"
            /\ UNCHANGED <<entities, leased>>
    /\ UNCHANGED <<phase, counts, dropped, target, owner, locals>>

EndLease(id) ==
    /\ Idle(Main)
    /\ id \in leased
    /\ leased' = leased \ {id}
    /\ entities' = entities \union {id}
    /\ UNCHANGED <<phase, counts, dropped, accessed, target, owner, locals, panic>>

Read(id) ==
    /\ Idle(Main)
    /\ OwnedBy(Main, id) # {} /\ phase[id] # "reserved"
    /\ accessed' = accessed \union {id}
    /\ panic' = IF id \in entities THEN panic ELSE "double_lease"
    /\ UNCHANGED <<phase, counts, dropped, entities, leased, target, owner, locals>>

ClearAccessed ==
    /\ Idle(Main)
    /\ accessed' = {}
    /\ UNCHANGED <<phase, counts, dropped, entities, leased, target, owner,
                   locals, panic>>

\* Mutant: a flush in the middle of an update.
AnyTime == TRUE

\* Leases and builds live inside App::update, and finish_update flushes only
\* when the outermost update ends: take_dropped finds the stack empty.
OutsideUpdates == leased = {} /\ \A id \in Ids : phase[id] # "building"

DroppedIds == {dropped[i] : i \in 1..Len(dropped)}

\* flush_effects reaches release_dropped_entities and asks for the lock.
BeginFlush ==
    /\ Idle(Main) /\ OutsideUpdates
    /\ pc' = [pc EXCEPT ![Main] = "flush"]
    /\ UNCHANGED <<heap, target, owner, arg, tgt, seen, panic>>

TakeDropped ==
    /\ panic = "none" /\ pc[Main] = "flush"
    /\ WriteFree
    /\ dropped' = <<>>
    /\ phase' = [id \in Ids |-> IF id \in DroppedIds THEN "removed" ELSE phase[id]]
    /\ entities' = entities \ DroppedIds
    /\ accessed' = accessed \ DroppedIds
    /\ panic' = IF \A id \in DroppedIds : id \in Present /\ counts[id] = 0
                THEN panic ELSE "referenced"
    /\ pc' = [pc EXCEPT ![Main] = "idle"]
    /\ UNCHANGED <<counts, leased, target, owner, arg, tgt, seen>>

-----------------------------------------------------------------------------
(* Any thread: AnyEntity::clone, AnyEntity::drop, AnyWeakEntity::upgrade.   *)

\* A handle on the stack of App::new or insert_entity stays there.
Pinned(h) ==
    /\ owner[h] = Main /\ target[h] \in Ids
    /\ phase[target[h]] = "building"
    /\ OwnedBy(Main, target[h]) = {h}

\* The bound of the model: there is a handle left for each one being made.
HandleAvailable ==
    Cardinality(Free) > Cardinality({t \in Threads : pc[t] \in {"clone", "load", "cas"}})

\* The thread leaves the lock and returns.
Return(t) ==
    /\ pc' = [pc EXCEPT ![t] = "idle"]
    /\ arg' = [arg EXCEPT ![t] = NoHandle]
    /\ tgt' = [tgt EXCEPT ![t] = NoEntity]
    /\ seen' = [seen EXCEPT ![t] = 0]

Holds(t, h) == target[h] # NoEntity /\ owner[h] = t

\* Entity is Send: a handle travels to another thread inside a closure.
Move(t, u, h) ==
    /\ Idle(t) /\ t # u
    /\ Holds(t, h) /\ ~Pinned(h)
    /\ owner' = [owner EXCEPT ![h] = u]
    /\ UNCHANGED <<heap, target, locals, panic>>

BeginClone(t, h) ==
    /\ Idle(t) /\ Holds(t, h) /\ phase[target[h]] # "reserved"
    /\ HandleAvailable
    /\ pc' = [pc EXCEPT ![t] = "clone"]
    /\ arg' = [arg EXCEPT ![t] = h]
    /\ tgt' = [tgt EXCEPT ![t] = target[h]]
    /\ UNCHANGED <<heap, target, owner, seen, panic>>

\* fetch_add under the read lock; n is the new handle.
Clone(t, n) ==
    /\ panic = "none" /\ pc[t] = "clone"
    /\ n \in Free
    /\ IF tgt[t] \in Present /\ counts[tgt[t]] # 0
       THEN /\ target' = [target EXCEPT ![n] = tgt[t]]
            /\ owner' = [owner EXCEPT ![n] = t]
            /\ counts' = [counts EXCEPT ![tgt[t]] = @ + 1]
            /\ UNCHANGED panic
       ELSE /\ panic' = "over_release"
            /\ UNCHANGED <<target, owner, counts>>
    /\ Return(t)
    /\ UNCHANGED <<phase, dropped, entities, leased, accessed>>

BeginDrop(t, h) ==
    /\ Idle(t) /\ Holds(t, h) /\ ~Pinned(h)
    /\ UpgradableFree
    /\ pc' = [pc EXCEPT ![t] = "drop"]
    /\ arg' = [arg EXCEPT ![t] = h]
    /\ tgt' = [tgt EXCEPT ![t] = target[h]]
    /\ UNCHANGED <<heap, target, owner, seen, panic>>

\* Mutant: the previous value is tested as if it were the new one.
NoneLeft(t) == counts[tgt[t]] = 0

\* prev_count == 1: this was the last reference.
LastHandle(t) == counts[tgt[t]] = 1

\* fetch_sub under the upgradable lock; the last handle goes on to push.
DropCount(t) ==
    /\ panic = "none" /\ pc[t] = "drop"
    /\ IF tgt[t] \in Present /\ counts[tgt[t]] # 0
       THEN /\ target' = [target EXCEPT ![arg[t]] = NoEntity]
            /\ counts' = [counts EXCEPT ![tgt[t]] = @ - 1]
            /\ IF LastHandle(t)
               THEN pc' = [pc EXCEPT ![t] = "zero"] /\ UNCHANGED <<arg, tgt, seen>>
               ELSE Return(t)
            /\ UNCHANGED panic
       ELSE /\ panic' = "over_release"
            /\ UNCHANGED <<target, counts, locals>>
    /\ UNCHANGED <<phase, dropped, entities, leased, accessed, owner>>

\* The lock is upgraded and the id is queued for release.
PushDropped(t) ==
    /\ panic = "none" /\ pc[t] = "zero"
    /\ NoOtherReader(t)
    /\ dropped' = Append(dropped, tgt[t])
    /\ Return(t)
    /\ UNCHANGED <<phase, counts, entities, leased, accessed, target, owner, panic>>

\* A weak handle outlives the entity: upgrade may be called at any time after
\* the first downgrade.  Once the id is removed counts.get finds no key and
\* upgrade returns None without a step.
BeginUpgrade(t, id) ==
    /\ Idle(t)
    /\ phase[id] \in {"building", "inserted"}
    /\ HandleAvailable
    /\ pc' = [pc EXCEPT ![t] = "load"]
    /\ tgt' = [tgt EXCEPT ![t] = id]
    /\ UNCHANGED <<heap, target, owner, arg, seen, panic>>

\* Mutant: the count is incremented even when it is zero.
LoadedUnchecked(t) ==
    /\ pc' = [pc EXCEPT ![t] = "cas"]
    /\ seen' = [seen EXCEPT ![t] = counts[tgt[t]]]
    /\ UNCHANGED <<arg, tgt>>

\* atomic_incr_if_not_zero looks at the count it got: zero means None.
Loaded(t) ==
    IF counts[tgt[t]] = 0
    THEN Return(t)
    ELSE /\ pc' = [pc EXCEPT ![t] = "cas"]
         /\ seen' = [seen EXCEPT ![t] = counts[tgt[t]]]
         /\ UNCHANGED <<arg, tgt>>

\* Its first load.
UpgradeLoad(t) ==
    /\ panic = "none" /\ pc[t] = "load"
    /\ Loaded(t)
    /\ UNCHANGED <<heap, target, owner, panic>>

\* Mutant: a plain store of the loaded count plus one.
UpgradeStore(t, n) ==
    /\ panic = "none" /\ pc[t] = "cas"
    /\ n \in Free
    /\ counts' = [counts EXCEPT ![tgt[t]] = seen[t] + 1]
    /\ target' = [target EXCEPT ![n] = tgt[t]]
    /\ owner' = [owner EXCEPT ![n] = t]
    /\ Return(t)
    /\ UNCHANGED <<phase, dropped, entities, leased, accessed, panic>>

\* The compare_exchange_weak: it fails when another thread changed the count,
\* and may fail spuriously; the new handle n exists once it succeeded.
UpgradeCas(t, n) ==
    /\ panic = "none" /\ pc[t] = "cas"
    /\ n \in Free
    /\ counts[tgt[t]] = seen[t]
    /\ counts' = [counts EXCEPT ![tgt[t]] = @ + 1]
    /\ target' = [target EXCEPT ![n] = tgt[t]]
    /\ owner' = [owner EXCEPT ![n] = t]
    /\ Return(t)
    /\ UNCHANGED <<phase, dropped, entities, leased, accessed, panic>>

UpgradeRetry(t) ==
    /\ panic = "none" /\ pc[t] = "cas"
    /\ counts[tgt[t]] # seen[t]
    /\ Loaded(t)
    /\ UNCHANGED <<heap, target, owner, panic>>

-----------------------------------------------------------------------------
MainStep ==
    \/ \E id \in Ids :
          \/ \E h \in Handles : Reserve(id, h)
          \/ BeginBuild(id)
          \/ Insert(id)
          \/ Lease(id)
          \/ EndLease(id)
          \/ Read(id)
    \/ ClearAccessed
    \/ BeginFlush
    \/ TakeDropped

HandleStep(t) ==
    \/ \E h \in Handles :
          \/ \E u \in Threads : Move(t, u, h)
          \/ BeginClone(t, h)
          \/ Clone(t, h)
          \/ BeginDrop(t, h)
          \/ UpgradeCas(t, h)
    \/ \E id \in Ids : BeginUpgrade(t, id)
    \/ DropCount(t)
    \/ PushDropped(t)
    \/ UpgradeLoad(t)
    \/ UpgradeRetry(t)

Next == MainStep \/ \E t \in Threads : HandleStep(t)

Spec == Init /\ [][Next]_vars

\* A thread inside the lock is scheduled and its compare_exchange succeeds
\* again and again; a waiting writer keeps new readers out of a parking_lot
\* RwLock, so it is not starved; closures on the main thread return;
\* the outermost update ends again and again, and finish_update then flushes.
Fairness ==
    /\ \A t \in Threads :
          /\ WF_vars(DropCount(t)) /\ WF_vars(UpgradeLoad(t))
          /\ WF_vars(\E n \in Handles : Clone(t, n))
          /\ SF_vars(UpgradeRetry(t))
          /\ SF_vars(\E n \in Handles : UpgradeCas(t, n))
          /\ SF_vars(PushDropped(t))
    /\ \A id \in Ids : SF_vars(Insert(id)) /\ SF_vars(EndLease(id))
    /\ SF_vars(BeginFlush) /\ SF_vars(TakeDropped)

FairSpec == Spec /\ Fairness

-----------------------------------------------------------------------------
(* Properties.                                                              *)

\* The assertions of Clone, Drop and take_dropped ("Detected over-release of
\* a entity", "dropped an entity that was referenced") never fail, whatever
\* the threads do: only a re-entrant update can panic.
NoOverRelease == panic \notin {"over_release", "referenced"}

\* The count of an entity is the number of strong handles to it, and a handle
\* always refers to a key that is still in the slot map.
CountIsHandles ==
    \A id \in Ids :
        /\ counts[id] = Cardinality(Live(id))
        /\ Live(id) # {} => id \in Present

\* An entity whose last handle is gone is queued for release exactly once: it
\* is in dropped_entity_ids, or the thread that took the count to zero is
\* about to put it there.
ReleasePending ==
    /\ \A i, j \in 1..Len(dropped) : dropped[i] = dropped[j] => i = j
    /\ \A id \in Present :
          counts[id] = 0 <=> \/ id \in DroppedIds
                             \/ \E t \in Threads : pc[t] = "zero" /\ tgt[t] = id

\* What read and update look up through a strong handle is there: in the map,
\* on the stack, or not inserted yet.  Equally, nothing is kept in the map or
\* put back into it by end_lease after its id was removed.
HandleFindsEntity ==
    \A id \in Ids :
        /\ Live(id) # {} => \/ phase[id] \in {"reserved", "building"}
                            \/ id \in entities \union leased
        /\ id \in entities \union leased \union accessed => id \in Present

\* A count that reached zero stays zero: an upgrade that races with the last
\* drop never brings the entity back.
NoResurrection ==
    [][\A id \in Ids : phase[id] # "unused" /\ counts[id] = 0 => counts'[id] = 0]_vars

\* An entity without handles is eventually released by a flush.
EventuallyReleased ==
    \A id \in Ids : (id \in Present /\ counts[id] = 0) ~> (phase[id] = "removed" \/ panic # "none")

-----------------------------------------------------------------------------
(* The ownership discipline the map promises.                               *)

Ownership == INSTANCE EntityOwnership WITH
    made     <- {id \in Ids : phase[id] # "unused"},
    held     <- [id \in Ids |-> Live(id)],
    released <- {id \in Ids : phase[id] = "removed"}

\* The threads' locked and atomic steps implement atomic shared ownership.
ImplementsOwnership == Ownership!Spec

=============================================================================
