---------------------------- MODULE SubscriberSet ---------------------------
(***************************************************************************)
(* SubscriberSet and Subscription (crates/gpui/src/subscription.rs).       *)
(*                                                                         *)
(* A set is single threaded but re-entrant: retain runs callbacks while it *)
(* iterates, and a callback may insert, activate, drop subscriptions and   *)
(* start another retain.  Each retain (and each loop over what remove      *)
(* returned) is a frame on stack; cur is the subscriber whose callback is  *)
(* running, so that a program step is possible exactly when the stack is   *)
(* empty or the top frame has a callback running.                          *)
(*                                                                         *)
(* subscribers maps a key to an Option of a map.  An absent key and a None *)
(* (the value retain leaves behind) lead every operation to the same       *)
(* outcome, and a Some is never empty, so the model keeps for each key the *)
(* set of ids in its map; BTreeMap iterates in id order.                   *)
(***************************************************************************)
EXTENDS Naturals, Sequences, FiniteSets

CONSTANTS
    Keys,       \* emitter keys
    MaxSubs,    \* bound: subscribers ever inserted
    MaxDepth    \* bound: nested retains

ASSUME BoundsAssumption == MaxSubs \in Nat \ {0} /\ MaxDepth \in Nat \ {0}

VARIABLES
    next,       \* next_subscriber_id
    subs,       \* ids in the map of each key
    key,        \* emitter_key of each subscriber
    active,     \* Subscriber.active
    dropped,    \* Subscriber.dropped
    ended,      \* ids whose callback returned false, or that remove took from their map
    handle,     \* where the Subscription of each subscriber is
    owner,      \* the subscriber whose callback captured it, or 0
    stack,      \* the loops in progress, innermost first
    panic       \* the RefCell was borrowed twice

data == <<next, key, active, owner>>
vars == <<data, subs, dropped, ended, handle, stack, panic>>

Ids == 1..MaxSubs
Created == 1..(next - 1)
HandleStates == {"unused", "user", "captured", "detached", "gone"}
Frames == [kind : {"retain", "drain"}, key : Keys, todo : SUBSET Ids,
           kept : SUBSET Ids, cur : Ids \union {0}]
Least(S) == CHOOSE x \in S : \A y \in S : x <= y

TypeOK ==
    /\ next \in 1..(MaxSubs + 1)
    /\ subs \in [Keys -> SUBSET Ids]
    /\ key \in [Ids -> Keys]
    /\ active \in [Ids -> BOOLEAN] /\ dropped \in [Ids -> BOOLEAN]
    /\ ended \subseteq Ids
    /\ handle \in [Ids -> HandleStates]
    /\ owner \in [Ids -> Ids \union {0}]
    /\ stack \in Seq(Frames)
    /\ panic \in BOOLEAN

Init ==
    /\ next = 1
    /\ subs = [k \in Keys |-> {}]
    /\ key \in {[id \in Ids |-> k] : k \in Keys}
    /\ active = [id \in Ids |-> FALSE] /\ dropped = [id \in Ids |-> FALSE]
    /\ ended = {}
    /\ handle = [id \in Ids |-> "unused"]
    /\ owner = [id \in Ids |-> 0]
    /\ stack = <<>>
    /\ panic = FALSE

-----------------------------------------------------------------------------
\* The program runs: no loop is in progress, or a callback of the innermost is.
InProgram == ~panic /\ (stack # <<>> => Head(stack).cur # 0)
\* The innermost loop decides what to do next.
InLoop == ~panic /\ stack # <<>> /\ Head(stack).cur = 0

\* Subscriptions captured by the callbacks of S.
OwnedBy(S) == {id \in Created : handle[id] = "captured" /\ owner[id] \in S}

\* The subscriptions in U are dropped one after the other: unsubscribe sets
\* dropped and, if the map of the key is there, removes the subscriber from
\* it.  That destroys its callback while the RefCell is still borrowed, so a
\* callback that captured a subscription to this set borrows it again.
Unsubscribe(U) ==
    /\ dropped' = [id \in Ids |-> dropped[id] \/ id \in U]
    /\ subs' = [k \in Keys |-> subs[k] \ U]
    /\ handle' = [id \in Ids |-> IF id \in U THEN "gone" ELSE handle[id]]
    /\ panic' = (\E id \in U : id \in subs[key[id]] /\ OwnedBy({id}) # {})

\* The subscribers in S are destroyed outside of any borrow.
Destroy(S) == Unsubscribe(OwnedBy(S))

Keep == UNCHANGED <<subs, dropped, handle, panic>>

-----------------------------------------------------------------------------
(* Operations of the program, at top level or from inside a callback.       *)

\* post_inc(&mut lock.next_subscriber_id).
NewId == next

\* insert: a new inert subscriber; its callback captures the subscriptions C.
Insert(k, C) ==
    /\ InProgram /\ next <= MaxSubs
    /\ subs' = [subs EXCEPT ![k] = @ \union {NewId}]
    /\ key' = [key EXCEPT ![next] = k]
    /\ handle' = [id \in Ids |-> IF id = next THEN "user"
                                 ELSE IF id \in C THEN "captured" ELSE handle[id]]
    /\ owner' = [id \in Ids |-> IF id \in C THEN next ELSE owner[id]]
    /\ next' = next + 1
    /\ UNCHANGED <<active, dropped, ended, stack, panic>>

\* The second half of insert's result, called at once or by a deferred effect.
Activate(id) ==
    /\ InProgram /\ id \in Created /\ ~active[id]
    /\ active' = [active EXCEPT ![id] = TRUE]
    /\ UNCHANGED <<next, key, owner, subs, dropped, ended, handle, stack, panic>>

\* Subscription::drop.
Drop(id) ==
    /\ InProgram /\ handle[id] = "user"
    /\ Unsubscribe({id})
    /\ UNCHANGED <<data, ended, stack>>

\* Subscription::join, then drop: both unsubscribe closures run in order.
DropJoined(a, b) ==
    /\ InProgram /\ a # b /\ handle[a] = "user" /\ handle[b] = "user"
    /\ Unsubscribe({a, b})
    /\ UNCHANGED <<data, ended, stack>>

Detach(id) ==
    /\ InProgram /\ handle[id] = "user"
    /\ handle' = [handle EXCEPT ![id] = "detached"]
    /\ UNCHANGED <<data, subs, dropped, ended, stack, panic>>

Frame(kind, k) == [kind |-> kind, key |-> k, todo |-> subs[k], kept |-> {}, cur |-> 0]

\* retain takes the map of the key; without one it returns.
RetainBegin(k) ==
    /\ InProgram /\ Len(stack) < MaxDepth
    /\ subs[k] # {}
    /\ stack' = <<Frame("retain", k)>> \o stack
    /\ subs' = [subs EXCEPT ![k] = {}]
    /\ UNCHANGED <<data, dropped, ended, handle, panic>>

\* remove as release_dropped_entities uses it on observers and
\* event_listeners: the returned callbacks are destroyed, none is called.  A
\* flush does so between two effects, but a callback that shuts the app down
\* starts another flush.  What a retain of the key has taken out of the map is
\* out of reach of remove, and goes back under the key when the retain ends.
Remove(k) ==
    /\ InProgram
    /\ ended' = ended \union subs[k]
    /\ LET gone == OwnedBy(subs[k])
       IN  /\ dropped' = [id \in Ids |-> dropped[id] \/ id \in gone]
           /\ subs' = [j \in Keys |-> IF j = k THEN {} ELSE subs[j] \ gone]
           /\ handle' = [id \in Ids |-> IF id \in gone THEN "gone" ELSE handle[id]]
           /\ panic' = (\E id \in gone : /\ id \in subs[key[id]] /\ key[id] # k
                                         /\ OwnedBy({id}) # {})
    /\ UNCHANGED <<data, stack>>

-----------------------------------------------------------------------------
(* The body of retain.                                                      *)

\* Mutant: the flag is not looked at before the call.
CallsDropped(id) == active[id]

\* The subscriber is active and its subscription still exists.
Calls(id) == active[id] /\ ~dropped[id]

\* Whether the subscriber stays after its callback answered keep.
Stays(id, keep) == keep /\ ~dropped[id]

\* An inert subscriber stays, a dropped one goes, any other is called.
RetainNext ==
    /\ InLoop /\ Head(stack).kind = "retain" /\ Head(stack).todo # {}
    /\ LET f  == Head(stack)
           id == Least(f.todo)
       IN  /\ stack' = [stack EXCEPT ![1] =
                  IF Calls(id) THEN [f EXCEPT !.todo = @ \ {id}, !.cur = id]
                  ELSE [f EXCEPT !.todo = @ \ {id},
                                 !.kept = IF active[id] THEN @ ELSE @ \union {id}]]
           /\ IF Calls(id) \/ ~active[id] THEN Keep ELSE Destroy({id})
    /\ UNCHANGED <<data, ended>>

\* The callback returns; it stays if it said so and was not dropped meanwhile.
RetainReturn(keep) ==
    /\ ~panic /\ stack # <<>> /\ Head(stack).kind = "retain" /\ Head(stack).cur # 0
    /\ LET f  == Head(stack)
           id == f.cur
       IN  /\ stack' = [stack EXCEPT ![1] =
                  [f EXCEPT !.cur = 0,
                            !.kept = IF Stays(id, keep) THEN @ \union {id} ELSE @]]
           /\ ended' = IF keep THEN ended ELSE ended \union {id}
           /\ IF Stays(id, keep) THEN Keep ELSE Destroy({id})
    /\ UNCHANGED <<data>>

\* Mutant: the map is put back as it was taken, without the new subscribers.
PutBack(f) == f.kept

\* The subscribers inserted meanwhile are merged with the ones that stayed.
Merged(f) == f.kept \union subs[f.key]

RetainEnd ==
    /\ InLoop /\ Head(stack).kind = "retain" /\ Head(stack).todo = {}
    /\ LET f == Head(stack)
       IN  subs' = [subs EXCEPT ![f.key] = Merged(f)]
    /\ stack' = Tail(stack)
    /\ UNCHANGED <<data, dropped, ended, handle, panic>>

-----------------------------------------------------------------------------
(* The loop over remove's result: release listeners and quit observers are  *)
(* called one after the other, each is consumed by its call.                *)

DrainBegin(k) ==
    /\ InProgram /\ Len(stack) < MaxDepth
    /\ stack' = <<Frame("drain", k)>> \o stack
    /\ subs' = [subs EXCEPT ![k] = {}]
    /\ ended' = ended \union subs[k]
    /\ UNCHANGED <<data, dropped, handle, panic>>

\* The filter reads active only.
DrainNext ==
    /\ InLoop /\ Head(stack).kind = "drain" /\ Head(stack).todo # {}
    /\ LET f  == Head(stack)
           id == Least(f.todo)
       IN  /\ stack' = [stack EXCEPT ![1] =
                  [f EXCEPT !.todo = @ \ {id}, !.cur = IF active[id] THEN id ELSE 0]]
           /\ IF active[id] THEN Keep ELSE Destroy({id})
    /\ UNCHANGED <<data, ended>>

DrainReturn ==
    /\ ~panic /\ stack # <<>> /\ Head(stack).kind = "drain" /\ Head(stack).cur # 0
    /\ stack' = [stack EXCEPT ![1].cur = 0]
    /\ Destroy({Head(stack).cur})
    /\ UNCHANGED <<data, ended>>

DrainEnd ==
    /\ InLoop /\ Head(stack).kind = "drain" /\ Head(stack).todo = {}
    /\ stack' = Tail(stack)
    /\ UNCHANGED <<data, subs, dropped, ended, handle, panic>>

-----------------------------------------------------------------------------
Program ==
    \/ \E k \in Keys :
          \E C \in {{}} \union {{id} : id \in {i \in Created : handle[i] = "user"}} :
             Insert(k, C)
    \/ \E id \in Ids : Activate(id) \/ Drop(id) \/ Detach(id)
    \/ \E a, b \in Ids : DropJoined(a, b)

\* observers, event_listeners, global_observers and the window's sets.
RetainNextStep ==
    \/ Program
    \/ \E k \in Keys : RetainBegin(k) \/ Remove(k)
    \/ RetainNext
    \/ \E keep \in BOOLEAN : RetainReturn(keep)
    \/ RetainEnd

RetainSpec == Init /\ [][RetainNextStep]_vars

\* release_listeners and quit_observers, whose remove is iterated.
DrainNextStep ==
    \/ Program
    \/ \E k \in Keys : DrainBegin(k)
    \/ DrainNext
    \/ DrainReturn
    \/ DrainEnd

DrainSpec == Init /\ [][DrainNextStep]_vars

-----------------------------------------------------------------------------
(* Properties.                                                              *)

InFrame(i, id) ==
    LET f == stack[i] IN id \in f.todo \union f.kept \/ id = f.cur

\* A subscriber whose subscription was not dropped, that did not ask to go and
\* that no remove took is stored exactly once, however inserts, drops, removes
\* and nested retains interleave with the callbacks of a retain: none is lost
\* and none is called twice in a round.
NoSubscriberLost ==
    ~panic => \A id \in Created :
        ~dropped[id] /\ id \notin ended =>
            \/ /\ id \in subs[key[id]] /\ \A i \in 1..Len(stack) : ~InFrame(i, id)
            \/ /\ id \notin subs[key[id]]
               /\ Cardinality({i \in 1..Len(stack) : InFrame(i, id)}) = 1
               /\ \A i \in 1..Len(stack) : InFrame(i, id) => stack[i].key = key[id]

\* A step that starts the callback of a subscriber.
Starts(id) ==
    /\ stack # <<>> /\ Len(stack') = Len(stack)
    /\ Head(stack).cur = 0 /\ Head(stack').cur = id

\* "When dropped, the subscription is cancelled and the callback will no longer
\* be invoked": nor is one that is inert or that asked to be removed.
SilentAfterDrop ==
    [][\A id \in Ids : Starts(id) => active[id] /\ ~dropped[id] /\ id \notin ended]_vars

\* The same for a loop over what remove returned: no callback of a dropped
\* subscription is called.
SilentAfterDropInRemove == [][\A id \in Ids : Starts(id) => ~dropped[id]]_vars

\* The RefCell is not borrowed while it is borrowed: dropping a subscription
\* never panics.
NoDoubleBorrow == ~panic

=============================================================================
