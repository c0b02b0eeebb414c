----------------------------- MODULE AppEffects -----------------------------
(***************************************************************************)
(* The effect cycle of an App (crates/gpui/src/app.rs): nested updates,    *)
(* the queue of effects flushed when the outermost update ends, the        *)
(* subscribers called from that flush, and the release of entities.        *)
(*                                                                         *)
(* Everything runs on one thread, so the state of control is the call      *)
(* stack, its top frame first.  User code (an update closure or a          *)
(* callback) may make any call on the App, and so re-enter it; what it     *)
(* calls is left open.  SubscriberSet and EntityMap model the two          *)
(* collections used here in detail.                                        *)
(***************************************************************************)
EXTENDS Naturals, Sequences

CONSTANTS
    Entities,   \* entities that may be created
    Globals,    \* types of globals
    Windows,    \* windows open at the start
    None,       \* no entity, no window
    MaxSubs,    \* bound: subscriptions ever made
    MaxEvents,  \* bound: events ever emitted
    MaxOps      \* bound: calls that user code makes

ASSUME BoundsAssumption == MaxSubs \in Nat /\ MaxEvents \in Nat /\ MaxOps \in Nat
ASSUME KeysAssumption ==
    /\ Entities \intersect Globals = {} /\ Entities \intersect Windows = {}
    /\ None \notin Entities \union Globals \union Windows

VARIABLES
    pendingUpdates,         \* pending_updates
    flushingEffects,        \* flushing_effects
    pendingEffects,         \* pending_effects
    pendingNotifications,   \* pending_notifications and pending_global_notifications
    stack,                  \* the call stack, top first
    subs,                   \* observers, event_listeners, global_observers: by age
    life,                   \* of an entity: "none", "live", "dropped", "released"
    userHandle,             \* entities user code holds a handle of
    globals,                \* globals_by_type
    windows,                \* of a window: "open", "removed", "closed"
    events,                 \* events emitted
    ops,                    \* calls made by user code
    panicked,               \* an expect failed
    owed,                   \* active observers not called since their key was notified
    eventsOwed,             \* events not yet delivered to a listener that was subscribed
    announced               \* entities whose EntityCreated was applied

app == <<pendingUpdates, flushingEffects, pendingEffects, pendingNotifications>>
world == <<subs, life, userHandle, globals, windows, events>>
ghosts == <<owed, eventsOwed, announced>>
vars == <<app, stack, world, ops, panicked, ghosts>>

Keys == Entities \union Globals
Sub == [kind : {"observer", "listener"}, key : Keys, st : {"inactive", "active", "gone"}]

\* Effect::Notify and NotifyGlobalObservers, Emit, Defer (of an activation, of
\* user code) and EntityCreated.
Effect ==
    [k : {"notify"}, key : Keys]
      \union [k : {"emit"}, key : Entities, event : 1..MaxEvents]
      \union [k : {"activate"}, sub : 1..MaxSubs]
      \union [k : {"defer"}]
      \union [k : {"created"}, key : Entities, window : Windows \union {None}]

\* "update": the closure of update or update_window_id; "call": a callback;
\* "quit": quit observers in shutdown; key is the entity that the frame holds a
\* handle of.  "deliver": a retain, with the subscribers it took out of the set
\* and those it still has to visit;
\* "release": release_dropped_entities; "flush": flush_effects.
Frame ==
    [k : {"update"}, key : Entities \union {None}, window : Windows \union {None}]
      \union [k : {"call"}, key : Entities \union {None}]
      \union [k : {"quit"}]
      \union [k : {"deliver"}, key : Keys, event : 0..MaxEvents,
                taken : SUBSET (1..MaxSubs), rest : SUBSET (1..MaxSubs)]
      \union [k : {"release"}, rest : SUBSET Entities]
      \union [k : {"flush"}, by : {"update", "shutdown"}]

TypeOK ==
    /\ pendingUpdates \in Nat
    /\ flushingEffects \in BOOLEAN
    /\ pendingEffects \in Seq(Effect)
    /\ pendingNotifications \subseteq Keys
    /\ stack \in Seq(Frame)
    /\ subs \in Seq(Sub) /\ Len(subs) <= MaxSubs
    /\ life \in [Entities -> {"none", "live", "dropped", "released"}]
    /\ userHandle \subseteq Entities
    /\ globals \subseteq Globals
    /\ windows \in [Windows -> {"open", "removed", "closed"}]
    /\ events \in 0..MaxEvents
    /\ ops \in 0..MaxOps
    /\ panicked \in BOOLEAN
    /\ owed \subseteq DOMAIN subs
    /\ eventsOwed \subseteq (DOMAIN subs) \X (1..MaxEvents)
    /\ announced \subseteq Entities

Init ==
    /\ pendingUpdates = 0 /\ flushingEffects = FALSE
    /\ pendingEffects = <<>> /\ pendingNotifications = {}
    /\ stack = <<>> /\ subs = <<>>
    /\ life = [e \in Entities |-> "none"] /\ userHandle = {}
    /\ globals = {} /\ windows = [w \in Windows |-> "open"]
    /\ events = 0 /\ ops = 0 /\ panicked = FALSE
    /\ owed = {} /\ eventsOwed = {} /\ announced = {}

-----------------------------------------------------------------------------
Running(k) == stack # <<>> /\ Head(stack).k = k
InUserCode == Running("update") \/ Running("call") \/ Running("quit")
OnStack(w) == \E i \in DOMAIN stack : stack[i].k = "update" /\ stack[i].window = w
WindowFound(w) == windows[w] = "open" /\ ~OnStack(w)

\* window_update_stack.last().
CurrentWindow ==
    LET held == {i \in DOMAIN stack : stack[i].k = "update" /\ stack[i].window # None}
    IN  IF held = {} THEN None ELSE stack[CHOOSE i \in held : \A j \in held : i <= j].window

\* Mutant: EntityCreated has a weak handle.
HeldOutside(e) ==
    \/ e \in userHandle
    \/ \E i \in DOMAIN stack : stack[i].k \in {"update", "call"} /\ stack[i].key = e

\* A handle of e is left: in user code, in an EntityCreated effect or in a frame.
Held(e) ==
    \/ e \in userHandle
    \/ \E i \in DOMAIN pendingEffects :
          pendingEffects[i].k = "created" /\ pendingEffects[i].key = e
    \/ \E i \in DOMAIN stack : stack[i].k \in {"update", "call"} /\ stack[i].key = e

\* Dropping the last handle puts the entity on dropped_entity_ids.
CountHandles ==
    life' = [e \in Entities |-> IF life[e] = "live" /\ ~Held(e)' THEN "dropped" ELSE life[e]]

\* Some update is running: the updates that App::new and update_entity make by
\* themselves do not flush.  Otherwise they are a start_update of their own.
InUpdate == flushingEffects \/ pendingUpdates > 0

\* A call by user code.
Call == InUserCode /\ ops < MaxOps /\ ops' = ops + 1

Push(effect) == pendingEffects' = Append(pendingEffects, effect)

\* Mutant: every notification is queued.
PushAlways(key) ==
    /\ pendingNotifications' = pendingNotifications \union {key}
    /\ Push([k |-> "notify", key |-> key])

\* push_effect for Notify and NotifyGlobalObservers: one is pending at a time.
PushNotify(key) ==
    IF key \in pendingNotifications
    THEN UNCHANGED <<pendingNotifications, pendingEffects>>
    ELSE /\ pendingNotifications' = pendingNotifications \union {key}
         /\ Push([k |-> "notify", key |-> key])

Subscribed(kind, key) ==
    {s \in DOMAIN subs : subs[s].kind = kind /\ subs[s].key = key /\ subs[s].st # "gone"}

\* Subscribers that a retain on the stack has taken out of the set.
Taken == UNION {stack[i].taken : i \in {j \in DOMAIN stack : stack[j].k = "deliver"}}

-----------------------------------------------------------------------------
(* Calls made by user code.                                                 *)

\* Observers that the notification of key is for.
Notified(key) ==
    owed' = owed \union {s \in Subscribed("observer", key) : subs[s].st = "active"}

\* App::notify, outside of a draw.
notify(e) ==
    /\ Call /\ life[e] # "none"
    /\ PushNotify(e) /\ Notified(e)
    /\ UNCHANGED <<pendingUpdates, flushingEffects, stack, world, panicked, eventsOwed, announced>>

\* Mutant: events of one emitter are coalesced, as notifications are.
PushEventOnce(e) ==
    IF \E i \in DOMAIN pendingEffects :
          pendingEffects[i].k = "emit" /\ pendingEffects[i].key = e
    THEN UNCHANGED pendingEffects
    ELSE Push([k |-> "emit", key |-> e, event |-> events + 1])

\* Mutant: the newest event is delivered first.
PushEventFirst(e) ==
    pendingEffects' = <<[k |-> "emit", key |-> e, event |-> events + 1]>> \o pendingEffects

PushEvent(e) == Push([k |-> "emit", key |-> e, event |-> events + 1])

\* Context::emit; the Context exists only while somebody has a handle.
emit(e) ==
    /\ Call /\ InUpdate /\ Held(e) /\ events < MaxEvents
    /\ events' = events + 1
    /\ PushEvent(e)
    /\ eventsOwed' = eventsOwed \union (Subscribed("listener", e) \X {events + 1})
    /\ UNCHANGED <<pendingUpdates, flushingEffects, pendingNotifications, stack, subs, life,
                   userHandle, globals, windows, panicked, owed, announced>>

\* next_subscriber_id.
NextSub == Len(subs) + 1

\* insert into a set and defer the activation: inert until the effect is applied.
NewSubscription(kind, key) ==
    /\ Call /\ Len(subs) < MaxSubs
    /\ subs' = Append(subs, [kind |-> kind, key |-> key, st |-> "inactive"])
    /\ Push([k |-> "activate", sub |-> NextSub])
    /\ UNCHANGED <<pendingUpdates, flushingEffects, pendingNotifications, stack, life,
                   userHandle, globals, windows, events, panicked, ghosts>>

\* observe and subscribe are given a handle of the entity.
observe(e) == Held(e) /\ NewSubscription("observer", e)
subscribe(e) == Held(e) /\ NewSubscription("listener", e)
observe_global(g) == NewSubscription("observer", g)

Forget(S) ==
    /\ owed' = owed \ S
    /\ eventsOwed' = {x \in eventsOwed : x[1] \notin S}

Gone(S) == subs' = [s \in DOMAIN subs |-> IF s \in S THEN [subs[s] EXCEPT !.st = "gone"] ELSE subs[s]]

\* Subscription::drop.
unsubscribe(s) ==
    /\ Call /\ subs[s].st # "gone"
    /\ Gone({s}) /\ Forget({s})
    /\ UNCHANGED <<app, stack, life, userHandle, globals, windows, events, panicked, announced>>

\* App::new: the effect holds a handle and remembers the current window.
new(e) ==
    /\ Call /\ InUpdate /\ life[e] = "none"
    /\ life' = [life EXCEPT ![e] = "live"]
    /\ userHandle' = userHandle \union {e}
    /\ Push([k |-> "created", key |-> e, window |-> CurrentWindow])
    /\ UNCHANGED <<pendingUpdates, flushingEffects, pendingNotifications, stack, subs,
                   globals, windows, events, panicked, ghosts>>

dropHandle(e) ==
    /\ Call /\ e \in userHandle
    /\ userHandle' = userHandle \ {e}
    /\ UNCHANGED <<app, stack, subs, globals, windows, events, panicked, ghosts>>
    /\ CountHandles

\* A callback keeps a clone of the handle it was given.
keepHandle(e) ==
    /\ Call /\ Head(stack).k # "quit" /\ Head(stack).key = e /\ e \notin userHandle
    /\ userHandle' = userHandle \union {e}
    /\ UNCHANGED <<app, stack, subs, life, globals, windows, events, panicked, ghosts>>

\* App::defer.
defer ==
    /\ Call /\ Push([k |-> "defer"])
    /\ UNCHANGED <<pendingUpdates, flushingEffects, pendingNotifications, stack, world, panicked,
                   ghosts>>

\* set_global, global_mut, default_global, end_global_lease.
set_global(g) ==
    /\ Call /\ PushNotify(g) /\ Notified(g)
    /\ globals' = globals \union {g}
    /\ UNCHANGED <<pendingUpdates, flushingEffects, stack, subs, life, userHandle, windows,
                   events, panicked, eventsOwed, announced>>

remove_global(g) ==
    /\ Call /\ g \in globals
    /\ PushNotify(g) /\ Notified(g)
    /\ globals' = globals \ {g}
    /\ UNCHANGED <<pendingUpdates, flushingEffects, stack, subs, life, userHandle, windows,
                   events, panicked, eventsOwed, announced>>

\* Window::remove_window on the window of the running closure.
remove_window(w) ==
    /\ Call /\ Running("update") /\ Head(stack).window = w /\ windows[w] = "open"
    /\ windows' = [windows EXCEPT ![w] = "removed"]
    /\ UNCHANGED <<app, stack, subs, life, userHandle, globals, events, panicked, ghosts>>

UserCall ==
    \/ \E e \in Entities : notify(e) \/ emit(e) \/ new(e) \/ dropHandle(e) \/ keepHandle(e)
    \/ \E e \in Entities : observe(e) \/ subscribe(e)
    \/ \E s \in DOMAIN subs : unsubscribe(s)
    \/ defer
    \/ \E g \in Globals : observe_global(g) \/ set_global(g) \/ remove_global(g)
    \/ \E w \in Windows : remove_window(w)

-----------------------------------------------------------------------------
(* Updates.                                                                 *)

\* update and update_entity, called by the event loop or by user code.
start_update ==
    /\ ~panicked /\ (stack = <<>> \/ InUserCode) /\ ops < MaxOps /\ ops' = ops + 1
    /\ pendingUpdates' = pendingUpdates + 1
    /\ stack' = <<[k |-> "update", key |-> None, window |-> None]>> \o stack
    /\ UNCHANGED <<flushingEffects, pendingEffects, pendingNotifications, world, panicked, ghosts>>

\* update_window_id; it returns an error when the window is gone or on the stack.
update_window(w) ==
    /\ ~panicked /\ (stack = <<>> \/ InUserCode) /\ ops < MaxOps /\ ops' = ops + 1
    /\ WindowFound(w)
    /\ pendingUpdates' = pendingUpdates + 1
    /\ stack' = <<[k |-> "update", key |-> None, window |-> w]>> \o stack
    /\ UNCHANGED <<flushingEffects, pendingEffects, pendingNotifications, world, panicked, ghosts>>

\* The end of update_window_id for a window that was removed: it is closed, and
\* the window-closed observers run inside of the same update.
trail(w) ==
    /\ Running("update") /\ Head(stack).window = w /\ windows[w] = "removed"
    /\ windows' = [windows EXCEPT ![w] = "closed"]
    /\ stack' = <<[Head(stack) EXCEPT !.window = None]>> \o Tail(stack)
    /\ UNCHANGED <<app, subs, life, userHandle, globals, events, ops, panicked, ghosts>>

\* Mutant: nested updates flush too.
Nested == ~flushingEffects

\* Mutant: the count is compared after it was decremented.
OffByOne == ~flushingEffects /\ pendingUpdates = 0

\* finish_update's condition.
Outermost == ~flushingEffects /\ pendingUpdates = 1

\* finish_update; a window that was not removed is put back just before.
finish_update ==
    /\ Running("update")
    /\ Head(stack).window # None => windows[Head(stack).window] = "open"
    /\ IF Outermost
       THEN /\ flushingEffects' = TRUE
            /\ stack' = <<[k |-> "flush", by |-> "update"]>> \o Tail(stack)
            /\ UNCHANGED pendingUpdates
       ELSE /\ pendingUpdates' = pendingUpdates - 1
            /\ stack' = Tail(stack)
            /\ UNCHANGED flushingEffects
    /\ UNCHANGED <<pendingEffects, pendingNotifications, subs, userHandle, globals, windows, events,
                   ops, panicked, ghosts>>
    /\ CountHandles

\* shutdown, called by the platform's event loop: quit observers first.
shutdown ==
    /\ ~panicked /\ stack = <<>> /\ ops < MaxOps /\ ops' = ops + 1
    /\ stack' = <<[k |-> "quit"]>>
    /\ UNCHANGED <<app, world, panicked, ghosts>>

\* Then the windows are cleared and flush_effects is called as it is, without
\* flushing_effects and outside of an update.
shutdownFlush ==
    /\ Running("quit")
    /\ windows' = [w \in Windows |-> "closed"]
    /\ stack' = <<[k |-> "flush", by |-> "shutdown"]>>
    /\ UNCHANGED <<app, subs, life, userHandle, globals, events, ops, panicked, ghosts>>

-----------------------------------------------------------------------------
(* flush_effects.                                                           *)

Dropped == {e \in Entities : life[e] = "dropped"}

\* take_dropped, the whole batch at once.
take_dropped ==
    /\ Running("flush") /\ Dropped # {}
    /\ life' = [e \in Entities |-> IF life[e] = "dropped" THEN "released" ELSE life[e]]
    /\ stack' = <<[k |-> "release", rest |-> Dropped]>> \o stack
    /\ UNCHANGED <<app, subs, userHandle, globals, windows, events, ops, panicked, ghosts>>

\* One entity of the batch: its subscribers go, its release listeners run, and
\* what it owns is dropped.
release(e) ==
    /\ Running("release") /\ e \in Head(stack).rest
    /\ LET lost == (Subscribed("observer", e) \union Subscribed("listener", e)) \ Taken
       IN  Gone(lost) /\ Forget(lost)
    /\ stack' = <<[k |-> "call", key |-> None],
                  [k |-> "release", rest |-> Head(stack).rest \ {e}]>> \o Tail(stack)
    /\ UNCHANGED <<app, life, userHandle, globals, windows, events, ops, panicked, announced>>

released ==
    /\ Running("release") /\ Head(stack).rest = {}
    /\ stack' = Tail(stack)
    /\ UNCHANGED <<app, world, ops, panicked, ghosts>>

\* Between two effects everything dropped has been released.
Pop(k) ==
    /\ Running("flush") /\ Dropped = {}
    /\ pendingEffects # <<>> /\ Head(pendingEffects).k = k
    /\ pendingEffects' = Tail(pendingEffects)

\* Mutant: a notification stays pending while it is delivered.
ClearLate(key) == UNCHANGED pendingNotifications

\* A new notification is queued from here on.
ClearPending(key) == pendingNotifications' = pendingNotifications \ {key}

\* retain takes the subscribers that no other retain has.
Retain(kind, key, event) ==
    LET taken == Subscribed(kind, key) \ Taken
    IN  [k |-> "deliver", key |-> key, event |-> event, taken |-> taken, rest |-> taken]

\* apply_notify_effect and apply_notify_global_observers_effect.
apply_notify_effect ==
    /\ Pop("notify")
    /\ LET key == Head(pendingEffects).key
       IN  /\ ClearPending(key)
           /\ stack' = <<Retain("observer", key, 0)>> \o stack
    /\ UNCHANGED <<pendingUpdates, flushingEffects, world, ops, panicked, ghosts>>

apply_emit_effect ==
    /\ Pop("emit")
    /\ LET effect == Head(pendingEffects)
       IN  stack' = <<Retain("listener", effect.key, effect.event)>> \o stack
    /\ UNCHANGED <<pendingUpdates, flushingEffects, pendingNotifications, world, ops, panicked,
                   ghosts>>

\* apply_defer_effect: of an activation, or of user code.
activate ==
    /\ Pop("activate")
    /\ LET s == Head(pendingEffects).sub
       IN  subs' = [subs EXCEPT ![s].st = IF @ = "inactive" THEN "active" ELSE @]
    /\ UNCHANGED <<pendingUpdates, flushingEffects, pendingNotifications, stack, life, userHandle,
                   globals, windows, events, ops, panicked, ghosts>>

apply_defer_effect ==
    /\ Pop("defer")
    /\ stack' = <<[k |-> "call", key |-> None]>> \o stack
    /\ UNCHANGED <<pendingUpdates, flushingEffects, pendingNotifications, world, ops, panicked,
                   ghosts>>

\* apply_entity_created_effect, with one observer of the type.  It runs in the
\* window of the creation, which the expect takes to be there.
apply_entity_created_effect ==
    /\ Pop("created")
    /\ LET effect == Head(pendingEffects)
       IN  \/ /\ effect.window = None
              /\ stack' = <<[k |-> "call", key |-> effect.key]>> \o stack
              /\ announced' = announced \union {effect.key}
              /\ UNCHANGED <<pendingUpdates, panicked>>
           \/ /\ effect.window # None /\ WindowFound(effect.window)
              /\ pendingUpdates' = pendingUpdates + 1
              /\ stack' = <<[k |-> "update", key |-> effect.key,
                             window |-> effect.window]>> \o stack
              /\ announced' = announced \union {effect.key}
              /\ UNCHANGED panicked
           \/ /\ effect.window # None /\ ~WindowFound(effect.window)
              /\ panicked' = TRUE /\ stack' = <<>>
              /\ UNCHANGED <<pendingUpdates, announced>>
    /\ UNCHANGED <<flushingEffects, pendingNotifications, subs, userHandle, globals, windows, events,
                   ops, owed, eventsOwed>>
    /\ CountHandles

\* Nothing is left: back to finish_update, or to shutdown.
flushed ==
    /\ Running("flush") /\ Dropped = {} /\ pendingEffects = <<>>
    /\ stack' = Tail(stack)
    /\ IF Head(stack).by = "update"
       THEN flushingEffects' = FALSE /\ pendingUpdates' = pendingUpdates - 1
       ELSE UNCHANGED <<flushingEffects, pendingUpdates>>
    /\ UNCHANGED <<pendingEffects, pendingNotifications, world, ops, panicked, ghosts>>

-----------------------------------------------------------------------------
(* retain, one subscriber at a time, oldest first.                          *)

IsNext(s) ==
    /\ Running("deliver") /\ s \in Head(stack).rest
    /\ \A t \in Head(stack).rest : s <= t

WithoutNext(s) == <<[Head(stack) EXCEPT !.rest = @ \ {s}]>> \o Tail(stack)

\* A handler of an entity's key upgrades its weak handle first.
Upgradable(key) == key \in Entities => life[key] = "live"

\* The callback runs; it is given a handle of the entity.
callSubscriber(s) ==
    /\ IsNext(s) /\ subs[s].st = "active" /\ Upgradable(Head(stack).key)
    /\ LET key == IF Head(stack).key \in Entities THEN Head(stack).key ELSE None
       IN  stack' = <<[k |-> "call", key |-> key]>> \o WithoutNext(s)
    /\ IF Head(stack).event = 0
       THEN owed' = owed \ {s} /\ UNCHANGED eventsOwed
       ELSE eventsOwed' = eventsOwed \ {<<s, Head(stack).event>>} /\ UNCHANGED owed
    /\ UNCHANGED <<app, world, ops, panicked, announced>>

\* The handler found its entity gone and returned false.
expireSubscriber(s) ==
    /\ IsNext(s) /\ subs[s].st = "active" /\ ~Upgradable(Head(stack).key)
    /\ Gone({s}) /\ Forget({s})
    /\ stack' = WithoutNext(s)
    /\ UNCHANGED <<app, life, userHandle, globals, windows, events, ops, panicked, announced>>

\* Inert or unsubscribed meanwhile.
skipSubscriber(s) ==
    /\ IsNext(s) /\ subs[s].st # "active"
    /\ stack' = WithoutNext(s)
    /\ UNCHANGED <<app, world, ops, panicked, ghosts>>

delivered ==
    /\ Running("deliver") /\ Head(stack).rest = {}
    /\ stack' = Tail(stack)
    /\ UNCHANGED <<app, world, ops, panicked, ghosts>>

\* A callback returns and its handle is dropped.
return ==
    /\ Running("call")
    /\ stack' = Tail(stack)
    /\ UNCHANGED <<app, subs, userHandle, globals, windows, events, ops, panicked, ghosts>>
    /\ CountHandles

-----------------------------------------------------------------------------
Flush ==
    \/ take_dropped \/ (\E e \in Entities : release(e)) \/ released
    \/ apply_notify_effect \/ apply_emit_effect \/ activate \/ apply_defer_effect
    \/ apply_entity_created_effect \/ flushed
    \/ \E s \in DOMAIN subs : callSubscriber(s) \/ expireSubscriber(s) \/ skipSubscriber(s)
    \/ delivered \/ return

Updates ==
    \/ start_update \/ finish_update
    \/ \E w \in Windows : update_window(w) \/ trail(w)

\* The application rests, or a panic ended it.
Rest == stack = <<>> /\ (ops = MaxOps \/ panicked) /\ UNCHANGED vars

Next == UserCall \/ Updates \/ Flush \/ Rest
Spec == Init /\ [][Next]_vars

ShutdownNext == Next \/ shutdown \/ shutdownFlush
ShutdownSpec == Init /\ [][ShutdownNext]_vars

-----------------------------------------------------------------------------
(* Properties.                                                              *)

\* The set that suppresses duplicate notifications and the queue agree, and no
\* key is queued twice, whatever is notified while a notification is delivered.
PendingExact ==
    LET queued == {i \in DOMAIN pendingEffects : pendingEffects[i].k = "notify"}
    IN  /\ pendingNotifications = {pendingEffects[i].key : i \in queued}
        /\ \A i, j \in queued : pendingEffects[i].key = pendingEffects[j].key => i = j

\* A subscriber is still to be visited by the delivery of event (0: notify).
ToVisit(s, event) ==
    \E i \in DOMAIN stack :
        stack[i].k = "deliver" /\ stack[i].event = event /\ s \in stack[i].rest

\* An active observer of a key that was notified is called afterwards, unless it
\* is unsubscribed or its entity released: until then a notification is queued
\* or the observer is still to be visited, though notifications are coalesced.
NoNotificationLost ==
    \A s \in owed :
        \/ \E i \in DOMAIN pendingEffects :
              pendingEffects[i].k = "notify" /\ pendingEffects[i].key = subs[s].key
        \/ ToVisit(s, 0)

\* The same for events, and for listeners that were subscribed but inert when
\* the event was emitted.
NoEventLost ==
    \A x \in eventsOwed :
        \/ \E i \in DOMAIN pendingEffects :
              pendingEffects[i].k = "emit" /\ pendingEffects[i].event = x[2]
        \/ ToVisit(x[1], x[2])

\* A listener gets the events in the order in which they were emitted.
EventsInOrder ==
    [][\A x \in eventsOwed \ eventsOwed' :
          subs'[x[1]].st # "gone" => \A y \in eventsOwed : y[1] = x[1] => y[2] >= x[2]]_vars

\* flush_effects runs only when the outermost update ends: there is nothing
\* below it on the stack, so it is not re-entered and no closure is suspended.
FlushIsOutermost ==
    \A i \in DOMAIN stack : stack[i].k = "flush" => i = Len(stack)

\* When the outermost update has returned, no effect and no dropped entity is
\* left behind and the counters are back.
SettledAtRest ==
    stack = <<>> /\ ~panicked =>
        /\ pendingEffects = <<>> /\ Dropped = {}
        /\ pendingUpdates = 0 /\ ~flushingEffects

\* The observers of new entities see an entity before its release listeners do,
\* even if its last handle is dropped in the update that creates it.
AnnouncedBeforeReleased ==
    panicked \/ \A e \in Entities : life[e] \in {"dropped", "released"} => e \in announced

\* "All windows should be off the stack when flushing effects."
NoPanic == ~panicked

=============================================================================
