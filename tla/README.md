# A TLA+ development for gpui (the zui repository)

The repository is gpui, a UI framework in Rust, with the crates it needs. An
application owns one `App` on its main thread. Its state lives in *entities*,
which the App stores and user code reaches through reference-counted handles.
User code changes entities inside *updates*; what it does there queues
*effects*, and when the outermost update ends the effects are flushed: observers
and listeners are called, entities without handles are released, windows are
drawn. Futures become runnables that a scheduler sends to worker threads or back
to the main thread.

This directory models the parts of it whose correctness depends on an order of
steps: threads around a lock, callbacks that re-enter the collection that calls
them, effects that cause effects, changes made while a window is drawn, key input
with a timeout, frames that are requested and paused, and the scheduler that runs
every test. Paths below are relative to `src/crates/`.

## Inventory

| Component | State | Operations | Interacts with | What is hard | What makes it correct |
|---|---|---|---|---|---|
| Entity map (`gpui/src/app/entity_map.rs`) | slot map of counts, queue of dropped ids, stored entities, lease | `reserve`, `insert`, `lease`, `end_lease`, `read`, `take_dropped`; `clone`, `drop`, `upgrade` of handles on any thread | App leases an entity for each update and takes the dropped ones in each flush | the last drop races with clones and weak upgrades; a decrement and the push to the queue are two steps under an upgradable read lock | exact counts, one release for each entity, never before the last handle is gone, no resurrection |
| Subscriptions (`gpui/src/subscription.rs`) | map from emitter to subscribers, `active` and `dropped` flags | `insert`, activation, `remove`, `retain`, drop, `detach`, `join` | App and Window call `retain` from effects | callbacks re-enter while the subscribers are taken out of the set; destructors run inside a borrow | nobody lost or doubled; no call after unsubscribing; no double borrow |
| Effect cycle (`gpui/src/app.rs`, `app/context.rs`) | `pending_effects`, `pending_notifications`, `pending_updates`, `flushing_effects` | `update`, `push_effect`, `flush_effects`, `apply_*_effect`, `release_dropped_entities`, `update_window_id`, `shutdown` | all of the above | re-entrance at any depth, coalescing, deferred activation, windows that disappear | one flush at the outermost level; nothing lost; queue and coalescing set agree |
| Priority queue (`gpui/src/queue.rs`) | three FIFO queues under a mutex, two atomic counts, condvar | `send`, `pop`, `try_pop`, iterators, clone, drop | dispatchers on Linux, Windows and web | lost wake-ups, counts read outside the mutex, random choice with shrinking mass | FIFO for each priority, no lost wake-up, `pop` finds an item |
| Linux dispatcher (`gpui_linux/src/linux/dispatcher.rs`) | worker threads, main-thread queue with a ping, timer thread | `dispatch`, `dispatch_on_main_thread`, `process_events` | event loop | push and ping are two steps, so are the ping and the decrement of a drop | every runnable runs; closed when, and only when, the sender is gone |
| Test scheduler (`scheduler/src/test_scheduler.rs`) and executors | runnables with their sessions, timers, clock, blocked sessions, `is_main_thread` | `schedule_*`, `timer`, `tick`, `run`, `advance_clock`, `drain_tasks`, `block`, `park` | executors in tests; wakers, also of other threads | random choice, operations nested in the tasks they run, timeouts, parking | order within a session, no step of a blocked session, timers when due, no lost wake-up, every operation ends |
| Drawing a window (`gpui/src/window.rs`, `view.rs`) | two frames, dirty views, invalidator, accessed and tracked entities, focus | `draw`, `invalidate_view`, `refresh`, `focus`, `blur`, reuse of cached views | App's `notify` and flush; the platform's frames | changes made during a draw, cached elements inside cached elements, focus listeners that move the focus, focus handles counted outside of the App | every notification the window hears of is drawn; listeners know the focus; no focus on a released handle |
| Key input (`gpui/src/window.rs`, `key_dispatch.rs`) | pending keystrokes, their focus and timer | `dispatch_key_event`, `dispatch_key`, `replay_prefix`, `flush_dispatch`, `focus` | keymap; user code in actions and listeners | a timer racing the next key, replays that move the focus | each keystroke once, in order, in its focus; a complete binding does not wait for ever |
| Keymap (`gpui/src/keymap.rs`, `keymap/`) | bindings by age, predicates | `bindings_for_input`, `bindings_for_action`, `add_bindings` | key input, menus | disabling bindings, depth against age, `is_superset` | agreement with the rules in its comments |
| Frame source of macOS (`gpui_macos/src/display_link.rs`, `window.rs`) | one display link for each display, subscribers, request latch of each window | `subscribe`, `unsubscribe`, start, stop, restart after sleep, `request_frame`, pause | AppKit events, the output thread, the frame callback of `gpui::Window` | shared links, failed starts, sleep, requests that race with a pause, notifications after a window was dropped | a link runs iff somebody subscribes, work always has frames coming, an idle window stops, a deallocated one is unreachable |
| Element tree, lists, text, bounds tree, `sum_tree` | trees and tables | sequential algorithms | Window | boundary cases of the data | agreement with a simple definition |
| Other platform backends, renderers, HTTP, macros, utilities | external | I/O, generated code | | | |

`PROJECT.json` lists every component with its state of modelling, every hazard
at its line, and for each definition the lines it stands for.

## Modules

| Module | Models | Role |
|---|---|---|
| `EntityMap` | entity map and handles, threads around the lock | detailed specification |
| `EntityOwnership` | shared ownership: make, share, discard, release | what the entity map promises; `EntityMap` implements it |
| `EntityMapProofs` | | theorems about `EntityMap` |
| `SubscriberSet` | subscriber set and subscriptions, re-entrant callbacks | detailed specification |
| `SubscriberSetProofs` | | theorems about `SubscriberSet` |
| `AppEffects` | updates, effects, deliveries, releases, shutdown | composes the promises of the two above |
| `AppEffectsProofs` | | theorems about `AppEffects` |
| `PriorityPick` | the weighted choice of `pop_inner` | pure operators, used by the next two |
| `PriorityQueue` | the queue, its senders and workers | detailed specification |
| `PriorityQueueProofs` | | theorems about `PriorityPick`, `PriorityQueue` and `CalloopQueue` |
| `CalloopQueue` | the main-thread queue of Linux, with its ping | detailed specification |
| `TestScheduler` | the scheduler of tests, its call stack and its wakers | detailed specification |
| `TestSchedulerProofs` | | theorems about `TestScheduler` |
| `Keymap` | predicates, precedence and disabling of key bindings | pure operators, used by the next one |
| `KeyDispatch` | key input of a window over its keymap | detailed specification |
| `KeyDispatchProofs` | | theorems about `KeyDispatch` and `Keymap` |
| `WindowDraw` | drawing, caching, invalidation and focus of a window | detailed specification |
| `WindowDrawProofs` | | theorems about `WindowDraw` |
| `DisplayLink` | frame source of macOS and the frame callback of the window | detailed specification |
| `DisplayLinkProofs` | | theorems about `DisplayLink` |
| `MC*` | | sets of model values for TLC |

Definitions whose comment begins with "Mutant" are deliberately wrong variants
of the definition that follows them. No specification uses them; they show that
the properties can fail.

### EntityMap

`counts`, `dropped`, `entities` and `accessed` are the fields of the same names;
`leased` holds ids whose value is on the main thread's stack; `phase` is the life
of an id (slot map keys are versioned, so an id is used once). A strong handle is
an identity with a `target` and an owning thread, so "the count is the number of
handles" can be stated. `pc`, `arg`, `tgt` and `seen` are a thread's position and
locals inside `clone`, `drop` and `upgrade`. The lock is not a variable: which
sections are occupied follows from `pc`. A section under the write lock is one
step; sections under a read lock are as many steps as they have atomic
operations, so `fetch_sub` and the push to `dropped_entity_ids` are separate, and
so are the load and the `compare_exchange` of `atomic_incr_if_not_zero`.
`Relaxed`, `SeqCst` and so on are read as sequentially consistent: each count is
a single atomic location, and everything else is under the lock.

Updates appear as two facts taken from `AppEffects`: an entity under
construction or on lease means that an update runs (`OutsideUpdates`), and
`take_dropped` is called outside. The main thread leases and reads only entities
of which it has a handle; leasing twice is the `double_lease_panic` of the code
and stops the model. `extend_accessed`, the leak detector and handles that
outlive their map are not modelled.

### SubscriberSet

A `retain`, or a loop over what `remove` returned, is a frame with the
subscribers still to visit, the ones that stay and the one whose callback runs.
Program steps (insert, activate, drop, join, detach, remove, another retain)
happen at top level or inside a callback, at any depth up to `MaxDepth`. A callback may
own a subscription of the same set, and destroying it drops that subscription;
`panic` is the second borrow of the `RefCell`. `RetainSpec` is how `observers`,
`event_listeners` and the other sets are used; `DrainSpec` is how
`release_listeners` and `quit_observers` are.

A flush removes the subscribers of a released entity between two effects, but a
callback that shuts the app down starts another flush, so `Remove` may happen in
the middle of a `retain`, of the same key too. It destroys what is in the map;
what the `retain` has taken out is not there and is put back when it ends.

### AppEffects

Everything runs on the main thread, so the state of control is the call stack:
frames for update closures, callbacks, a `retain` in progress, the release of a
batch of entities, `flush_effects`, and the quit observers of `shutdown`. User
code makes any call in any order. Observers, listeners and global observers are
one sequence of subscriptions by age; the effects are the queue of the code, with
a deferred activation told apart from a deferred callback. `owed`, `hoped`,
`eventsOwed` and `announced` are history variables: who has to be called, and
which new entities were shown to their observers.

What is assumed or left open: one `observe_new` observer for each type; user
code runs inside an update or in a quit observer (the callback that
`Application::run` invokes before any update is not modelled); `App::new` and
`Context::emit` make an update of their own in the code, which inside a running
update changes nothing, so they are calls there and `start_update` followed by
the call elsewhere; entities of one released batch are visited in any order;
handles are dropped on the main thread (other threads belong to `EntityMap`);
a global on lease is there and `end_global_lease` is a `set_global`;
`notify` is called outside of a draw (`WindowDraw` has the rest). Left out are
`RefreshWindows`, waiting for the futures of quit observers, the observers of
keyboard layout and thermal state, which the platform calls outside of any
update, and `insert_entity` of a reservation (`app.rs:2633`), which announces no
`EntityCreated`.

### PriorityQueue and PriorityPick

`PriorityPick` says which priorities `pop_inner` can return (`Pickable`: the coin
may come up either way unless the odds are 0 or 1), whether it may fall through
to `None` (`MayFindNothing`) and whether every call of `random_ratio` has a
numerator within its denominator (`RatioInRange`). `PriorityQueue` has the
sender's two steps (the receiver count is read before the mutex is taken) and a
receiver's states around the condvar. `parking_lot`'s condvar has no spurious
wake-ups, and `notify_one` chooses any parked thread. `try_pop` returning `None`
changes nothing and so is no step.

### CalloopQueue

Items are counted only. A send is a push and a ping; dropping the
`PriorityQueueCalloopSender` is the ping of its `Drop` and then the drop of its
`sender` field, which decrements the count; the loop reads the ping, drains,
calls back (a callback may send) and decides between "ping again" and
`Event::Closed`.

### TestScheduler

One thread runs everything, and its operations call each other: `block` steps a
task, the task calls `advance_clock`, which runs a task that blocks. So the state
has the call stack, one frame for each operation that has not returned, and only
the top frame moves. `step_filtered` is an operator that the operations share: it
drops the expired timers (each drop wakes a future, which schedules a task or
sets a block's `awoken`) or runs one candidate. A future is reduced to the one
event it awaits - the end of a task, a timer, or `Io`, which another thread
completes. Random choices are nondeterminism: the insertion index among
`insertion_indices`, the candidate, the coin in `block`, the number of ticks.
`Spawn`, `timer`, `block`, `tick`, `StartRun`, `StartAdvance`, `StartDrain` and
`SetParking` are the calls user code can make; `Await`, `YieldNow` and `Finish`
end a poll. `park` follows the real clock: an interval moves `now` by any amount
within `MaxNow`, and its deadline and the limit of 15 seconds may pass at any
time. A wake-up by another thread sets `unparked` and `awoken` in one step; in
between a block could see only the first, which `park` looks at.

### Keymap and KeyDispatch

`Keymap` has the algorithms as operators over a sequence of bindings. Predicates
are trees from a set that is closed under parts and of bounded nesting;
`eval_inner` is a recursive function of a predicate and a slice of the context
stack (it takes prefixes and rests of it), `Supersets` one of two predicates. Of
the loops of `bindings_for_input`, the one over the matched bindings is a
function of the number of rounds, the one over the pending bindings a fold.
`flush_dispatch` and `dispatch_key` are recursive functions of the keystrokes that
are left, which are suffixes of the input. `KeyDispatch` has one
window's `pending_input`, the timer tasks that exist (a timer is dropped with the
pending input that owns it, and which one is dropped when is the point), and
`call`, the rest of a `dispatch_key_event` or of a timer's flush, because each
replayed keystroke runs user code that may move the focus. So do the keystroke
interceptors, which run after the dispatch path was computed and before the
pending input is taken: `DispatchKeyEvent` has the focus they leave, and whether
they called `focus`, which clears the pending input, as parameters
(`Intercepted`). Keystrokes carry their number and whether the focus was `moved`
since the dispatch of the one before ended, so that order and focus can be
stated; a move away and back counts. The two properties of the keymap depend on
the keymap alone and are evaluated before the first key, when every keymap is
already reached. An event that an interceptor stops does not reach the pending
input and does not count as typed; what its interceptors do to the focus is
`Focus` or `Blur`. The dispatch path is the context stack of the focus when the key arrives.
A handler that itself calls `Window::dispatch_keystroke` in the middle of a
dispatch is not modelled.

### WindowDraw

The root view is rendered in each draw, the others are cached elements. Rendering
a view is user code: it reads any entities and shows any of its children, and
may call `notify`. `open` is the stack of views being rendered; a cached view is
inside of another one when the stack is longer, which is what
`window.refreshing = true` in `ViewElement::prepaint` expresses. `cache` and
`next_cache` are the `accessed_entities` of the element states of the two frames.
After the frames are swapped the phases "lost", "focus" and "done" are the
focus-lost listeners, the focus listeners, and the case without listeners; user
code moves the focus in the first two. Every view has one focus handle, which
tracks focus on its element. The window is drawn when it is dirty, which relies
on `DisplayLink`. `owed`, `heard` and `due` remember the notifications since a
view was rendered: those outside of a draw, those of which the window was told at
any time, and those outside of a draw of which it was told. Two assumptions: a
view is shown in one place (`Parent`; the code keeps one node for each view, so
a view inside of two cached ones is not covered), and rendering does not move the
focus. Layout, paint, hit testing and mouse input are left out, and so are
further windows that show the same entity.

### DisplayLink

`links` is the registry: for each display the subscribers, the flag `running`,
and the state of the CVDisplayLink itself (`ticking`, and `stopping` while a last
output callback may follow a stop). `frame_requested` is the latch of a window's
frame requester, `restarts` its queued restart tasks, `signalled` the dispatch
sources with a frame to deliver, `failed` the windows whose last start failed.
`status` follows a window from open through `MacWindow`'s drop and the close of
the native window to its deallocation. `frame` is the frame callback of
`gpui::Window` in progress, cut where user code runs (next-frame callbacks and
the draw). Steps of the main thread happen when no frame is in progress; the
output callback runs on its own thread at any time. The displays sleep and wake;
links stop ticking in between without anybody being told. Left out: an error of
`link.stop()`, which the code logs (`display_link.rs:236`), and `display_layer`
after the drop, which like the restart task can subscribe a window again. A
window that is dropped before its first frame source existed loses its latch in
the model; in the code it keeps it, so that a restart task that is already queued
subscribes the window, as one that is queued by a later notification does in both.

## Runs

| Run | Instance | Shows |
|---|---|---|
| `entity_map` | 1 id, 3 handles, 2 threads; 5 800 states | `CountIsHandles`, `HandleFindsEntity`, `NoOverRelease`: counts are exact, a handle finds its entity, no assertion about over-release fails; `ImplementsOwnership`: the map implements `EntityOwnership`, so nothing is released early or resurrected; `EventuallyReleased`: an entity without handles is released |
| `subscriber_set` | 2 keys, 3 subscribers, 2 nested retains; 103 000 states | `NoSubscriberLost`, `SilentAfterDrop`: subscribers are stored exactly once, whatever is inserted, dropped and removed during a `retain`, and are silent after a drop |
| `subscriber_drain` | `DrainSpec` | *violated*: a loop over `remove` calls a subscriber dropped meanwhile |
| `priority_queue` | 2 senders, 3 receivers, 3 items; 65 000 states | `FifoPerPriority`, `NoLostWakeup`, `EveryItemReceived`: items of a priority leave in order, no wake-up is lost, every item is received, low priorities too |
| `calloop_queue` | 2 senders and the loop, 3 items | `EveryRunnableDelivered`, `ClosedIsFinal`: no ping is lost, the source closes only when drained and without a sender |
| `app_effects` | 1 entity, 2 subscriptions, 2 events, 9 calls; 530 000 states | `NoNotificationLost`, `NoEventLost`, `EventsInOrder`, `FlushIsOutermost`: coalescing loses nothing, events stay in order, a flush runs at the outermost level |
| `app_effects_shutdown` | 2 entities, a global, a window, 6 calls, with `shutdown`; 240 000 states | `PendingExact`, `SettledAtRest`, `AnnouncedBeforeReleased`: the coalescing set agrees with the queue, nothing is left at rest and new entities are announced before they are released, although windows disappear and `shutdown` flushes outside of an update |
| `test_scheduler` | 2 tasks, 2 sessions and the background, 1 timer, 4 calls, 4 frames; 454 000 states | `SessionOrder`: a session's runnables keep their order; `NestingIsTransparent`: a blocked session is silent and `is_main_thread` is right; `TimersOnTime`: a timer is never early and `advance_clock` leaves nothing due; `GivesUpOnlyWhenStuck`, `OperationsReturn`: no wake-up is lost, every operation returns or panics, the latter only when stuck |
| `key_dispatch` | 2 keys, 2 focuses, keymaps of up to 3 bindings, 3 keystrokes; 352 000 states | `KeystrokesInOrder`, `OneFocus`: keystrokes are dispatched or discarded once and in order, and none joins keystrokes that a move of the focus parts from it; `TimeoutIsFresh`: a timer flushes what it was started for; `CompleteBindingResolves`; `MatchFollowsPrecedence`, `HiddenNeverFires`: in every keymap reached the loops agree with the rules of precedence, and what `bindings_for_action` hides never fires |
| `window_draw` | a root and two nested cached views, 2 calls; 171 000 states | `NoInvalidationLost`, `NextDrawRenders`, `NotifiedIsRedrawn`: no notification the window is told of is lost, and a view of which it is told outside of a draw is rendered in the next draw that shows it, which comes; `ListenersKnowFocus`: focus listeners know the focus, also when one of them moves it; `FocusIsKnown`: the focused handle is in the map |
| `window_recycled` | a root and one cached view, 3 calls | *violated*: a view is recycled although it was notified |
| `display_link` | 2 windows, 2 displays, 3 calls or events; 286 000 states | `LinkRunsIffSubscribed`; `WorkHasFrames`: requests are served and work has frames coming; `GoneIsUnreachable`: deallocated windows are; `DirtyIsPresented`, `IdleStops`: dirty windows are presented, idle ones stop |

Every module has a type invariant `TypeOK`, which documents its variables. It is
proved for every module and part of no run; the same holds for
`ReleasePending`, `NoResurrection`, `PopFindsItem` and `RegistryAgrees`, which
the theorems below state for all instances.

### Bounds, and why they are enough

- `EntityMap`: a race needs a thread that drops the last handle and one that
  clones or upgrades; three handles let the count be 0, 1, 2 and 3. Entities have
  nothing in common but the lock and the queue, so one id shows the races; that
  ids do not disturb each other is part of the theorems, which hold for every set
  of ids and every finite set of handles.
- `SubscriberSet`: three subscribers allow a visited, a current and a waiting
  one, and one inserted meanwhile; two nested retains let the inner one see what
  the outer one took.
- `PriorityQueue`: three receivers so that one is parked, one notified and one
  on its way; three items so that all priorities, or one priority three times,
  can be queued. `CalloopQueue`: two senders on either side of a drain.
- `AppEffects`: `MaxOps` bounds the calls of user code, and so depth and queue.
  Two subscriptions allow an observer and a listener, or two of one kind where
  one drops the other; nine calls are create, subscribe twice, notify, nested
  updates, and notify again from inside the delivery.
- `TestScheduler`: four frames are a block or loop, a task, an operation that the
  task calls and a task of that; four calls are two spawns, or a spawn and a
  timer, and two nested operations. Two tasks compete within a session or
  between two, one of which may be blocked. `MaxNow` 1 and duration 1 let a timer
  expire at the target of an `advance_clock`, before it and after it. With
  `TimeoutTicks` 1 a block gives up after one poll; more ticks repeat it.
- `KeyDispatch`: three keystrokes are a pending one, one that continues and one
  that breaks the sequence. The bindings are `a`, `a b` and `a b a`, and their
  disabling by `NoAction` (of the user and of the base keymap) and by `Unbind`,
  with the predicates `workspace`, `editor`, `workspace > editor` and none, so
  `MaxHeight` is 1; the contexts of the two focuses have depth one and two. The
  invariants are proved for all bindings, predicates and contexts.
- `WindowDraw`: a view inside of a cached view is the case in which a dirty view
  hides. Draws are not counted, so two calls meet in one draw, in consecutive ones
  and across any number of them. Longer histories, in which a view is tracked,
  recycled untracked and tracked again, need more calls: the invariants are proved
  for every number of them, and the run, `NotifiedIsRedrawn` included, also passes
  with five calls and one cached view (486 000 states).
- `DisplayLink`: two windows share a display or not and move between two; the
  counted steps are those of user code, AppKit and the displays (a window starts
  hidden, so showing it is one of them), while frames, tasks and callbacks run
  freely. The invariants are proved for every number of windows, displays and
  calls.

Keys of `SubscriberSet` are symmetric. No other run uses symmetry: it would not
be sound with liveness, or the values are ordered by age.

### Deadlock

`EntityMap`, `SubscriberSet`, `PriorityQueue` and `CalloopQueue` may stop: their
bounds are used up, a model panic ended the program, or the workers ended or wait
for ever with nothing to do. `WindowDraw` and `DisplayLink` stop when all calls
are made and everything is drawn. Their configurations say
`CHECK_DEADLOCK FALSE`; the liveness properties cover progress. `AppEffects` is
checked for deadlock: it may stop only in `Rest`, with an empty stack and all
calls made (or after a panic), so every frame can always be left. So is
`TestScheduler`, which may stop only when the test has ended or panicked, and
`KeyDispatch`, where the program can always go on.

### Fairness

- `EntityMap`: a thread inside `clone`, `drop` or `upgrade` continues. What waits
  for the lock has strong fairness, because readers come and go and
  `parking_lot`'s lock is eventually fair (it hands the lock over to a waiter that
  has waited for long). Closures of updates end, and the main thread flushes again
  and again: the event loop keeps running updates.
- `PriorityQueue`: threads continue, a started send finishes, and each priority
  that could be chosen infinitely often is chosen: the choice is made by a random
  generator with positive odds for each non-empty queue.
- `CalloopQueue`: threads that started to send or drop finish, and the loop runs.
- `TestScheduler`: the scheduler's thread continues, polls of tasks end, the coin
  of `block` comes up some time if it is tossed for ever (strong fairness, since a
  toss may go the other way), and the deadline of `park` passes: it is real time.
- `KeyDispatch`: a dispatch that began goes on, and a timer that is not dropped
  elapses.
- `WindowDraw`: a dirty window is drawn, and a draw that began ends. The first is
  what `DirtyIsPresented` of `DisplayLink` says of visible windows.
- `DisplayLink`: a ticking link keeps calling back, the main thread continues a
  frame that began and runs its queued tasks, a dropped window is closed and
  deallocated in the end (strong fairness: frames of other windows come in
  between), and high-rate input ends. Displays need not wake and starts may fail
  for ever, so the properties except sleep and windows whose start failed.

User actions (sends, drops, updates, keys, notifications) have no fairness in any
module.

## Theorems

Proved with TLAPS for every value of the constants under the named assumptions
of the modules.

**EntityMap** (`EntityMapProofs`). Assumptions: `Main` is a thread, `Handles` is
finite, the two null values are not in their sets.

- `EntityMapSafety`, `CountsExact`, `HandlesFindEntities`: types,
  `CountIsHandles`, `ReleasePending`, `HandleFindsEntity`, `NoOverRelease`.
- `EntityNeverResurrected`: `NoResurrection`.
- `EntityMapRefinesOwnership`: the specification implements `EntityOwnership`,
  where `held[id]` is the set of handles whose target is `id`.

The inductive invariant `IInv` adds two parts. `LocalsInv` ties each thread's
locals to its position: a thread in `clone` or `drop` owns a handle of the entity
it works on, one in "zero" works on an entity with count 0 that is not yet queued,
and no two threads are in an upgradable section. Without it one could not exclude
that two threads queue the same entity. `StoreInv` ties `phase` to the stored,
leased and accessed ids. The counting step is about cardinalities: lemmas
`LiveAdd` and `LiveRemove` say how one handle more or less changes the set of
handles of every entity. Refinement follows from `StepShape` and `ReleaseShape`,
which say that a step changes at most one handle, or removes a batch.

**PriorityQueue** (`PriorityQueueProofs`). Assumptions: the sets of threads are
finite, `MaxItems` is a natural number.

- `PickTotal`: for all queues that are not all empty, the weighted choice ends
  with an item and never compares a weight with a smaller mass. The argument is a
  case split over which queues are empty: when the last non-empty queue is
  reached, the mass is its own weight.
- `PriorityQueueSafety`: types, `NoLostWakeup` and `PopFindsItem`.
- `QueueIsFifo`: `FifoPerPriority`. `History(p)` is what was received of a
  priority followed by what is queued: a pop moves the border and leaves the
  history as it is (`MoveHead`), a push appends a number greater than all of it
  (`Rising`), and every number sent is in some history (`Complete`).

`NoLostWakeup` is inductive once it counts: while anybody is parked, there are at
least as many notified receivers as queued items. The plain statement ("an item
and a parked receiver imply a notified one") is not: two pushes and one woken
receiver break it. `SendBound` (items sent and about to be sent stay within
`MaxItems`) is needed for types only. Why it holds: a push adds an item and, while
anybody is parked, a notified receiver; a receiver that takes an item removes at
most one of each; a receiver parks only when nothing is queued.

**DisplayLink** (`DisplayLinkProofs`). Assumptions: the null value is neither a
display nor a frame; `MaxOps` is a natural number. Windows and displays are any
sets.

- `TypeCorrect`, `RegistryCorrect`, `LinksCorrect`, `RequestsCorrect`,
  `WorkCorrect`, `GoneCorrect`: `TypeOK`, `RegistryAgrees`,
  `LinkRunsIffSubscribed`, `RequestIsServed`, `WorkHasFrames`, `GoneIsUnreachable`.

`Invariant` proves `IInv`, which is needed because none of them is inductive but
`RequestIsServed`. `Registry` adds to `RegistryAgrees` that a link's flag says
whether it has subscribers, and that a link with subscribers ticks unless the
displays sleep or a restart is queued: the start of a link looks at the flag and
not at the link. `Alive` says that a deallocated window has no registration, no
signal and no frame in progress; a window may subscribe again after its drop, so
the same of every window that is not open would not hold.
`WorkRequested` strengthens `WorkHasFrames` by the latch: a visible
window with work is subscribed, or its latch is set, or its start failed, or it
is in a synchronous frame that will start it. With `RequestIsServed` the latch
means a source or a queued restart. The proof has a lemma for each helper of the
registry (`subscribe`, `unsubscribe`, `start_display_link`, `stop_display_link`)
and a step for each action.

**CalloopQueue** (in `PriorityQueueProofs`, as the instance `Calloop`).
Assumptions: the loop is not a sender, `MaxItems` is a natural number.

- `RunnablesAccounted`: types, and what was sent is what was delivered and what
  is queued.
- `ClosedCorrect`: `ClosedIsFinal`. `delivered = sent` is not inductive by itself:
  it follows from `RunnablesAccounted` and from `ClosedForGood`, that the sender is
  "dropped" and the queues are empty once the source is closed, which no later step
  changes because only a sender that is alive pushes.

**SubscriberSet** (`SubscriberSetProofs`, for `RetainSpec`). Assumptions: the
bounds are positive. Keys are any set.

- `RetainTypeCorrect`, `OnePlace`: types and `IInv`.
- `SubscribersKept`, `DroppedIsSilent`: `NoSubscriberLost` and the action property
  `SilentAfterDrop`.

`IInv` is about places. A map or a frame of a `retain` (`todo`, `kept`, the
current one) holds subscribers of its own key that were not ended (`MapsInv`,
`FramesInv`), no two of them hold the same one (`Apart`), and a subscriber that
was neither dropped nor ended is in one of them (`SomewhereInv`). `Apart` is what
makes the merge at the end of a `retain` sound, when callbacks have inserted under
the same key and nested retains have come and gone.

**AppEffects** (`AppEffectsProofs`). Assumptions: entities, globals and windows
are told apart and the null value is none of them; the bounds are natural
numbers. `FlagsDescribeStack`, `NothingLeftAtRest`, `NotificationsExact` and
`AnnouncedFirst` are about `ShutdownSpec`, of which `Spec` is a part
(`SpecImpliesShutdownSpec`); the others are about `Spec` and false with a shutdown.

- `FlagsDescribeStack`: types and `StackInv`: `pending_updates` is the number of
  updates on the stack, `flushing_effects` says that one of them flushes.
- `NothingLeftAtRest`, `NotificationsExact`, `AnnouncedFirst`: `SettledAtRest`,
  `PendingExact`, `AnnouncedBeforeReleased`. The first looks at the step that
  leaves the last frame, the second is inductive (`PendingInv` is the same key by
  key), the third needs that an unannounced entity has its `EntityCreated` effect
  in the queue, whose handle keeps it from being released (`CreatedInv`).
- `FlushOutermost`: `FlushIsOutermost`, from `Shape`: the stack is updates only,
  or a flush, at most one delivery, release or effect on it, and callbacks with
  their updates above.
- `NotificationsKept`: `NoNotificationLost`. An observer that is owed a call
  (`OwedInv`: it is active) has its notification queued, or is still to be visited
  by the delivery in progress. `Shape` excludes a second delivery in which it
  would be missed.
- `EventsKept`: `NoEventLost`. An inert listener has its activation in the queue
  before the event (`Promised`, `InertInv`), so it is active when the event is
  delivered.
- `EventsOrdered`: the action property `EventsInOrder`. The queue is in the order
  of emission and behind the event being delivered (`OrderInv`), of which there is
  one (`OneDelivery`).

**WindowDraw** (`WindowDrawProofs`). Assumptions: the tree of views
(`TreeAssumption`: `Ancestors` is what `Parent` says), the null value is not an
entity, `MaxOps` is a natural number.

- `TypeCorrect`: `TypeOK`.
- `InvalidationsKept`: `NoInvalidationLost`. It says something between draws; in
  the middle of one, `HeardInv` says that a view with a notification is marked for
  the next frame, or is not yet in this one and marked with its ancestors, so that
  it will not be reused.
- `FocusKnown`, `ListenersInformed`: `FocusIsKnown` and `ListenersKnowFocus`, with
  the invariant `FocusInv` that follows the focus from the frame being built
  (`NextFocusInv`) to the frame on the screen (`ShownInv`) and to what the
  listeners were told (`ToldInv`).
- `NextDrawSuffices`: `NextDrawRenders`. By `DueInv`, while a frame is built a view
  of whose notification the window was told before is not in it and is marked with
  the views around it, so that no cached element brings it into the frame: only
  rendering it does, and that settles the notification.

**TestScheduler** (`TestSchedulerProofs`). Assumptions: tasks and timers are
finite disjoint sets of numbers, `Io`, `Background` and the null value are told
apart from them, durations are natural numbers and timeouts positive.

- `TypeCorrect`: `TypeOK`.
- `SessionsAreFifo`: `SessionOrder`. `OrderInv` has, for each session, the list of
  the positions of its runnables, which an insertion shifts and an extraction
  shortens; that insertion happens behind the session's last runnable and
  extraction at its first is what keeps the list sorted.
- `NestingTransparent`: `NestingIsTransparent`. `BlockedInv` says that
  `blocked_sessions` lists the blocks of the stack from the outside in, so that the
  `pop` of a returning block removes its own session; `NestedInv` that nothing above
  a block belongs to its session; `ThreadInv` that every task on the stack
  remembers the value of `is_main_thread` that is right for the code it interrupted.
- `GivesUpCorrectly`: `GivesUpOnlyWhenStuck`. `OneWaiter` says that an event is
  awaited by one task or block, so the waker that is called is the right one.
  `WakeInv` says what a block knows in each phase (`Knows`): after its poll a
  completion shows in `awoken`, after the swap it can only come from another
  thread and then shows in `unparked`, and a step that did no work leaves no
  candidate.
- `TimersAreOnTime`: the action property `TimersOnTime`. The pending timers are
  sorted and have the expirations they were created with (`SortedInv`), and what
  a step takes out has expired (`ElapsedInv`).

All theorems about `TestScheduler` rest on `StackMoves`: each step lets the
operation at the top go on, call something or return, and touches a frame below
only to wake a block.

**KeyDispatch and Keymap** (`KeyDispatchProofs`). Assumptions: predicates are
finite trees (`PredicateAssumption`), context stacks are sequences, bindings have
keystrokes and a predicate in use (`KeyAssumption`), and `None` is neither a
pending input nor a dispatch (`NoneAssumption`).

- `KeyTypes`, `KeystrokesInOrderHolds`: `TypeOK` and `KeystrokesInOrder`, from
  `OrderInv`: the replays, the input of the dispatch and the pending keystrokes
  are consecutive pieces of the numbers from `accounted + 1` to `typed`, each
  piece beginning where the one before it ends (`InOrder`). What the functions
  return is cut into such pieces: `FlushPieces`, `DispatchPieces`.
- `OneFocusHolds`: `OneFocus`. `FocusInv` says that between two dispatches the
  focus is the one the pending input remembers, unless it was moved; then `blur`
  moved it, because `focus` would have cleared the pending input, and an input
  that remembers a handle is forgotten in a window without a focus. That a
  dispatch cuts its input only into pieces whose keystrokes belong together
  follows from `FlushPieces` and `DispatchPieces` (`PiecesTogether`).
- `TimeoutIsFreshHolds`: the action property `TimeoutIsFresh`. By `TimerInv`, at
  rest the only timer is the one that the pending input names, and it was started
  for the pending keystrokes.
- `MatchFollowsPrecedenceHolds`: `MatchFollowsPrecedence`. Bindings can be sorted
  by precedence in one way (`CanSort`, `SortedIsOrder`), and after each round the
  loop has found, in order, the bindings visited so far that none before them
  disables (`FoundAfter`, `RoundFinds`, `LoopFinds`). The property asks for the
  inputs of one or two keystrokes; lemma `InputFollows` holds for any.
- `HiddenNeverFiresHolds`: `HiddenNeverFires`, if `DisablingIsPositive`: no
  disabling binding has a `!` in its predicate. A predicate without `!` that holds
  on a slice of the context stack holds on the longer ones with the same end
  (`PositiveKeeps`); hence what `is_superset` claims of it is true at the same
  depth (`PositiveSound`), and the disabling binding has precedence
  (`HiddenPrecedes`). With `!` the statement is false, see below. `MCKeyDispatch`
  assumes the hypothesis, so TLC evaluates it on the instance of the run.

`eval_inner`, `is_superset`, `flush_dispatch`, `dispatch_key` and the loop of
`bindings_for_input` are recursive functions. For each a lemma (`EvalRecursion`,
`SupersetRecursion`, `FlushRecursion`, `DispatchRecursion`, `VisitedRecursion`)
says that the function satisfies its own equation: `RecursiveFunction` shows that
a function exists whenever its body looks only at smaller arguments, with
induction as a fact about sets of naturals (`LeastNat`, `NatInduct`).

The invariants above were checked by TLC on the instances of the runs before
they were proved.

### Model-checked only

- Liveness (`EventuallyReleased`, `EveryItemReceived`, `EveryRunnableDelivered`,
  `OperationsReturn`, `CompleteBindingResolves`, `NotifiedIsRedrawn`,
  `DirtyIsPresented`, `IdleStops`) is outside of what the prover does.
- What `pending` of `bindings_for_input` is (`PendingKeys`, a fold of the community
  modules) is not proved about: the theorems on `KeyDispatch` hold for either
  answer.

## Where code and text disagree

Two runs are expected to fail. Each states a sentence of a comment, and the
counterexample is a behaviour of the code.

1. `subscriber_drain`, `subscription.rs:100`: `remove` filters on `active` only. A
   release listener or quit observer whose subscription an earlier listener of the
   same loop dropped is still called (`retain` looks at `dropped`, `remove` does
   not).
2. `window_recycled`, `app.rs:1074`: a cached element remembers only the entities
   that were accessed first inside of it. If its view was read earlier in the same
   draw and is not read in the next one, which reuses the element, the window no
   longer tracks the view; a later `notify` of it does not reach the window, and
   the view is recycled although it changed.

The modules have further definitions of this kind. None is part of a run; adding
one to the configuration named here makes TLC print the counterexample.

| Definition | Configuration | What the code does |
|---|---|---|
| `SubscriberSet!NoDoubleBorrow` | `SubscriberSet.cfg` | `subscription.rs:79`: a callback is destroyed while the `RefCell` is borrowed; if it owns a subscription of the same set, the drop panics |
| `CalloopQueue!ClosedAfterDrop` | `CalloopQueue.cfg` | `dispatcher.rs:182`: `Drop` pings before the count goes down, so the loop may look too early and is not woken again |
| `AppEffects!NoPanic` | `AppEffectsShutdown.cfg` | `app.rs:1743`: the window remembered by `EntityCreated` may be gone |
| `TestScheduler!StuckBlockPanics` | `TestScheduler.cfg` | `test_scheduler.rs:471`: a stuck block with a timeout returns instead of panicking |
| `KeyDispatch!ObserversSeePending` | `KeyDispatch.cfg` | `window.rs:5504`: a timer that finds another focus drops the pending input without telling its observers; `blur` does not tell them either |
| `KeyDispatch!PrefixReachable` | `KeyDispatch.cfg` | `keymap.rs:228`: a disabling binding ends the pending state of its keystrokes whatever its depth, the complete match follows precedence |

Other behaviours that the models have and that no property of the runs asks for:

- `queue.rs:88`: a parked `pop` does not return when the sender is dropped; a
  receiver in "waiting" has no step once the sender is gone.
- `app.rs:941`: `shutdown` flushes without `flushing_effects`, so an update in a
  callback flushes again and finds the observers of the key being delivered taken
  out of the set. `FlushIsOutermost` and `NoNotificationLost` therefore hold for
  `Spec` and not for `ShutdownSpec`.
- `app.rs:1652`: when that flush releases the entity whose observers are being
  called, `remove` does not see the ones that the `retain` has taken out, and the
  `retain` puts them back under the key of a released entity.
- `app.rs:1563`: notify, observe, notify in one update does not call the new
  observer: the second notification is coalesced with the first, which is
  delivered before the activation. `NoNotificationLost` speaks of observers that
  were active.
- `app.rs:1965`: `remove_global` notifies the global observers; its comment says
  that it does not.
- `window.rs:155`: a view notified during a draw is marked, but the window does
  not become dirty: it is rendered again in whichever draw comes next.
  `NextDrawRenders` and `NotifiedIsRedrawn` therefore speak of notifications
  outside of a draw of which the window is told (it is not told of views it does
  not track, see 2. above), and `NoInvalidationLost` of all it is told of.
- `window.rs:5407`: the dispatch path is computed before the keystroke
  interceptors run. If one of them moves the focus and lets the event pass, the
  keystroke is matched in the contexts of the old focus and, if it stays pending,
  waits in the new one: the next key typed there continues a binding that began
  in the contexts of the other. `OneFocus` counts from the end of a dispatch for
  that reason.
- `window.rs:2847`: the focus that a focus-lost listener sets is not announced
  until something else causes a draw; `ListenersKnowFocus` excepts it, as the comment
  there does.
- `keymap/context.rs:328`: `is_superset` compares the child of `p > q`, but `q` is
  evaluated on the contexts below the parent only, so `!X` is taken for a superset
  of `X > !X`, which matches where `!X` does not. `HiddenNeverFires` is checked
  and proved for disabling bindings without negation. (In the stack `a`, `b`, `c`,
  `b > !a` matches at depth 3 and `!a` nowhere.)

## Not modelled

- Text shaping, layout, paint, hit testing, rendering: geometry and floating
  point over large data, without protocol state.
- Platform backends other than the main-thread queue of Linux and the frame source
  of macOS, HTTP clients, assets, media: I/O behind external libraries.
- The arena, the profiler, macros and utilities: memory, instrumentation and
  generated code below the level of these models.
- `AsyncApp` and the test contexts: they borrow the App and call `update`.
- `sum_tree`, the bounds tree and list offsets are sequential algorithms that the
  repository tests with random inputs; see the plan.

## Plan

In this order:

1. **`LinuxTimers`** (the dispatcher's timer thread), with `CalloopQueue` and
   `PriorityQueue` as the queues it sends to.
2. **Pure algorithms** against reference definitions over bounded inputs: list
   offsets in `list.rs`, the orders of `bounds_tree.rs`, seeking in `sum_tree`.
