----------------------------- MODULE KeyDispatch ----------------------------
(* Key input of one window: Window::dispatch_key_event with its pending     *)
(* input and one-second timer (crates/gpui/src/window.rs) over              *)
(* DispatchTree::dispatch_key, replay_prefix and flush_dispatch             *)
(* (crates/gpui/src/key_dispatch.rs) and the keymap (module Keymap).        *)
(*                                                                          *)
(* Typed keystrokes carry their number and whether the focus was moved      *)
(* since the dispatch of the one before.  Handlers of actions, key          *)
(* listeners and keystroke interceptors are user code: any of them may move *)
(* the focus.  An event that an interceptor stops never reaches the pending *)
(* input and is not counted as typed; what its interceptors and listeners   *)
(* do to the focus are the actions Focus and Blur.                          *)
EXTENDS Keymap

CONSTANTS
    Keys,           \* the keys
    Focuses,        \* the focus handles of the window
    None,           \* no focus, no pending input
    Contexts,       \* context stack of the dispatch path of each focus and of None
    Bindings,       \* the bindings that may be added
    MaxBindings,    \* bound on the size of the keymap
    MaxKeys         \* bound on the typed keystrokes

ASSUME KeyAssumption ==
    /\ None \notin Focuses
    /\ DOMAIN Contexts = Focuses \union {None}
    /\ \A f \in DOMAIN Contexts : IsStack(Contexts[f])
    /\ \A b \in Bindings : /\ b.keystrokes \in Seq(Keys) /\ b.keystrokes # <<>>
                          /\ b.predicate \in Predicates \union {NoPredicate}
                          /\ b.user \in BOOLEAN
    /\ MaxBindings \in Nat /\ MaxKeys \in Nat

VARIABLES
    keymap,         \* the bindings in the order in which they were added
    focus,          \* Window::focus
    pending_input,  \* Window::pending_input
    timer_tasks,    \* the timer tasks that have not been dropped
    call,           \* the dispatch in progress, or None
    typed,          \* history: number of keystrokes typed
    accounted,      \* history: those that were dispatched or discarded
    seen,           \* history: keystrokes the pending-input observers saw last
    moved           \* history: the focus was moved since the last dispatch of a key

vars == <<keymap, focus, pending_input, timer_tasks, call, typed, accounted,
          seen, moved>>

Strokes == [key: Keys, n: 1..MaxKeys, moved: BOOLEAN]
NoTimer == 0

Pending == [keystrokes: Seq(Strokes), focus: Focuses \union {None},
            timer: 0..MaxKeys, needs_timeout: BOOLEAN, has_binding: BOOLEAN]

Calls == [kind: {"dispatch", "timer", "flush"}, replays: Seq(Seq(Strokes)),
          input: Seq(Strokes), stays: BOOLEAN, has_binding: BOOLEAN,
          pending: Pending]

ASSUME NoneAssumption == None \notin Pending /\ None \notin Calls

\* Of a timer task we keep its number and the keystrokes it was started for.
TypeOK ==
    /\ keymap \in Seq(Bindings) /\ Len(keymap) <= MaxBindings
    /\ focus \in Focuses \union {None}
    /\ pending_input \in Pending \union {None}
    /\ timer_tasks \subseteq [id: 1..MaxKeys, keystrokes: Seq(Strokes)]
    /\ call \in Calls \union {None}
    /\ typed \in 0..MaxKeys /\ accounted \in 0..typed
    /\ seen \in Seq(Strokes) /\ moved \in BOOLEAN

-----------------------------------------------------------------------------
(* DispatchTree                                                             *)

KeysOf(strokes) == [i \in DOMAIN strokes |-> strokes[i].key]

ForInput(strokes, f) == bindings_for_input(keymap, KeysOf(strokes), Contexts[f])

\* The longest prefix that matches a binding, or one keystroke.
PrefixLength(input, f) ==
    Max({1} \union
        {n \in DOMAIN input : ForInput(SubSeq(input, 1, n), f).bindings # <<>>})

CutAfter(input, n, rest) ==
    [replay |-> SubSeq(input, 1, n), suffix |-> SubSeq(input, n + rest, Len(input))]

\* Mutant: the keystroke behind the replayed prefix is left out.
replay_prefix_Skips(input, f) == CutAfter(input, PrefixLength(input, f), 2)

\* replay_prefix: what is replayed and what is dispatched again.
replay_prefix(input, f) == CutAfter(input, PrefixLength(input, f), 1)

\* flush_dispatch: what is replayed of the input, prefix by prefix.
flush_dispatch(input, f) ==
    LET flush[rest \in Suffixes(input)] ==
          LET r == replay_prefix(rest, f)
          IN  IF rest = <<>> THEN <<>> ELSE <<r.replay>> \o flush[r.suffix]
    IN  flush[input]

\* dispatch_key: input holds the keystrokes this result is about, which stay
\* pending or are dispatched now; to_replay the ones to be replayed before.
dispatch_key(before, stroke, f) ==
    LET dispatch[rest \in Suffixes(before)] ==
          LET found == ForInput(Append(rest, stroke), f)
              r == replay_prefix(rest, f)
          IN  IF found.pending \/ found.bindings # <<>> \/ rest = <<>>
              THEN [input |-> Append(rest, stroke), pending |-> found.pending,
                    pending_has_binding |-> found.pending /\ found.bindings # <<>>,
                    to_replay |-> <<>>]
              ELSE [dispatch[r.suffix] EXCEPT !.to_replay = <<r.replay>> \o @]
    IN  dispatch[before]

-----------------------------------------------------------------------------
(* Window                                                                   *)

Idle == call = None

NoPending == [keystrokes |-> <<>>, focus |-> None, timer |-> NoTimer,
              needs_timeout |-> FALSE, has_binding |-> FALSE]

DropTimer(id) == {t \in timer_tasks : t.id # id}

PendingStrokes == IF pending_input = None THEN <<>> ELSE pending_input.keystrokes

\* Mutant: the focus of the pending input is not compared.
currently_pending_AnyFocus(cleared, f) ==
    IF cleared \/ pending_input = None THEN NoPending ELSE pending_input

\* The input that is pending when the interceptors are done, which left the
\* focus at f; what was typed in another focus is forgotten.
currently_pending(cleared, f) ==
    IF \/ cleared \/ pending_input = None
       \/ pending_input.focus # None /\ pending_input.focus # f
    THEN NoPending ELSE pending_input

\* dispatch_keystroke_interceptors: they may move the focus from where the
\* dispatch path was computed.  Only focus, which clears the pending input, can
\* move it to a handle; blur does not clear it.
Intercepted(cleared, f) == cleared \/ f \in {focus, None}

\* dispatch_key_event up to the replays.
DispatchKeyEvent(k, cleared, f) ==
    /\ Idle /\ typed < MaxKeys
    /\ Intercepted(cleared, f)
    /\ \E cp \in {currently_pending(cleared, f)} :
         /\ \E result \in {dispatch_key(cp.keystrokes,
                              [key |-> k, n |-> typed + 1,
                               moved |-> moved \/ cleared \/ f # focus], focus)} :
               call' = [kind |-> "dispatch", replays |-> result.to_replay,
                        input |-> result.input, stays |-> result.pending,
                        has_binding |-> result.pending_has_binding, pending |-> cp]
         /\ accounted' = IF cp = NoPending THEN typed ELSE accounted
         /\ timer_tasks' = IF cp = NoPending /\ pending_input # None
                           THEN DropTimer(pending_input.timer) ELSE timer_tasks
    /\ typed' = typed + 1
    /\ pending_input' = None
    /\ focus' = f /\ moved' = FALSE
    /\ UNCHANGED <<keymap, seen>>

\* replay_pending_input, one replay.  Its handlers may move the focus.
Replay ==
    /\ ~Idle
    /\ call.replays # <<>>
    /\ call' = [call EXCEPT !.replays = Tail(@)]
    /\ accounted' = accounted + Len(Head(call.replays))
    /\ focus' \in Focuses \union {None}
    /\ UNCHANGED <<keymap, pending_input, timer_tasks, typed, seen, moved>>

\* Mutant: only this keystroke decides whether a timeout is needed.
needs_timeout_Now(text_input_requires_timeout) ==
    call.has_binding \/ text_input_requires_timeout

\* It is complete, was so before, or is text for an input handler.
needs_timeout(text_input_requires_timeout) ==
    call.pending.needs_timeout \/ call.has_binding \/ text_input_requires_timeout

\* Mutant: the timer that runs is not replaced.
TimersRestarted_First(needs) ==
    IF call.pending.timer # NoTimer THEN timer_tasks
    ELSE timer_tasks \union
            (IF needs THEN {[id |-> typed, keystrokes |-> call.input]} ELSE {})

\* The old timer is dropped with the old pending input, a new one started.
TimersRestarted(needs) ==
    DropTimer(call.pending.timer) \union
        (IF needs THEN {[id |-> typed, keystrokes |-> call.input]} ELSE {})

\* dispatch_key_event after the replays: the rest stays pending.
StayPending(text_input_requires_timeout) ==
    /\ ~Idle
    /\ call.kind = "dispatch" /\ call.replays = <<>> /\ call.stays
    /\ LET needs == needs_timeout(text_input_requires_timeout)
       IN  /\ pending_input' =
                [keystrokes |-> call.input, focus |-> focus,
                 timer |-> IF needs THEN typed ELSE NoTimer,
                 needs_timeout |-> needs, has_binding |-> call.has_binding]
           /\ timer_tasks' = TimersRestarted(needs)
    /\ seen' = call.input
    /\ call' = None
    /\ UNCHANGED <<keymap, focus, typed, accounted, moved>>

\* ... or it is dispatched: bindings and key listeners, which are user code.
DispatchNow ==
    /\ ~Idle
    /\ call.kind = "dispatch" /\ call.replays = <<>> /\ ~call.stays
    /\ accounted' = accounted + Len(call.input)
    /\ timer_tasks' = DropTimer(call.pending.timer)
    /\ focus' \in Focuses \union {None}
    /\ seen' = <<>>
    /\ call' = None
    /\ UNCHANGED <<keymap, pending_input, typed, moved>>

\* The timer task runs: it takes the pending input, and drops it when the
\* focus is another one.
TimerElapsed(task) ==
    /\ Idle
    /\ task \in timer_tasks
    /\ pending_input' = None
    /\ timer_tasks' = timer_tasks \
          {t \in timer_tasks : \/ t = task
                               \/ pending_input # None /\ t.id = pending_input.timer}
    /\ IF pending_input # None /\ pending_input.focus = focus
       THEN /\ call' = [kind |-> "timer", replays |-> <<>>,
                        input |-> pending_input.keystrokes, stays |-> FALSE,
                        has_binding |-> FALSE, pending |-> pending_input]
            /\ UNCHANGED accounted
       ELSE accounted' = typed /\ UNCHANGED call
    /\ UNCHANGED <<keymap, focus, typed, seen, moved>>

\* ... and flushes what it took.
Flush ==
    /\ ~Idle
    /\ call.kind = "timer"
    /\ call' = [call EXCEPT !.kind = "flush", !.input = <<>>,
                            !.replays = flush_dispatch(call.input, focus)]
    /\ seen' = <<>>
    /\ UNCHANGED <<keymap, focus, pending_input, timer_tasks, typed, accounted,
                   moved>>

FlushDone ==
    /\ ~Idle
    /\ call.kind = "flush" /\ call.replays = <<>>
    /\ call' = None
    /\ UNCHANGED <<keymap, focus, pending_input, timer_tasks, typed, accounted,
                   seen, moved>>

\* clear_pending_keystrokes and the notification of the observers, which
\* focus defers to the end of the update.
ClearPending ==
    /\ pending_input' = None
    /\ timer_tasks' = IF pending_input = None THEN timer_tasks
                                              ELSE DropTimer(pending_input.timer)
    /\ accounted' = typed
    /\ seen' = <<>>

\* focus and blur, called outside of a key dispatch.
Focus(f) ==
    /\ Idle
    /\ focus # f
    /\ focus' = f /\ moved' = TRUE
    /\ ClearPending
    /\ UNCHANGED <<keymap, call, typed>>

Blur ==
    /\ Idle
    /\ focus' = None /\ moved' = (moved \/ focus # None)
    /\ UNCHANGED <<keymap, pending_input, timer_tasks, call, typed, accounted, seen>>

\* App::clear_pending_keystrokes, when an action is chosen from a menu.
ClearPendingKeystrokes ==
    /\ Idle /\ pending_input # None
    /\ ClearPending
    /\ UNCHANGED <<keymap, focus, call, typed, moved>>

\* bind_keys and clear_key_bindings.
BindKeys(b) ==
    /\ Idle /\ Len(keymap) < MaxBindings
    /\ keymap' = Append(keymap, b)
    /\ UNCHANGED <<focus, pending_input, timer_tasks, call, typed, accounted,
                   seen, moved>>

ClearKeyBindings ==
    /\ Idle /\ keymap # <<>>
    /\ keymap' = <<>>
    /\ UNCHANGED <<focus, pending_input, timer_tasks, call, typed, accounted,
                   seen, moved>>

Init ==
    /\ keymap = <<>>
    /\ focus \in Focuses
    /\ pending_input = None /\ timer_tasks = {} /\ call = None
    /\ typed = 0 /\ accounted = 0 /\ seen = <<>> /\ moved = FALSE

Next ==
    \/ \E k \in Keys, cleared \in BOOLEAN, f \in Focuses \union {None} :
          DispatchKeyEvent(k, cleared, f)
    \/ Replay
    \/ \E text \in BOOLEAN : StayPending(text)
    \/ DispatchNow
    \/ \E task \in timer_tasks : TimerElapsed(task)
    \/ Flush
    \/ FlushDone
    \/ \E f \in Focuses : Focus(f)
    \/ Blur
    \/ ClearPendingKeystrokes
    \/ \E b \in Bindings : BindKeys(b)
    \/ ClearKeyBindings

Spec == Init /\ [][Next]_vars

\* A dispatch that has begun goes on, and a timer that is not dropped elapses.
FairSpec ==
    /\ Spec
    /\ WF_vars(Replay \/ (\E text \in BOOLEAN : StayPending(text)) \/ DispatchNow)
    /\ WF_vars(\E task \in timer_tasks : TimerElapsed(task))

-----------------------------------------------------------------------------
(* Properties                                                               *)

\* Every keystroke is dispatched or forgotten once and in order: the numbers
\* still in hand (to be replayed, about to be dispatched, pending) are exactly
\* those not accounted for.  A prefix that replay_prefix cuts too short or too
\* long, or that is replayed late, breaks it.
KeystrokesInOrder ==
    LET strokes == (IF Idle THEN <<>> ELSE FlattenSeq(call.replays) \o call.input)
                   \o PendingStrokes
    IN  [i \in DOMAIN strokes |-> strokes[i].n]
            = [i \in 1..(typed - accounted) |-> accounted + i]

\* A keystroke forms a binding with the ones before it only if nobody moved the
\* focus since the dispatch of the one before ended: neither a call between the
\* two, away and back included, nor an interceptor of the second.  Where the
\* interceptors and replayed actions of the first have left the focus is where
\* the second has to be typed.
OneFocus ==
    LET groups == (IF Idle THEN {} ELSE Range(call.replays) \union {call.input})
                  \union {PendingStrokes}
    IN  \A g \in groups : \A i \in DOMAIN g : i > 1 => ~g[i].moved

\* A timer flushes what was pending when it was started and nothing newer:
\* each keystroke gets its full second.
TimeoutIsFresh ==
    [][\A task \in timer_tasks :
          TimerElapsed(task) /\ call' # None
              => task.keystrokes = pending_input.keystrokes]_vars

\* A keystroke that completes a binding but waits for a longer one is not
\* kept waiting for ever, whatever is typed after it: the timeout that a
\* dispatch restarts is needed again by the next.
CompleteBindingResolves ==
    \A n \in 1..MaxKeys :
        LET waits == \/ \E s \in Range(PendingStrokes) : s.n = n
                     \/ call # None /\ call.stays /\ \E s \in Range(call.input) : s.n = n
        IN  (typed = n /\ waits /\ pending_input # None /\ pending_input.has_binding)
                ~> ~waits

\* What observe_pending_input says: its callback is invoked when the pending
\* input changes, so that at rest observers know it.
ObserversSeePending == Idle => seen = PendingStrokes

-----------------------------------------------------------------------------
(* Properties of the keymap, for every input and every context stack in use. *)
(* They depend on the keymap alone, and every keymap is reached before the   *)
(* first key is typed, so that is when they are evaluated.                   *)

Inputs == UNION {[1..n -> Keys] : n \in 1..2}
Stacks == {Contexts[f] : f \in DOMAIN Contexts}

\* What the comment of bindings_for_input says, without its loops: a matching
\* binding is returned iff no NoAction of the user and no Unbind of its action
\* with the same keystrokes has precedence over it, deepest context and then
\* latest binding first.
MatchFollowsPrecedence ==
    typed = 0 => \A input \in Inputs, contexts \in Stacks :
        LET depths == [i \in DOMAIN keymap |-> binding_depths(keymap[i], contexts)]
            matched == {i \in DOMAIN keymap : /\ depths[i] # {}
                                              /\ keymap[i].keystrokes = input}
            over(i) == {j \in matched : Precedes(depths, j, i)}
            found == bindings_for_input(keymap, input, contexts).bindings
        IN  /\ Range(found) =
                  {i \in matched :
                      /\ ~IsDisabling(keymap[i])
                      /\ \A j \in over(i) :
                            /\ ~(is_no_action(keymap[j]) /\ keymap[j].user)
                            /\ ~(is_unbind(keymap[j]) /\ keymap[j].unbinds = keymap[i].action)}
            /\ \A m, n \in DOMAIN found : m < n => found[m] \in over(found[n])

\* Predicates without negation, with all their parts.
Positive(P) == \A p \in P : p[1] # "not" /\ Parts(p) \subseteq P

\* No binding that disables others has a "!" in its predicate.  (is_superset
\* takes !a for a superset of b > !a, which matches in the stack a, b, c, too.)
DisablingIsPositive ==
    \E P \in SUBSET Predicates :
        /\ Positive(P)
        /\ \A b \in Bindings : IsDisabling(b) => b.predicate \in P \union {NoPredicate}

\* A binding that bindings_for_action hides because a later one of the user
\* disables it (is_superset of its predicate) is dispatched in no context.
HiddenNeverFires ==
    typed = 0 => \A i \in DOMAIN keymap, contexts \in Stacks :
        /\ ~IsDisabling(keymap[i])
        /\ i \notin bindings_for_action(keymap, keymap[i].action)
        /\ \A d \in DOMAIN keymap : is_no_action(keymap[d]) => keymap[d].user
        => i \notin Range(bindings_for_input(keymap, keymap[i].keystrokes,
                                             contexts).bindings)

\* What "disabled bindings are evaluated with the same precedence rules" says
\* of a sequence of two keystrokes: if a binding is returned for it, the first
\* keystroke alone is pending, unless a binding of that keystroke is newer.
PrefixReachable ==
    \A input \in Inputs, contexts \in Stacks :
        LET whole == bindings_for_input(keymap, input, contexts).bindings
            first == bindings_for_input(keymap, SubSeq(input, 1, 1), contexts)
        IN  Len(input) = 2 /\ whole # <<>>
              => \/ first.pending
                 \/ first.bindings # <<>> /\ first.bindings[1] > Max(Range(whole))

=============================================================================
