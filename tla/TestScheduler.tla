---------------------------- MODULE TestScheduler ---------------------------
(* scheduler::TestScheduler (crates/scheduler/src/test_scheduler.rs): the   *)
(* deterministic, single-threaded scheduler that drives every test.  Its    *)
(* operations call each other: block steps runnables, a runnable may block, *)
(* tick, run or advance the clock again.  The call stack is therefore part  *)
(* of the state: each frame of "stack" is an operation that has not         *)
(* returned, and only the top one takes steps.  The random generator is     *)
(* nondeterminism; randomize_order = false is the special case in which the *)
(* last insertion index and the first candidate are always chosen.  Every   *)
(* priority that reaches the queue has a positive weight, so the weighted   *)
(* draw may return any candidate.                                           *)
(*                                                                          *)
(* A future is abstracted to the one event it awaits: the completion of a   *)
(* task, a timer, or Io, which another thread completes (tests that allow   *)
(* parking).  User code - the test body and the polls of tasks - makes any  *)
(* MaxOps calls, nested to at most MaxDepth frames.                         *)
EXTENDS Integers, SequencesExt, FiniteSetsExt

CONSTANTS
    Tasks,          \* the tasks, 1..n, spawned in order
    Timers,         \* the timers, created in order; disjoint from Tasks
    Sessions,       \* the sessions of local executors
    Background,     \* the session_id None of background runnables
    Io,             \* an event completed by another thread
    None,           \* no event, no task
    Durations,      \* the durations given to timer and advance_clock
    TimeoutTicks,   \* the numbers of ticks drawn for a block with a timeout
    MaxNow,         \* bound on the clock
    MaxOps,         \* bound on the calls user code makes
    MaxDepth        \* bound on the frames of the stack

ASSUME SchedulerAssumption ==
    /\ Tasks \in SUBSET Nat /\ IsFiniteSet(Tasks)
    /\ Timers \in SUBSET Nat /\ IsFiniteSet(Timers) /\ Tasks \cap Timers = {}
    /\ Io \notin Tasks \union Timers /\ Background \notin Sessions
    /\ None \notin Nat /\ None \notin Sessions \union {Background, Io}
    /\ Durations \subseteq Nat /\ TimeoutTicks \subseteq Nat \ {0}
    /\ MaxNow \in Nat /\ MaxOps \in Nat /\ MaxDepth \in Nat \ {0}

VARIABLES
    runnables,          \* the queued tasks
    timers,             \* the pending timers, [id, expiration]
    blocked_sessions,   \* one entry per block that is on the stack
    is_main_thread,
    allow_parking,
    parking_allowed_once,
    non_determinism_error,
    unparked,
    now,                \* TestClock
    stack,              \* the operations that have not returned
    session,            \* session of each task, None before it is spawned
    waiting,            \* the event each suspended task awaits
    done,               \* completed events
    outcome,            \* "running", "finished", or why the scheduler panicked
    order,              \* history: each session's tasks in scheduling order
    expires,            \* history: expiration of each timer, None if not created
    ops                 \* calls made by user code

tasks == <<session, waiting, done>>
parking == <<allow_parking, parking_allowed_once, non_determinism_error>>
sched == <<runnables, timers, blocked_sessions, is_main_thread, parking,
           unparked, now>>
history == <<order, expires, ops>>
vars == <<sched, stack, tasks, outcome, history>>

Events == Tasks \union Timers \union {Io}

BlockFrames ==
    [kind: {"block"}, session: Sessions, on: Events, timed: BOOLEAN,
     ticks: Nat, phase: {"poll", "coin", "swap", "idle", "park"},
     stepped: {"unset", "yes", "no"}, awoken: BOOLEAN]
Frames ==
    BlockFrames
    \union [kind: {"test", "run", "run_with_clock_advancement"}]
    \union [kind: {"advance_clock"}, until: 0..MaxNow]
    \union [kind: {"task"}, task: Tasks, was_main_thread: BOOLEAN]
    \union [kind: {"elapse"}, elapsed: Seq(Timers) \ {<<>>}]
    \union [kind: {"drain_tasks"}, timers: Seq(Timers), tasks: Seq(Tasks)]

TypeOK ==
    /\ runnables \in Seq(Tasks)
    /\ timers \in Seq([id: Timers, expiration: 0..MaxNow])
    /\ blocked_sessions \in Seq(Sessions)
    /\ is_main_thread \in BOOLEAN /\ allow_parking \in BOOLEAN
    /\ parking_allowed_once \in BOOLEAN /\ non_determinism_error \in BOOLEAN
    /\ unparked \in BOOLEAN /\ now \in 0..MaxNow
    /\ stack \in Seq(Frames)
    /\ session \in [Tasks -> (Sessions \union {Background, None})]
    /\ waiting \in [Tasks -> (Events \union {None})]
    /\ done \subseteq Events
    /\ outcome \in {"running", "finished", "parking forbidden", "timed out parking",
                    "not deterministic"}
    /\ order \in [Sessions -> Seq(Tasks)]
    /\ expires \in [Timers -> (0..MaxNow) \union {None}]
    /\ ops \in 0..MaxOps

-----------------------------------------------------------------------------
(* Scheduling and waking                                                    *)

Top == stack[Len(stack)]
Callers == Front(stack)
WithTop(frame) == Append(Callers, frame)

\* Mutant: a runnable of a session is inserted anywhere, too.
insertion_indices_Anywhere(s) == 1..(Len(runnables) + 1)

\* schedule_local and schedule_background_with_priority: the runnable of t is
\* inserted after the last one of its session, or anywhere if it is a
\* background task.
insertion_indices(s) ==
    LET same == {i \in DOMAIN runnables :
                    s # Background /\ session[runnables[i]] = s}
    IN  (Max(same \union {0}) + 1) .. (Len(runnables) + 1)

schedule(t, s) ==
    /\ \E i \in insertion_indices(s) : runnables' = InsertAt(runnables, i, t)
    /\ order' = [r \in Sessions |-> IF s = r THEN Append(order[r], t) ELSE order[r]]
    /\ unparked' = TRUE

\* TracingWaker::wake: the waker of the future that block is polling.
wake_block(n, frames) ==
    /\ stack' = [frames EXCEPT ![n].awoken = TRUE]
    /\ unparked' = TRUE
    /\ UNCHANGED <<runnables, order, waiting>>

Suspended(e) == {t \in Tasks : waiting[t] = e}
PolledBlocks(e, frames) ==
    {n \in DOMAIN frames : /\ frames[n].kind = "block"
                           /\ frames[n].on = e
                           /\ frames[n].phase # "poll"}

\* Event e completes and its waiter is woken, if there is one: a suspended
\* task is scheduled again, a block that has polled is told by its waker.
\* frames is the stack the caller leaves.
complete(e, frames) ==
    /\ done' = done \union {e}
    /\ \/ \E t \in Suspended(e) :
             /\ waiting' = [waiting EXCEPT ![t] = None]
             /\ stack' = frames
             /\ schedule(t, session[t])
       \/ \E n \in PolledBlocks(e, frames) : wake_block(n, frames)
       \/ /\ Suspended(e) = {} /\ PolledBlocks(e, frames) = {}
          /\ stack' = frames
          /\ UNCHANGED <<runnables, order, unparked, waiting>>

-----------------------------------------------------------------------------
(* step_filtered                                                            *)

\* Length of the prefix of timers that have expired (partition_point).
end_ix == Cardinality({i \in DOMAIN timers :
                          \A j \in 1..i : timers[j].expiration <= now})

\* The first runnable of each session that is not blocked, and every
\* background runnable.
candidate_indices(background_only) ==
    {i \in DOMAIN runnables :
        LET s == session[runnables[i]]
        IN  \/ s = Background
            \/ /\ ~background_only
               /\ s \notin Range(blocked_sessions)
               /\ \A j \in 1..(i - 1) : session[runnables[j]] # s}

Idle(background_only) ==
    end_ix = 0 /\ candidate_indices(background_only) = {}

\* A step that does some work.  Expired timers are dropped one by one, each
\* waking its future, in a frame of its own; otherwise one candidate runs.
step_filtered(background_only, frames) ==
    \/ /\ end_ix > 0
       /\ timers' = SubSeq(timers, end_ix + 1, Len(timers))
       /\ stack' = Append(frames, [kind |-> "elapse",
                     elapsed |-> [i \in 1..end_ix |-> timers[i].id]])
       /\ UNCHANGED <<runnables, is_main_thread, order>>
    \/ /\ end_ix = 0
       /\ \E i \in candidate_indices(background_only) :
             LET t == runnables[i] IN
             /\ runnables' = RemoveAt(runnables, i)
             /\ stack' = Append(frames, [kind |-> "task", task |-> t,
                                  was_main_thread |-> is_main_thread])
             /\ is_main_thread' = (session[t] # Background)
             /\ order' = [s \in Sessions |->
                             IF session[t] = s THEN Tail(order[s]) ELSE order[s]]
       /\ UNCHANGED timers

step(frames) == step_filtered(FALSE, frames)

UntouchedByStep ==
    UNCHANGED <<blocked_sessions, parking, unparked, now, tasks, outcome,
                expires>>

DropElapsed ==
    /\ Top.kind = "elapse"
    /\ LET rest == Tail(Top.elapsed)
       IN  complete(Head(Top.elapsed),
                    IF rest = <<>> THEN Callers
                                   ELSE WithTop([Top EXCEPT !.elapsed = rest]))
    /\ UNCHANGED <<timers, blocked_sessions, is_main_thread, parking, now,
                   session, outcome, expires, ops>>

-----------------------------------------------------------------------------
(* Calls made by user code: the test body and the polls of tasks            *)

InUserCode == Top.kind \in {"test", "task"}

Call == InUserCode /\ ops < MaxOps /\ ops' = ops + 1

Push(frame) == Len(stack) < MaxDepth /\ stack' = Append(stack, frame)

\* LocalExecutor::spawn or BackgroundExecutor::spawn.  A destructor that
\* drain_tasks runs may spawn as well.
Spawn(s) ==
    /\ InUserCode \/ Top.kind = "drain_tasks"
    /\ ops < MaxOps /\ ops' = ops + 1
    /\ \E t \in Tasks :
          /\ session[t] = None
          /\ \A u \in Tasks : u < t => session[u] # None
          /\ session' = [session EXCEPT ![t] = s]
          /\ schedule(t, s)
    /\ UNCHANGED <<timers, blocked_sessions, is_main_thread, parking, now,
                   stack, waiting, done, outcome, expires>>

\* timer: the stable sort puts the new timer behind those that expire no
\* later.
timer(d) ==
    /\ Call
    /\ now + d <= MaxNow
    /\ \E t \in Timers :
          /\ expires[t] = None
          /\ \A u \in Timers : u < t => expires[u] # None
          /\ expires' = [expires EXCEPT ![t] = now + d]
          /\ LET before == {i \in DOMAIN timers : timers[i].expiration <= now + d}
             IN  timers' = InsertAt(timers, Cardinality(before) + 1,
                                    [id |-> t, expiration |-> now + d])
    /\ UNCHANGED <<runnables, blocked_sessions, is_main_thread, parking,
                   unparked, now, stack, tasks, outcome, order>>

\* An event that has a handle nobody else awaits.
Awaitable(e) ==
    /\ \/ e = Io
       \/ e \in Tasks /\ session[e] # None
       \/ e \in Timers /\ expires[e] # None
    /\ \A t \in Tasks : waiting[t] # e
    /\ \A n \in DOMAIN stack : stack[n].kind = "block" => stack[n].on # e

\* The task suspends until e completes.
Await(e) ==
    /\ Top.kind = "task"
    /\ Awaitable(e) /\ e \notin done /\ e # Top.task
    /\ waiting' = [waiting EXCEPT ![Top.task] = e]
    /\ is_main_thread' = Top.was_main_thread
    /\ stack' = Callers
    /\ UNCHANGED <<runnables, timers, blocked_sessions, parking, unparked,
                   now, session, done, outcome, history>>

\* The task returns from its last poll.
Finish ==
    /\ Top.kind = "task"
    /\ is_main_thread' = Top.was_main_thread
    /\ complete(Top.task, Callers)
    /\ UNCHANGED <<timers, blocked_sessions, parking, now, session, outcome,
                   expires, ops>>

\* Yield: the task wakes itself and is scheduled again when its poll returns.
YieldNow ==
    /\ Top.kind = "task"
    /\ Call
    /\ schedule(Top.task, session[Top.task])
    /\ is_main_thread' = Top.was_main_thread
    /\ stack' = Callers
    /\ UNCHANGED <<timers, blocked_sessions, parking, now, tasks, outcome,
                   expires>>

\* allow_parking and forbid_parking.
SetParking(allowed) ==
    /\ Call
    /\ allow_parking # allowed
    /\ allow_parking' = allowed
    /\ parking_allowed_once' = (parking_allowed_once \/ allowed)
    /\ UNCHANGED <<runnables, timers, blocked_sessions, is_main_thread,
                   non_determinism_error, unparked, now, stack, tasks, outcome,
                   order, expires>>

tick(background_only) ==
    /\ Call
    /\ Len(stack) < MaxDepth
    /\ step_filtered(background_only, stack)
    /\ UntouchedByStep

Start(frame) ==
    /\ Call
    /\ Push(frame)
    /\ UNCHANGED <<sched, tasks, outcome, order, expires>>

StartRun == \E k \in {"run", "run_with_clock_advancement"} : Start([kind |-> k])

StartAdvance(d) ==
    now + d <= MaxNow /\ Start([kind |-> "advance_clock", until |-> now + d])

StartDrain ==
    /\ Top.kind = "test"
    /\ Start([kind |-> "drain_tasks", timers |-> <<>>, tasks |-> <<>>])

-----------------------------------------------------------------------------
(* run, run_with_clock_advancement, advance_clock, drain_tasks              *)

Loops == {"run", "run_with_clock_advancement", "advance_clock"}

LoopStep ==
    /\ Top.kind \in Loops
    /\ step(stack)
    /\ UntouchedByStep /\ UNCHANGED ops

\* Mutant: the clock stays where it is.
advance_clock_to_next_timer_Stays == timers # <<>> /\ UNCHANGED now

\* advance_clock_to_next_timer: the difference of two Instants saturates.
advance_clock_to_next_timer ==
    timers # <<>> /\ now' = Max({now, timers[1].expiration})

\* Mutant: advance_clock leaves out a timer that expires at its target.
due_by_Before(until) == timers # <<>> /\ timers[1].expiration < until

\* The next timer expires within the time advance_clock has to cover.
due_by(until) == timers # <<>> /\ timers[1].expiration <= until

\* No step did any work: what each loop does then.
LoopIdle ==
    /\ Idle(FALSE)
    /\ \/ /\ Top.kind = "run"
          /\ stack' = Callers /\ UNCHANGED now
       \/ /\ Top.kind = "run_with_clock_advancement"
          /\ IF timers = <<>> THEN stack' = Callers /\ UNCHANGED now
                              ELSE advance_clock_to_next_timer /\ UNCHANGED stack
       \/ /\ Top.kind = "advance_clock"
          /\ IF due_by(Top.until)
             THEN advance_clock_to_next_timer /\ UNCHANGED stack
             ELSE now' = Max({now, Top.until}) /\ stack' = Callers
    /\ UNCHANGED <<runnables, timers, blocked_sessions, is_main_thread,
                   parking, unparked, tasks, outcome, history>>

\* One round of drain_tasks takes both queues; it returns once it finds them
\* empty.
DrainTake ==
    /\ Top.kind = "drain_tasks" /\ Top.timers = <<>> /\ Top.tasks = <<>>
    /\ stack' = IF runnables = <<>> /\ timers = <<>> THEN Callers
                ELSE WithTop([Top EXCEPT
                        !.timers = [i \in DOMAIN timers |-> timers[i].id],
                        !.tasks = runnables])
    /\ runnables' = <<>> /\ timers' = <<>>
    /\ order' = [s \in Sessions |-> <<>>]
    /\ UNCHANGED <<blocked_sessions, is_main_thread, parking, unparked, now,
                   tasks, outcome, expires, ops>>

\* Dropping a timer or a runnable wakes whoever awaits it.
DrainDrop ==
    /\ Top.kind = "drain_tasks"
    /\ \/ /\ Top.timers # <<>>
          /\ complete(Head(Top.timers),
                      WithTop([Top EXCEPT !.timers = Tail(Top.timers)]))
       \/ /\ Top.timers = <<>> /\ Top.tasks # <<>>
          /\ complete(Head(Top.tasks),
                      WithTop([Top EXCEPT !.tasks = Tail(Top.tasks)]))
    /\ UNCHANGED <<timers, blocked_sessions, is_main_thread, parking, now,
                   session, outcome, expires, ops>>

-----------------------------------------------------------------------------
(* block                                                                    *)

push_blocked(s) == Append(blocked_sessions, s)

\* Mutant: the end of a block unblocks the sessions of all blocks.
pop_blocked_All == <<>>

pop_blocked == Front(blocked_sessions)

block(s, e, timed) ==
    /\ Awaitable(e)
    /\ \E n \in IF timed THEN TimeoutTicks ELSE {0} :
          /\ Call
          /\ Push([kind |-> "block", session |-> s, on |-> e, timed |-> timed,
                   ticks |-> n, phase |-> "poll", stepped |-> "unset",
                   awoken |-> FALSE])
    /\ blocked_sessions' = push_blocked(s)
    /\ UNCHANGED <<runnables, timers, is_main_thread, parking, unparked, now,
                   tasks, outcome, order, expires>>

InBlock(phase) == Top.kind = "block" /\ Top.phase = phase

\* block returns: whether the future completed is for the caller to see.
BlockReturn == stack' = Callers /\ blocked_sessions' = pop_blocked

\* The head of the loop: out of ticks, or one poll of the future.
BlockPoll ==
    /\ InBlock("poll")
    /\ \/ /\ (Top.timed /\ Top.ticks = 0) \/ Top.on \in done
          /\ BlockReturn
       \/ /\ ~(Top.timed /\ Top.ticks = 0) /\ Top.on \notin done
          /\ stack' = WithTop([Top EXCEPT
                !.ticks = IF Top.timed THEN Top.ticks - 1 ELSE Top.ticks,
                !.stepped = "unset", !.phase = "coin"])
          /\ UNCHANGED blocked_sessions
    /\ UNCHANGED <<runnables, timers, is_main_thread, parking, unparked, now,
                   tasks, outcome, history>>

\* The coin came up: step, and remember whether any step did work.
BlockStep ==
    /\ InBlock("coin")
    /\ step(WithTop([Top EXCEPT !.stepped = "yes"]))
    /\ UntouchedByStep /\ UNCHANGED ops

BlockStepIdle ==
    /\ InBlock("coin")
    /\ Idle(FALSE)
    /\ stack' = WithTop([Top EXCEPT !.phase = "swap",
                   !.stepped = IF Top.stepped = "unset" THEN "no" ELSE Top.stepped])
    /\ UNCHANGED <<sched, tasks, outcome, history>>

\* Mutant: a coin that did not come up counts as a step without work.
BlockCoinDown_Idle ==
    /\ InBlock("coin")
    /\ stack' = WithTop([Top EXCEPT !.phase = "swap", !.stepped = "no"])
    /\ UNCHANGED <<sched, tasks, outcome, history>>

BlockCoinDown ==
    /\ InBlock("coin")
    /\ stack' = WithTop([Top EXCEPT !.phase = "swap"])
    /\ UNCHANGED <<sched, tasks, outcome, history>>

\* awoken.swap(false)
BlockSwap ==
    /\ InBlock("swap")
    /\ stack' = WithTop([Top EXCEPT
          !.awoken = FALSE,
          !.phase = IF Top.stepped = "no" /\ ~Top.awoken THEN "idle" ELSE "poll"])
    /\ UNCHANGED <<sched, tasks, outcome, history>>

\* Nothing to do and not woken: jump to the next timer, give up, or park.
BlockIdle ==
    /\ InBlock("idle")
    /\ \/ /\ ~allow_parking
          /\ advance_clock_to_next_timer
          /\ stack' = WithTop([Top EXCEPT !.phase = "poll"])
          /\ UNCHANGED <<blocked_sessions, outcome>>
       \/ /\ ~allow_parking /\ timers = <<>> /\ Top.timed
          /\ BlockReturn
          /\ UNCHANGED <<now, outcome>>
       \/ /\ ~allow_parking /\ timers = <<>> /\ ~Top.timed
          /\ outcome' = "parking forbidden"
          /\ UNCHANGED <<now, blocked_sessions, stack>>
       \/ /\ allow_parking
          /\ stack' = WithTop([Top EXCEPT !.phase = "park"])
          /\ UNCHANGED <<now, blocked_sessions, outcome>>
    /\ UNCHANGED <<runnables, timers, is_main_thread, parking, unparked,
                   tasks, history>>

\* One interval of park: the clock follows real time; an expired timer or a
\* wake-up from another thread ends it.
Park ==
    /\ InBlock("park")
    /\ \E n \in now..MaxNow :
          /\ now' = n
          /\ LET expired == timers # <<>> /\ timers[1].expiration <= n
             IN  /\ unparked' = (unparked /\ expired)
                 /\ stack' = IF expired \/ unparked
                             THEN WithTop([Top EXCEPT !.phase = "poll"])
                             ELSE stack
    /\ UNCHANGED <<runnables, timers, blocked_sessions, is_main_thread,
                   parking, tasks, outcome, history>>

\* The deadline of the block passes, or the hard limit of 15 seconds.
ParkDeadline ==
    /\ InBlock("park")
    /\ \/ Top.timed /\ BlockReturn /\ UNCHANGED outcome
       \/ /\ outcome' = "timed out parking"
          /\ UNCHANGED <<stack, blocked_sessions>>
    /\ UNCHANGED <<runnables, timers, is_main_thread, parking, unparked, now,
                   tasks, history>>

-----------------------------------------------------------------------------
(* Another thread completes Io.  Its waker runs on that thread, which       *)
(* assert_correct_thread records unless the test once allowed parking.  It  *)
(* completes while somebody awaits it: an event that was complete before is *)
(* not awaited.                                                             *)
IoCompletes ==
    /\ Suspended(Io) # {} \/ PolledBlocks(Io, stack) # {}
    /\ Io \notin done
    /\ complete(Io, stack)
    /\ non_determinism_error' = (non_determinism_error \/ ~parking_allowed_once)
    /\ UNCHANGED <<timers, blocked_sessions, is_main_thread, allow_parking,
                   parking_allowed_once, now, session, outcome, expires, ops>>

\* The test body ends, after its last call.
end_test ==
    /\ Top.kind = "test" /\ ops = MaxOps
    /\ outcome' = IF non_determinism_error THEN "not deterministic" ELSE "finished"
    /\ UNCHANGED <<sched, stack, tasks, history>>

Running == outcome = "running"

Init ==
    /\ runnables = <<>> /\ timers = <<>> /\ blocked_sessions = <<>>
    /\ is_main_thread = TRUE
    /\ allow_parking \in BOOLEAN
    /\ parking_allowed_once = FALSE /\ non_determinism_error = FALSE
    /\ unparked = FALSE /\ now = 0
    /\ stack = <<[kind |-> "test"]>>
    /\ session = [t \in Tasks |-> None]
    /\ waiting = [t \in Tasks |-> None]
    /\ done = {} /\ outcome = "running"
    /\ order = [s \in Sessions |-> <<>>]
    /\ expires = [t \in Timers |-> None]
    /\ ops = 0

UserCall ==
    \/ \E s \in Sessions \union {Background} : Spawn(s)
    \/ \E d \in Durations : timer(d)
    \/ \E s \in Sessions, e \in Events, b \in BOOLEAN : block(s, e, b)
    \/ \E b \in BOOLEAN : tick(b)
    \/ \E b \in BOOLEAN : SetParking(b)
    \/ StartRun
    \/ \E d \in Durations : StartAdvance(d)
    \/ StartDrain

TaskReturns == YieldNow \/ (\E e \in Events : Await(e)) \/ Finish

SchedulerStep ==
    \/ DropElapsed
    \/ LoopStep \/ LoopIdle
    \/ DrainTake \/ DrainDrop
    \/ BlockPoll \/ BlockStep \/ BlockStepIdle \/ BlockCoinDown \/ BlockSwap
    \/ BlockIdle \/ Park \/ ParkDeadline

Terminated == ~Running /\ UNCHANGED vars

Next ==
    \/ Running /\ (UserCall \/ TaskReturns \/ SchedulerStep \/ IoCompletes \/ end_test)
    \/ Terminated

Spec == Init /\ [][Next]_vars

\* The scheduler's thread keeps running and real time passes while it is
\* parked.  A coin that is tossed for ever comes up some time.
FairSpec ==
    /\ Spec
    /\ WF_vars(Running /\ SchedulerStep)
    /\ SF_vars(Running /\ (BlockStep \/ BlockStepIdle))
    /\ WF_vars(Running /\ ParkDeadline)
    /\ WF_vars(Running /\ Finish)

-----------------------------------------------------------------------------
(* Properties                                                               *)

\* The positions of session s among the first n of the queue.
OfSession(s, n) == {i \in 1..n : session[runnables[i]] = s}

\* The queue, seen through one session, is exactly the first-in first-out
\* queue of what was scheduled on it: neither the random insertion index nor
\* the random draw of step_filtered reorders the runnables of a session,
\* drops one or runs one twice.
SessionOrder ==
    \A s \in Sessions :
        /\ Len(order[s]) = Cardinality(OfSession(s, Len(runnables)))
        /\ \A i \in OfSession(s, Len(runnables)) :
              runnables[i] = order[s][Cardinality(OfSession(s, i))]

\* Nesting is invisible to the code it nests.  While block(s) is on the stack
\* nothing that step_filtered runs inside of it belongs to s, and
\* is_main_thread tells the code that is running whether it is a foreground
\* task (or the test body) - however deeply other blocks, ticks and loops are
\* nested, and after they have returned.
NestingIsTransparent ==
    LET user == {n \in DOMAIN stack : stack[n].kind \in {"test", "task"}}
        inner == stack[Max(user)]
    IN  /\ \A n \in DOMAIN stack : stack[n].kind = "block" =>
              \A m \in user : m > n => session[stack[m].task] # stack[n].session
        /\ is_main_thread = (inner.kind = "task" => session[inner.task] # Background)

\* block gives up only when it is stuck.  Unless another thread interferes it
\* panics with "Parking forbidden" only when no runnable of an unblocked
\* session and no timer is left and its future is not complete: no wake-up
\* since the last poll is missed.  With parking allowed it parks only when its
\* future is not complete or the wake-up is recorded, so that another thread
\* that completes it at any moment is noticed.
GivesUpOnlyWhenStuck ==
    /\ outcome = "parking forbidden" /\ Io \notin done =>
          /\ candidate_indices(FALSE) = {} /\ timers = <<>>
          /\ Top.on \notin done
    /\ InBlock("park") => (Top.on \in done => unparked)

\* Timers fire on time.  Not early: the clock has reached the expiration,
\* except that drain_tasks drops the timers that are left.  Not late: when
\* advance_clock returns the clock has reached its target, no pending timer
\* has expired and no runnable can run, also when the tasks it ran advanced
\* the clock themselves.
TimersOnTime ==
    [][/\ \A t \in Timers : t \in done' \ done =>
             Top.kind = "drain_tasks" \/ expires[t] <= now
       /\ Top.kind = "advance_clock" /\ Len(stack') < Len(stack) =>
             /\ now' >= Top.until
             /\ \A i \in DOMAIN timers' : timers'[i].expiration > now'
             /\ candidate_indices(FALSE)' = {}]_vars

\* Every operation the test body calls returns or panics - block, run,
\* advance_clock, drain_tasks and what the tasks inside of them call: no
\* wake-up, timer or timeout is lost.
OperationsReturn ==
    Len(stack) > 1 ~> (Len(stack) = 1 \/ outcome # "running")

\* What the comment of block says: a block that can make no progress before
\* its timeout, with no other tasks or timers left, panics unless parking is
\* allowed.
StuckBlockPanics ==
    [][InBlock("idle") /\ ~allow_parking /\ timers = <<>>
          => outcome' = "parking forbidden"]_vars

=============================================================================
