------------------------- MODULE TestSchedulerProofs ------------------------
(***************************************************************************)
(* Proofs about TestScheduler for any tasks, timers and sessions, any      *)
(* durations and any depth of nesting.                                     *)
(***************************************************************************)
EXTENDS TestScheduler, FiniteSetTheorems, SequenceTheorems,
        WellFoundedInduction, TLAPS

User(f) == f.kind \in {"test", "task"}

\* Whether the code of a user frame runs on the main thread.
Main(f) == f.kind = "task" => session[f.task] # Background

\* g lists the numbers of S from the smallest to the largest.
Lists(g, S) ==
    /\ \A i \in DOMAIN g : g[i] \in S
    /\ \A i, j \in DOMAIN g : i < j => g[i] < g[j]
    /\ \A n \in S : \E i \in DOMAIN g : g[i] = n

\* The test body is at the bottom; only user code, the loops and a block that
\* steps have called something.
ShapeInv ==
    /\ stack # <<>> /\ stack[1].kind = "test"
    /\ \A n \in 2..Len(stack) : stack[n].kind # "test"
    /\ \A n \in 1..(Len(stack) - 1) :
          \/ stack[n].kind \in {"test", "task"} \union Loops
          \/ stack[n].kind = "block" /\ stack[n].phase = "coin"

\* A task that is queued, suspended or running was spawned.
SpawnedInv ==
    /\ \A i \in 1..Len(runnables) : session[runnables[i]] # None
    /\ \A t \in Tasks : waiting[t] # None => session[t] # None
    /\ \A n \in 1..Len(stack) :
          stack[n].kind = "task" => session[stack[n].task] # None

Blocks == {n \in 1..Len(stack) : stack[n].kind = "block"}

\* blocked_sessions lists the sessions of the blocks on the stack.
BlockedInv ==
    \E g \in [1..Len(blocked_sessions) -> 1..Len(stack)] :
        /\ Lists(g, Blocks)
        /\ \A i \in 1..Len(blocked_sessions) :
              stack[g[i]].session = blocked_sessions[i]

\* Nothing that runs inside of a block belongs to its session.
NestedInv ==
    \A n, m \in 1..Len(stack) :
        n < m /\ stack[n].kind = "block" /\ stack[m].kind = "task"
            => session[stack[m].task] # stack[n].session

\* is_main_thread is right for the innermost user code, and each task that
\* runs remembers what is right for the user code it interrupted.
ThreadInv ==
    /\ \A m \in 1..Len(stack) :
          User(stack[m]) /\ (\A j \in (m + 1)..Len(stack) : ~User(stack[j]))
              => is_main_thread = Main(stack[m])
    /\ \A m, n \in 1..Len(stack) :
          /\ m < n /\ User(stack[m]) /\ stack[n].kind = "task"
          /\ \A j \in (m + 1)..(n - 1) : ~User(stack[j])
          => stack[n].was_main_thread = Main(stack[m])

\* An event has at most one waiter.
OneWaiter ==
    /\ \A t, u \in Tasks : waiting[t] = waiting[u] /\ waiting[t] # None => t = u
    /\ \A n \in Blocks : \A t \in Tasks : waiting[t] # stack[n].on
    /\ \A n, m \in Blocks : stack[n].on = stack[m].on => n = m

\* What block knows in each of its phases: a wake-up since the last poll is
\* recorded, and a step that found no work leaves none.
Knows(f) ==
    /\ f.phase = "coin" => f.stepped # "no"
    /\ f.phase \in {"coin", "swap"} /\ f.on \in done => f.awoken
    /\ f.phase \in {"idle", "park"} /\ f.on \in done => f.on = Io /\ unparked
    /\ (f.phase = "swap" /\ f.stepped = "no") \/ f.phase = "idle"
          => Io \in done \/ candidate_indices(FALSE) = {}

WakeInv == \A n \in Blocks : Knows(stack[n])

\* When block panicked nothing has happened since.
PanicInv == outcome = "parking forbidden" => InBlock("idle") /\ timers = <<>>

\* The pending timers have the expirations they were created with, and the
\* next one is the first.
SortedInv ==
    /\ \A i \in 1..Len(timers) : timers[i].expiration = expires[timers[i].id]
    /\ \A i, j \in 1..Len(timers) :
          i < j => timers[i].expiration <= timers[j].expiration

Expired(t) == expires[t] # None /\ expires[t] <= now

\* The timers that a step took out of the queue have expired.
ElapsedInv ==
    \A n \in 1..Len(stack) : stack[n].kind = "elapse" =>
        \A i \in 1..Len(stack[n].elapsed) : Expired(stack[n].elapsed[i])

\* order[s] lists the runnables of session s as they stand in the queue.
OrderInv ==
    \A s \in Sessions :
        \E g \in [1..Len(order[s]) -> 1..Len(runnables)] :
            /\ Lists(g, OfSession(s, Len(runnables)))
            /\ \A i \in 1..Len(order[s]) : runnables[g[i]] = order[s][i]

-----------------------------------------------------------------------------
(* The operators.                                                           *)

\* A set of numbers that is not empty has a least element.
LEMMA LeastElement ==
    ASSUME NEW S, S \subseteq Nat, S # {}
    PROVE  \E x \in S : \A y \in S : x <= y
<1> DEFINE R == OpToRel(<, Nat)
<1>1. IsWellFoundedOn(R, Nat)
    BY NatLessThanWellFounded
<1>2. \E x \in S : \A y \in S : ~(<<y, x>> \in R)
    BY <1>1, WFMin
<1>3. \E x \in S : \A y \in S : ~(y < x)
    BY <1>2 DEF OpToRel
<1> HIDE DEF R
<1> QED BY <1>3

\* The largest number of a bounded set.
LEMMA MaxProperties ==
    ASSUME NEW n \in Nat, NEW S, S \subseteq 0..n, S # {}
    PROVE  Max(S) \in S /\ \A y \in S : Max(S) >= y
<1> DEFINE U == {b \in Nat : \A y \in S : y <= b}
<1>1. n \in U
    OBVIOUS
<1>2. PICK b \in U : \A c \in U : b <= c
    BY <1>1, LeastElement
<1>3. b \in S
    <2> SUFFICES ASSUME b \notin S PROVE FALSE
        OBVIOUS
    <2>1. \A y \in S : y \in Nat /\ y <= b /\ y # b
        OBVIOUS
    <2>2. b \in Nat /\ b # 0
        <3>1. PICK y \in S : TRUE
            OBVIOUS
        <3> QED BY <2>1, <3>1
    <2>3. b - 1 \in Nat /\ \A y \in S : y <= b - 1
        BY <2>1, <2>2
    <2>4. b - 1 \in U
        BY <2>3
    <2> HIDE DEF U
    <2> QED BY <1>2, <2>2, <2>4
<1>4. \E x \in S : \A y \in S : x >= y
    BY <1>3
<1> QED BY <1>4, Zenon DEF Max

LEMMA MaxOfTwo ==
    ASSUME NEW a \in Nat, NEW b \in Nat
    PROVE  Max({a, b}) \in {a, b} /\ Max({a, b}) >= a /\ Max({a, b}) >= b
<1>1. \E n \in Nat : {a, b} \subseteq 0..n
    <2>1. {a, b} \subseteq 0..(a + b) /\ a + b \in Nat
        OBVIOUS
    <2> QED BY <2>1
<1> QED BY <1>1, MaxProperties

LEMMA FrontProperties ==
    ASSUME NEW S, NEW s \in Seq(S), s # <<>>
    PROVE  /\ Front(s) \in Seq(S) /\ Len(Front(s)) = Len(s) - 1
           /\ \A i \in 1..(Len(s) - 1) : Front(s)[i] = s[i]
<1>1. Len(s) \in Nat /\ Len(s) >= 1 /\ \A i \in 1..(Len(s) - 1) : s[i] \in S
    OBVIOUS
<1>2. /\ SubSeq(s, 1, Len(s) - 1) \in Seq(S)
      /\ Len(SubSeq(s, 1, Len(s) - 1)) =
            IF 1 <= Len(s) - 1 THEN (Len(s) - 1) - 1 + 1 ELSE 0
      /\ \A i \in 1..((Len(s) - 1) - 1 + 1) :
            SubSeq(s, 1, Len(s) - 1)[i] = s[1 + i - 1]
    BY <1>1, SubSeqProperties
<1>3. PICK f \in Seq(S) :
          /\ f = SubSeq(s, 1, Len(s) - 1)
          /\ Len(f) = IF 1 <= Len(s) - 1 THEN (Len(s) - 1) - 1 + 1 ELSE 0
          /\ \A i \in 1..((Len(s) - 1) - 1 + 1) : f[i] = s[1 + i - 1]
    BY <1>2, Zenon
<1>4. f = Front(s)
    BY <1>3, Zenon DEF Front
<1>5. Len(f) = Len(s) - 1
    <2>1. \A n \in Nat : n >= 1 =>
              (IF 1 <= n - 1 THEN (n - 1) - 1 + 1 ELSE 0) = n - 1
        OBVIOUS
    <2>2. (IF 1 <= Len(s) - 1 THEN (Len(s) - 1) - 1 + 1 ELSE 0) = Len(s) - 1
        BY <1>1, <2>1, Zenon
    <2> QED BY <1>3, <2>2, Zenon
<1>6. \A i \in 1..(Len(s) - 1) : i = 1 + i - 1 /\ i \in 1..((Len(s) - 1) - 1 + 1)
    BY <1>1
<1>7. \A i \in 1..(Len(s) - 1) : f[i] = s[i]
    BY <1>3, <1>6, Zenon
<1> QED BY <1>4, <1>5, <1>7, Zenon

LEMMA InsertAtProperties ==
    ASSUME NEW S, NEW s \in Seq(S), NEW e \in S, NEW i \in 1..(Len(s) + 1)
    PROVE  /\ InsertAt(s, i, e) \in Seq(S)
           /\ Len(InsertAt(s, i, e)) = Len(s) + 1
           /\ InsertAt(s, i, e)[i] = e
           /\ \A j \in 1..Len(s) : j < i => InsertAt(s, i, e)[j] = s[j]
           /\ \A j \in 1..Len(s) : j >= i => InsertAt(s, i, e)[j + 1] = s[j]
<1> DEFINE a == SubSeq(s, 1, i - 1)
           b == SubSeq(s, i, Len(s))
<1>1. Len(s) \in Nat /\ \A j \in 1..Len(s) : s[j] \in S
    OBVIOUS
<1>2. /\ a \in Seq(S) /\ Len(a) = i - 1
      /\ \A j \in 1..(i - 1) : a[j] = s[j]
    BY <1>1, SubSeqProperties
<1>3. /\ b \in Seq(S) /\ Len(b) = Len(s) - i + 1
      /\ \A j \in 1..(Len(s) - i + 1) : b[j] = s[i + j - 1]
    BY <1>1, SubSeqProperties
<1>4. InsertAt(s, i, e) = (a \o <<e>>) \o b
    BY DEF InsertAt
<1> HIDE DEF a, b
<1>5. /\ a \o <<e>> \in Seq(S) /\ Len(a \o <<e>>) = i
      /\ (a \o <<e>>)[i] = e
      /\ \A j \in 1..(i - 1) : (a \o <<e>>)[j] = s[j]
    BY <1>2
<1>6. PICK c \in Seq(S) : c = a \o <<e>>
    BY <1>5
<1>7. /\ c \o b \in Seq(S) /\ Len(c \o b) = Len(s) + 1
      /\ \A j \in 1..i : (c \o b)[j] = c[j]
      /\ \A j \in (i + 1)..(Len(s) + 1) : (c \o b)[j] = b[j - i]
    <2>1. Len(c) = i /\ i \in Nat
        BY <1>5, <1>6
    <2> QED BY <1>1, <1>3, <2>1
<1>8. (c \o b)[i] = e /\ \A j \in 1..Len(s) : j < i => (c \o b)[j] = s[j]
    BY <1>1, <1>5, <1>6, <1>7
<1>9. \A j \in 1..Len(s) : j >= i => (c \o b)[j + 1] = s[j]
    BY <1>1, <1>3, <1>7
<1> QED BY <1>4, <1>6, <1>7, <1>8, <1>9

LEMMA RemoveAtProperties ==
    ASSUME NEW S, NEW s \in Seq(S), NEW i \in 1..Len(s)
    PROVE  /\ RemoveAt(s, i) \in Seq(S)
           /\ Len(RemoveAt(s, i)) = Len(s) - 1
           /\ \A j \in 1..(Len(s) - 1) : j < i => RemoveAt(s, i)[j] = s[j]
           /\ \A j \in 1..(Len(s) - 1) : j >= i => RemoveAt(s, i)[j] = s[j + 1]
<1> DEFINE a == SubSeq(s, 1, i - 1)
           b == SubSeq(s, i + 1, Len(s))
<1>1. Len(s) \in Nat /\ \A j \in 1..Len(s) : s[j] \in S
    OBVIOUS
<1>2. /\ a \in Seq(S) /\ Len(a) = i - 1
      /\ \A j \in 1..(i - 1) : a[j] = s[j]
    BY <1>1, SubSeqProperties
<1>3. /\ b \in Seq(S) /\ Len(b) = Len(s) - i
      /\ \A j \in 1..(Len(s) - i) : b[j] = s[i + j]
    <2>1. /\ b \in Seq(S) /\ Len(b) = IF i + 1 <= Len(s) THEN Len(s) - (i + 1) + 1 ELSE 0
          /\ \A j \in 1..(Len(s) - (i + 1) + 1) : b[j] = s[(i + 1) + j - 1]
        BY <1>1, SubSeqProperties
    <2> QED BY <1>1, <2>1
<1>4. RemoveAt(s, i) = a \o b
    BY DEF RemoveAt
<1> HIDE DEF a, b
<1>5. /\ a \o b \in Seq(S) /\ Len(a \o b) = Len(s) - 1
      /\ \A j \in 1..(i - 1) : (a \o b)[j] = a[j]
      /\ \A j \in i..(Len(s) - 1) : (a \o b)[j] = b[j - i + 1]
    BY <1>1, <1>2, <1>3
<1>6. \A j \in 1..(Len(s) - 1) : j < i => (a \o b)[j] = s[j]
    BY <1>1, <1>2, <1>5
<1>7. \A j \in 1..(Len(s) - 1) : j >= i => (a \o b)[j] = s[j + 1]
    BY <1>1, <1>3, <1>5
<1> QED BY <1>4, <1>5, <1>6, <1>7

\* A set of positions that is closed downwards is an interval.
LEMMA PrefixSize ==
    ASSUME NEW n \in Nat, NEW E, E \subseteq 1..n,
           \A i \in E : \A j \in 1..i : j \in E
    PROVE  Cardinality(E) \in 0..n /\ E = 1..Cardinality(E)
<1>1. E \union {0} \subseteq 0..n
    OBVIOUS
<1>2. PICK k \in E \union {0} : \A y \in E \union {0} : k >= y
    BY <1>1, MaxProperties
<1>3. k \in 0..n
    BY <1>1
<1>4. E = 1..k
    <2>1. \A y \in E : y \in 1..k
        BY <1>2, <1>3
    <2>2. \A j \in 1..k : k # 0
        BY <1>3
    <2>3. \A j \in 1..k : j \in E
        BY <1>2, <2>2
    <2> QED BY <2>1, <2>3
<1>5. Cardinality(1..k) = k
    <2>1. Cardinality(1..k) = IF 1 > k THEN 0 ELSE k - 1 + 1
        BY <1>3, FS_Interval
    <2> QED BY <1>3, <2>1
<1> QED BY <1>3, <1>4, <1>5

-----------------------------------------------------------------------------
(* Frames.                                                                  *)

Kinds == {"block", "test", "run", "run_with_clock_advancement",
          "advance_clock", "task", "elapse", "drain_tasks"}

\* What is known of a frame from its kind.
LEMMA FrameFields ==
    ASSUME NEW f \in Frames
    PROVE  /\ f.kind \in Kinds
           /\ f.kind = "block" => f \in BlockFrames
           /\ f.kind = "task" => f.task \in Tasks /\ f.was_main_thread \in BOOLEAN
           /\ f.kind = "advance_clock" => f.until \in 0..MaxNow
           /\ f.kind = "elapse" => f.elapsed \in Seq(Timers) /\ f.elapsed # <<>>
           /\ f.kind = "drain_tasks" => f.timers \in Seq(Timers) /\ f.tasks \in Seq(Tasks)
BY DEF Frames, BlockFrames, Kinds

\* A frame whose block was woken.
Woken(f, g) == g = f \/ (f.kind = "block" /\ g = [f EXCEPT !.awoken = TRUE])

LEMMA WokenFrame ==
    ASSUME NEW f \in Frames, NEW g, Woken(f, g)
    PROVE  /\ g \in Frames /\ g.kind = f.kind
           /\ f.kind # "block" => g = f
           /\ f.kind = "block" =>
                 /\ g \in BlockFrames
                 /\ g.session = f.session /\ g.on = f.on /\ g.phase = f.phase
                 /\ g.stepped = f.stepped
                 /\ (f.awoken => g.awoken)
<1>1. CASE g = f
    BY <1>1, FrameFields
<1>2. CASE f.kind = "block" /\ g = [f EXCEPT !.awoken = TRUE]
    <2>1. f \in BlockFrames
        BY <1>2, FrameFields
    <2>2. /\ g \in BlockFrames /\ g.kind = "block"
          /\ g.session = f.session /\ g.on = f.on /\ g.phase = f.phase
          /\ g.stepped = f.stepped /\ g.awoken = TRUE
        BY <1>2, <2>1 DEF BlockFrames
    <2> QED BY <1>2, <2>2 DEF Frames
<1> QED BY <1>1, <1>2 DEF Woken

\* The top of the stack and what is below it.
LEMMA TopFrame ==
    ASSUME TypeOK, stack # <<>>
    PROVE  /\ Len(stack) \in Nat /\ Len(stack) >= 1
           /\ Top = stack[Len(stack)] /\ Top \in Frames
           /\ Callers \in Seq(Frames) /\ Len(Callers) = Len(stack) - 1
           /\ \A i \in 1..(Len(stack) - 1) : Callers[i] = stack[i]
<1>1. stack \in Seq(Frames)
    BY DEF TypeOK
<1>2. Len(stack) \in Nat /\ Len(stack) >= 1 /\ stack[Len(stack)] \in Frames
    BY <1>1
<1> QED BY <1>1, <1>2, FrontProperties DEF Top, Callers

LEMMA TopReplaced ==
    ASSUME TypeOK, stack # <<>>, NEW f \in Frames
    PROVE  /\ WithTop(f) \in Seq(Frames) /\ Len(WithTop(f)) = Len(stack)
           /\ WithTop(f)[Len(stack)] = f
           /\ \A i \in 1..(Len(stack) - 1) : WithTop(f)[i] = stack[i]
<1>1. PICK c \in Seq(Frames) : c = Callers
    BY TopFrame
<1>2. /\ Len(stack) \in Nat /\ Len(stack) >= 1 /\ Len(c) = Len(stack) - 1
      /\ \A i \in 1..(Len(stack) - 1) : c[i] = stack[i]
    BY <1>1, TopFrame, Zenon
<1>3. WithTop(f) = Append(c, f)
    BY <1>1 DEF WithTop
<1>4. /\ Append(c, f) \in Seq(Frames) /\ Len(Append(c, f)) = Len(c) + 1
      /\ Append(c, f)[Len(c) + 1] = f
      /\ \A i \in 1..Len(c) : Append(c, f)[i] = c[i]
    OBVIOUS
<1>5. Len(c) + 1 = Len(stack)
    BY <1>2
<1>6. WithTop(f) \in Seq(Frames) /\ Len(WithTop(f)) = Len(stack)
      /\ WithTop(f)[Len(stack)] = f
    BY <1>3, <1>4, <1>5, Zenon
<1>7. \A i \in 1..(Len(stack) - 1) : WithTop(f)[i] = stack[i]
    BY <1>2, <1>3, <1>4, Zenon
<1> QED BY <1>6, <1>7

-----------------------------------------------------------------------------
(* Scheduling and waking.                                                   *)

\* A runnable is inserted behind those of its session.
LEMMA InsertionIndices ==
    ASSUME runnables \in Seq(Tasks), NEW s, NEW i \in insertion_indices(s)
    PROVE  /\ i \in 1..(Len(runnables) + 1)
           /\ s # Background => \A j \in OfSession(s, Len(runnables)) : j < i
<1> DEFINE same == {j \in DOMAIN runnables :
                       s # Background /\ session[runnables[j]] = s}
           m == Max(same \union {0})
<1>1. Len(runnables) \in Nat /\ DOMAIN runnables = 1..Len(runnables)
    OBVIOUS
<1>2. same \union {0} \subseteq 0..Len(runnables)
    BY <1>1
<1>3. m \in same \union {0} /\ \A y \in same \union {0} : m >= y
    BY <1>1, <1>2, MaxProperties
<1>4. i \in (m + 1)..(Len(runnables) + 1)
    BY DEF insertion_indices
<1>5. m \in 0..Len(runnables)
    BY <1>2, <1>3
<1> HIDE DEF m
<1>6. i \in 1..(Len(runnables) + 1) /\ m < i
    BY <1>1, <1>4, <1>5
<1>7. s # Background => \A j \in OfSession(s, Len(runnables)) : j \in same
    BY <1>1 DEF OfSession
<1>8. \A j \in same : j <= m /\ j \in 1..Len(runnables)
    BY <1>1, <1>3, <1>5
<1> HIDE DEF same
<1> QED BY <1>5, <1>6, <1>7, <1>8

\* What a step that schedules t on s does to the queue.
LEMMA ScheduleInserts ==
    ASSUME runnables \in Seq(Tasks), NEW t \in Tasks, NEW s, schedule(t, s)
    PROVE  \E i \in 1..(Len(runnables) + 1) :
              /\ runnables' = InsertAt(runnables, i, t)
              /\ s # Background => \A j \in OfSession(s, Len(runnables)) : j < i
<1>1. PICK i \in insertion_indices(s) : runnables' = InsertAt(runnables, i, t)
    BY DEF schedule
<1> QED BY <1>1, InsertionIndices

LEMMA ScheduleTypes ==
    ASSUME TypeOK, NEW t \in Tasks, NEW s, schedule(t, s)
    PROVE  /\ runnables' \in Seq(Tasks) /\ order' \in [Sessions -> Seq(Tasks)]
           /\ unparked' \in BOOLEAN
<1>1. runnables \in Seq(Tasks) /\ order \in [Sessions -> Seq(Tasks)]
    BY DEF TypeOK
<1>2. runnables' \in Seq(Tasks)
    BY <1>1, ScheduleInserts, InsertAtProperties
<1>3. order' \in [Sessions -> Seq(Tasks)]
    BY <1>1 DEF schedule
<1>4. unparked' \in BOOLEAN
    BY Zenon DEF schedule
<1> QED BY <1>2, <1>3, <1>4

\* The stack and the waiters after an event completed.
LEMMA CompleteStack ==
    ASSUME TypeOK, NEW e \in Events, NEW frames \in Seq(Frames), complete(e, frames)
    PROVE  /\ stack' \in Seq(Frames) /\ Len(stack') = Len(frames)
           /\ \A n \in 1..Len(frames) : Woken(frames[n], stack'[n])
           /\ runnables' \in Seq(Tasks) /\ order' \in [Sessions -> Seq(Tasks)]
           /\ unparked' \in BOOLEAN
           /\ waiting' \in [Tasks -> (Events \union {None})]
           /\ \A t \in Tasks : waiting'[t] \in {waiting[t], None}
           /\ done' = done \union {e}
<1>1. done' = done \union {e}
    BY DEF complete
<1>2. /\ runnables \in Seq(Tasks) /\ order \in [Sessions -> Seq(Tasks)]
      /\ unparked \in BOOLEAN /\ waiting \in [Tasks -> (Events \union {None})]
    BY DEF TypeOK
<1>3. ASSUME NEW t \in Suspended(e), waiting' = [waiting EXCEPT ![t] = None],
             stack' = frames, schedule(t, session[t])
      PROVE  /\ stack' \in Seq(Frames) /\ Len(stack') = Len(frames)
             /\ \A n \in 1..Len(frames) : Woken(frames[n], stack'[n])
             /\ runnables' \in Seq(Tasks) /\ order' \in [Sessions -> Seq(Tasks)]
             /\ unparked' \in BOOLEAN
             /\ waiting' \in [Tasks -> (Events \union {None})]
             /\ \A u \in Tasks : waiting'[u] \in {waiting[u], None}
    <2>1. t \in Tasks
        BY DEF Suspended
    <2>2. /\ runnables' \in Seq(Tasks) /\ order' \in [Sessions -> Seq(Tasks)]
          /\ unparked' \in BOOLEAN
        BY <1>3, <2>1, ScheduleTypes
    <2>3. /\ waiting' \in [Tasks -> (Events \union {None})]
          /\ \A u \in Tasks : waiting'[u] \in {waiting[u], None}
        BY <1>2, <1>3, <2>1
    <2> QED BY <1>3, <2>2, <2>3 DEF Woken
<1>4. ASSUME NEW n \in PolledBlocks(e, frames), wake_block(n, frames)
      PROVE  /\ stack' \in Seq(Frames) /\ Len(stack') = Len(frames)
             /\ \A m \in 1..Len(frames) : Woken(frames[m], stack'[m])
             /\ unparked' \in BOOLEAN
             /\ UNCHANGED <<runnables, order, waiting>>
    <2>1. n \in 1..Len(frames) /\ frames[n].kind = "block"
        BY <1>4 DEF PolledBlocks
    <2>2. PICK g : g = [frames[n] EXCEPT !.awoken = TRUE]
        OBVIOUS
    <2>3. stack' = [frames EXCEPT ![n] = g]
        BY <1>4, <2>2 DEF wake_block
    <2>4. Woken(frames[n], g)
        BY <2>1, <2>2 DEF Woken
    <2>5. g \in Frames
        BY <2>1, <2>4, WokenFrame
    <2>6. stack' \in Seq(Frames) /\ Len(stack') = Len(frames)
          /\ stack'[n] = g /\ \A m \in 1..Len(frames) : m # n => stack'[m] = frames[m]
        BY <2>1, <2>3, <2>5
    <2>7. \A m \in 1..Len(frames) : Woken(frames[m], stack'[m])
        BY <2>4, <2>6 DEF Woken
    <2>8. unparked' \in BOOLEAN /\ UNCHANGED <<runnables, order, waiting>>
        BY <1>4, Zenon DEF wake_block
    <2> QED BY <2>6, <2>7, <2>8
<1>5. ASSUME stack' = frames, UNCHANGED <<runnables, order, unparked, waiting>>
      PROVE  /\ stack' \in Seq(Frames) /\ Len(stack') = Len(frames)
             /\ \A m \in 1..Len(frames) : Woken(frames[m], stack'[m])
    BY <1>5 DEF Woken
<1>6. \/ \E t \in Suspended(e) :
            /\ waiting' = [waiting EXCEPT ![t] = None]
            /\ stack' = frames
            /\ schedule(t, session[t])
      \/ \E n \in PolledBlocks(e, frames) : wake_block(n, frames)
      \/ stack' = frames /\ UNCHANGED <<runnables, order, unparked, waiting>>
    BY Zenon DEF complete
<1>7. CASE \E t \in Suspended(e) :
            /\ waiting' = [waiting EXCEPT ![t] = None]
            /\ stack' = frames
            /\ schedule(t, session[t])
    BY <1>1, <1>3, <1>7
<1>8. CASE \E n \in PolledBlocks(e, frames) : wake_block(n, frames)
    BY <1>1, <1>2, <1>4, <1>8
<1>9. CASE stack' = frames /\ UNCHANGED <<runnables, order, unparked, waiting>>
    BY <1>1, <1>2, <1>5, <1>9
<1> QED BY <1>6, <1>7, <1>8, <1>9

-----------------------------------------------------------------------------
(* A step of the scheduler.                                                 *)

\* The pending timers.
LEMMA TimerRecords ==
    ASSUME NEW s \in Seq([id: Timers, expiration: 0..MaxNow])
    PROVE  \A i \in 1..Len(s) :
              /\ s[i] \in [id: Timers, expiration: 0..MaxNow]
              /\ s[i].id \in Timers /\ s[i].expiration \in 0..MaxNow
<1> DEFINE R == [id: Timers, expiration: 0..MaxNow]
<1>1. \A r \in R : r.id \in Timers /\ r.expiration \in 0..MaxNow
    BY Zenon
<1> HIDE DEF R
<1>2. s \in Seq(R)
    BY DEF R
<1>3. \A i \in 1..Len(s) : s[i] \in R
    BY <1>2
<1> QED BY <1>1, <1>3, Zenon DEF R

\* The timers that have expired are the first ones.
LEMMA ExpiredPrefix ==
    ASSUME TypeOK
    PROVE  /\ end_ix \in 0..Len(timers)
           /\ \A i \in 1..end_ix : timers[i].expiration <= now
           /\ end_ix = 0 => timers = <<>> \/ ~(timers[1].expiration <= now)
<1> DEFINE E == {i \in DOMAIN timers : \A j \in 1..i : timers[j].expiration <= now}
<1>1. timers \in Seq([id: Timers, expiration: 0..MaxNow])
    BY DEF TypeOK
<1>2. Len(timers) \in Nat /\ DOMAIN timers = 1..Len(timers)
    BY <1>1
<1>3. E \subseteq 1..Len(timers) /\ \A i \in E : \A j \in 1..i : j \in E
    BY <1>2
<1>4. Cardinality(E) \in 0..Len(timers) /\ E = 1..Cardinality(E)
    BY <1>2, <1>3, PrefixSize
<1>5. end_ix = Cardinality(E)
    BY DEF end_ix
<1>6. \A i \in E : i \in 1..i /\ timers[i].expiration <= now
    BY <1>2
<1>7. ASSUME end_ix = 0, timers # <<>> PROVE ~(timers[1].expiration <= now)
    <2>1. E = {}
        <3>1. 1..0 = {}
            OBVIOUS
        <3>2. Cardinality(E) = 0 /\ E = 1..Cardinality(E)
            BY <1>4, <1>5, <1>7
        <3> HIDE DEF E
        <3> QED BY <3>1, <3>2
    <2>2. 1 \in DOMAIN timers
        BY <1>1, <1>7
    <2>3. 1 \notin E
        BY <2>1, Zenon
    <2>4. ~(\A j \in 1..1 : timers[j].expiration <= now)
        BY <2>2, <2>3
    <2> QED BY <2>4
<1> HIDE DEF E
<1>8. \A i \in 1..end_ix : timers[i].expiration <= now
    BY <1>4, <1>5, <1>6
<1> QED BY <1>4, <1>5, <1>7, <1>8

\* The two kinds of work that a step does, and the frame f it pushes.
Elapses(f) ==
    /\ f.kind = "elapse" /\ end_ix > 0
    /\ Len(f.elapsed) = end_ix
    /\ \A i \in 1..end_ix : f.elapsed[i] = timers[i].id
    /\ timers' = SubSeq(timers, end_ix + 1, Len(timers))
    /\ UNCHANGED <<runnables, is_main_thread, order>>

RunsTask(b, f) ==
    /\ f.kind = "task" /\ UNCHANGED timers
    /\ f.was_main_thread = is_main_thread
    /\ is_main_thread' = (session[f.task] # Background)
    /\ \E i \in candidate_indices(b) :
          /\ f.task = runnables[i]
          /\ runnables' = RemoveAt(runnables, i)
    /\ order' = [s \in Sessions |->
          IF session[f.task] = s THEN Tail(order[s]) ELSE order[s]]

LEMMA StepPushes ==
    ASSUME TypeOK, NEW b \in BOOLEAN, NEW frames, step_filtered(b, frames)
    PROVE  \E f \in Frames :
              stack' = Append(frames, f) /\ (Elapses(f) \/ RunsTask(b, f))
<1>1. /\ timers \in Seq([id: Timers, expiration: 0..MaxNow])
      /\ runnables \in Seq(Tasks)
    BY DEF TypeOK
<1>2. is_main_thread \in BOOLEAN
    BY DEF TypeOK
<1>3. ASSUME end_ix > 0,
             timers' = SubSeq(timers, end_ix + 1, Len(timers)),
             stack' = Append(frames, [kind |-> "elapse",
                        elapsed |-> [i \in 1..end_ix |-> timers[i].id]]),
             UNCHANGED <<runnables, is_main_thread, order>>
      PROVE  \E f \in Frames :
                /\ stack' = Append(frames, f)
                /\ f.kind = "elapse"
                /\ Len(f.elapsed) = end_ix
                /\ \A i \in 1..end_ix : f.elapsed[i] = timers[i].id
    <2>1. end_ix \in 0..Len(timers)
        BY ExpiredPrefix
    <2>2. PICK n \in Nat : n = end_ix /\ n \in 1..Len(timers)
        BY <1>1, <1>3, <2>1
    <2>3. PICK l : l = [i \in 1..n |-> timers[i].id]
        OBVIOUS
    <2>4. \A i \in 1..n : timers[i].id \in Timers
        <3>1. \A i \in 1..Len(timers) : timers[i].id \in Timers
            BY <1>1, TimerRecords
        <3>2. \A i \in 1..n : i \in 1..Len(timers)
            BY <1>1, <2>2
        <3> QED BY <3>1, <3>2, Zenon
    <2>5. l \in Seq(Timers) /\ Len(l) = n /\ l # <<>>
        BY <2>2, <2>3, <2>4
    <2>6. PICK f : f = [kind |-> "elapse", elapsed |-> l]
        OBVIOUS
    <2>7. f \in Frames /\ f.kind = "elapse" /\ f.elapsed = l
        <3>1. /\ f \in [kind: {"elapse"}, elapsed: Seq(Timers) \ {<<>>}]
              /\ f.kind = "elapse" /\ f.elapsed = l
            BY <2>5, <2>6
        <3> QED BY <3>1 DEF Frames
    <2>8. stack' = Append(frames, f)
        BY <1>3, <2>2, <2>3, <2>6
    <2> QED BY <2>2, <2>3, <2>5, <2>7, <2>8
<1>4. ASSUME NEW i \in candidate_indices(b),
             stack' = Append(frames, [kind |-> "task", task |-> runnables[i],
                                      was_main_thread |-> is_main_thread])
      PROVE  \E f \in Frames :
                /\ stack' = Append(frames, f)
                /\ f.kind = "task" /\ f.task = runnables[i]
                /\ f.was_main_thread = is_main_thread
    <2>1. runnables[i] \in Tasks
        BY <1>1 DEF candidate_indices
    <2>2. PICK f : f = [kind |-> "task", task |-> runnables[i],
                        was_main_thread |-> is_main_thread]
        OBVIOUS
    <2>3. f \in [kind: {"task"}, task: Tasks, was_main_thread: BOOLEAN]
        BY <1>2, <2>1, <2>2
    <2>4. f \in Frames
        BY <2>3 DEF Frames
    <2>5. f.kind = "task" /\ f.task = runnables[i]
        BY <2>2
    <2>6. f.was_main_thread = is_main_thread
        BY <2>2
    <2> QED BY <1>4, <2>2, <2>4, <2>5, <2>6
<1>5. \/ /\ end_ix > 0
         /\ timers' = SubSeq(timers, end_ix + 1, Len(timers))
         /\ stack' = Append(frames, [kind |-> "elapse",
                       elapsed |-> [i \in 1..end_ix |-> timers[i].id]])
         /\ UNCHANGED <<runnables, is_main_thread, order>>
      \/ /\ UNCHANGED timers
         /\ \E i \in candidate_indices(b) :
               /\ runnables' = RemoveAt(runnables, i)
               /\ stack' = Append(frames, [kind |-> "task", task |-> runnables[i],
                                    was_main_thread |-> is_main_thread])
               /\ is_main_thread' = (session[runnables[i]] # Background)
               /\ order' = [s \in Sessions |->
                     IF session[runnables[i]] = s THEN Tail(order[s]) ELSE order[s]]
    BY Zenon DEF step_filtered
<1>6. CASE /\ end_ix > 0
           /\ timers' = SubSeq(timers, end_ix + 1, Len(timers))
           /\ stack' = Append(frames, [kind |-> "elapse",
                         elapsed |-> [i \in 1..end_ix |-> timers[i].id]])
           /\ UNCHANGED <<runnables, is_main_thread, order>>
    BY <1>3, <1>6, Zenon DEF Elapses
<1>7. ASSUME UNCHANGED timers,
             NEW i \in candidate_indices(b),
             runnables' = RemoveAt(runnables, i),
             stack' = Append(frames, [kind |-> "task", task |-> runnables[i],
                                      was_main_thread |-> is_main_thread]),
             is_main_thread' = (session[runnables[i]] # Background),
             order' = [s \in Sessions |->
                 IF session[runnables[i]] = s THEN Tail(order[s]) ELSE order[s]]
      PROVE  \E f \in Frames :
              /\ stack' = Append(frames, f)
              /\ f.kind = "task"
              /\ f.was_main_thread = is_main_thread
              /\ is_main_thread' = (session[f.task] # Background)
              /\ f.task = runnables[i]
              /\ order' = [s \in Sessions |->
                    IF session[f.task] = s THEN Tail(order[s]) ELSE order[s]]
    <2>1. PICK f \in Frames :
              /\ stack' = Append(frames, f)
              /\ f.kind = "task" /\ f.task = runnables[i]
              /\ f.was_main_thread = is_main_thread
        BY <1>4, <1>7
    <2>2. is_main_thread' = (session[f.task] # Background)
        BY <1>7, <2>1, Zenon
    <2>3. order' = [s \in Sessions |->
                    IF session[f.task] = s THEN Tail(order[s]) ELSE order[s]]
        <3> DEFINE O(t) == [s \in Sessions |->
                               IF session[t] = s THEN Tail(order[s]) ELSE order[s]]
        <3>1. order' = O(runnables[i])
            BY <1>7, Zenon
        <3>2. f.task = runnables[i]
            BY <2>1
        <3> HIDE DEF O
        <3>3. order' = O(f.task)
            BY <3>1, <3>2
        <3> QED BY <3>3, Zenon DEF O
    <2> QED BY <2>1, <2>2, <2>3, Zenon
<1>8. ASSUME UNCHANGED timers,
             NEW i \in candidate_indices(b),
             runnables' = RemoveAt(runnables, i),
             NEW f \in Frames,
             f.kind = "task",
             f.was_main_thread = is_main_thread,
             is_main_thread' = (session[f.task] # Background),
             f.task = runnables[i],
             order' = [s \in Sessions |->
                    IF session[f.task] = s THEN Tail(order[s]) ELSE order[s]]
      PROVE  RunsTask(b, f)
    BY <1>8, Zenon DEF RunsTask
<1> QED BY <1>5, <1>6, <1>7, <1>8, Zenon

-----------------------------------------------------------------------------
(* What a step does to the stack: the operation that runs goes on, calls    *)
(* something, or returns.                                                   *)

Same(f, g) ==
    /\ g.kind = f.kind
    /\ f.kind = "task" => g = f
    /\ f.kind = "block" => g.session = f.session /\ g.on = f.on

Below == \A n \in 1..(Len(stack) - 1) : Woken(stack[n], stack'[n])

GoesOn ==
    /\ stack' \in Seq(Frames) /\ Len(stack') = Len(stack) /\ Below
    /\ Same(stack[Len(stack)], stack'[Len(stack)])
    /\ UNCHANGED <<is_main_thread, blocked_sessions>>

\* What is said of the frame f that is pushed.
Called(f) ==
    \/ /\ f.kind = "task" /\ f.was_main_thread = is_main_thread
       /\ is_main_thread' = (session[f.task] # Background)
       /\ UNCHANGED blocked_sessions
       /\ \E i \in 1..Len(runnables) : f.task = runnables[i]
       /\ \A i \in 1..Len(blocked_sessions) : blocked_sessions[i] # session[f.task]
    \/ /\ f.kind = "block" /\ f.phase = "poll" /\ f.session \in Sessions
       /\ f.on \in Events /\ Awaitable(f.on)
       /\ blocked_sessions' = Append(blocked_sessions, f.session)
       /\ UNCHANGED is_main_thread
    \/ /\ f.kind \in Loops \union {"elapse", "drain_tasks"}
       /\ f.kind = "elapse" => Elapses(f)
       /\ UNCHANGED <<is_main_thread, blocked_sessions>>

Calls(f) ==
    /\ stack' \in Seq(Frames) /\ Len(stack') = Len(stack) + 1 /\ Below
    /\ Same(stack[Len(stack)], stack'[Len(stack)])
    /\ \/ stack[Len(stack)].kind \in {"test", "task"} \union Loops
       \/ stack[Len(stack)].kind = "block" /\ stack'[Len(stack)].phase = "coin"
    /\ stack'[Len(stack) + 1] = f
    /\ Called(f)

Returns ==
    /\ stack' \in Seq(Frames) /\ Len(stack') = Len(stack) - 1 /\ Below
    /\ \/ /\ Top.kind = "task" /\ is_main_thread' = Top.was_main_thread
          /\ UNCHANGED blocked_sessions
       \/ /\ Top.kind = "block" /\ blocked_sessions' = Front(blocked_sessions)
          /\ UNCHANGED is_main_thread
       \/ /\ Top.kind \in Loops \union {"elapse", "drain_tasks"}
          /\ UNCHANGED <<is_main_thread, blocked_sessions>>

Moves == GoesOn \/ (\E f \in Frames : Calls(f)) \/ Returns

LEMMA UnmovedStack ==
    ASSUME TypeOK, stack # <<>>, UNCHANGED <<stack, is_main_thread, blocked_sessions>>
    PROVE  GoesOn
<1>1. stack \in Seq(Frames)
    BY DEF TypeOK
<1> QED BY <1>1 DEF GoesOn, Below, Same, Woken

LEMMA ReplaceTop ==
    ASSUME TypeOK, stack # <<>>, NEW f \in Frames, Same(Top, f),
           stack' = WithTop(f)
    PROVE  /\ stack' \in Seq(Frames) /\ Len(stack') = Len(stack) /\ Below
           /\ Same(stack[Len(stack)], stack'[Len(stack)])
           /\ stack'[Len(stack)] = f
<1>1. /\ WithTop(f) \in Seq(Frames) /\ Len(WithTop(f)) = Len(stack)
      /\ WithTop(f)[Len(stack)] = f
      /\ \A i \in 1..(Len(stack) - 1) : WithTop(f)[i] = stack[i]
    BY TopReplaced
<1>2. Top = stack[Len(stack)]
    BY TopFrame
<1> QED BY <1>1, <1>2, Zenon DEF Below, Woken

LEMMA PopTop ==
    ASSUME TypeOK, stack # <<>>, stack' = Callers
    PROVE  stack' \in Seq(Frames) /\ Len(stack') = Len(stack) - 1 /\ Below
<1>1. /\ Callers \in Seq(Frames) /\ Len(Callers) = Len(stack) - 1
      /\ \A i \in 1..(Len(stack) - 1) : Callers[i] = stack[i]
    BY TopFrame
<1> QED BY <1>1, Zenon DEF Below, Woken

\* An event completes as the operation at the top returns.
LEMMA PopCompletes ==
    ASSUME TypeOK, stack # <<>>, NEW e \in Events, complete(e, Callers)
    PROVE  stack' \in Seq(Frames) /\ Len(stack') = Len(stack) - 1 /\ Below
<1>1. /\ Callers \in Seq(Frames) /\ Len(Callers) = Len(stack) - 1
      /\ \A i \in 1..(Len(stack) - 1) : Callers[i] = stack[i]
    BY TopFrame
<1>2. /\ stack' \in Seq(Frames) /\ Len(stack') = Len(Callers)
      /\ \A n \in 1..Len(Callers) : Woken(Callers[n], stack'[n])
    BY <1>1, CompleteStack
<1> QED BY <1>1, <1>2, Zenon DEF Below

LEMMA WokenIsSame ==
    ASSUME NEW f \in Frames, NEW g, Woken(f, g)
    PROVE  Same(f, g)
BY WokenFrame DEF Same

\* An event completes while the operation at the top goes on as f.
LEMMA TopCompletes ==
    ASSUME TypeOK, stack # <<>>, NEW e \in Events, NEW f \in Frames, Same(Top, f),
           complete(e, WithTop(f))
    PROVE  /\ stack' \in Seq(Frames) /\ Len(stack') = Len(stack) /\ Below
           /\ Same(stack[Len(stack)], stack'[Len(stack)])
           /\ Woken(f, stack'[Len(stack)])
<1>1. /\ WithTop(f) \in Seq(Frames) /\ Len(WithTop(f)) = Len(stack)
      /\ WithTop(f)[Len(stack)] = f
      /\ \A i \in 1..(Len(stack) - 1) : WithTop(f)[i] = stack[i]
    BY TopReplaced
<1>2. /\ stack' \in Seq(Frames) /\ Len(stack') = Len(WithTop(f))
      /\ \A n \in 1..Len(WithTop(f)) : Woken(WithTop(f)[n], stack'[n])
    BY <1>1, CompleteStack
<1>3. /\ Len(stack) \in 1..Len(stack)
      /\ \A i \in 1..(Len(stack) - 1) : i \in 1..Len(stack)
    BY TopFrame
<1>4. Below
    BY <1>1, <1>2, <1>3, Zenon DEF Below
<1>5. Woken(f, stack'[Len(stack)])
    BY <1>1, <1>2, <1>3, Zenon
<1>6. Same(f, stack'[Len(stack)])
    BY <1>5, WokenIsSame
<1>7. Top = stack[Len(stack)] /\ Top \in Frames
    BY TopFrame
<1>8. Same(stack[Len(stack)], stack'[Len(stack)])
    BY <1>6, <1>7 DEF Same
<1> QED BY <1>1, <1>2, <1>4, <1>5, <1>8

LEMMA PushFrame ==
    ASSUME TypeOK, stack # <<>>, NEW f \in Frames, stack' = Append(stack, f)
    PROVE  /\ stack' \in Seq(Frames) /\ Len(stack') = Len(stack) + 1 /\ Below
           /\ Same(stack[Len(stack)], stack'[Len(stack)])
           /\ stack'[Len(stack)] = stack[Len(stack)]
           /\ stack'[Len(stack) + 1] = f
<1>1. stack \in Seq(Frames)
    BY DEF TypeOK
<1>2. Len(stack) \in Nat /\ Len(stack) >= 1
    BY TopFrame
<1>3. /\ stack' \in Seq(Frames) /\ Len(stack') = Len(stack) + 1
      /\ \A i \in 1..Len(stack) : stack'[i] = stack[i]
      /\ stack'[Len(stack) + 1] = f
    BY <1>1, <1>2
<1>4. /\ Len(stack) \in 1..Len(stack)
      /\ \A i \in 1..(Len(stack) - 1) : i \in 1..Len(stack)
    BY <1>2
<1> QED BY <1>3, <1>4, Zenon DEF Below, Same, Woken

\* The operation at the top becomes g and calls f.
LEMMA ReplaceAndPush ==
    ASSUME TypeOK, stack # <<>>, NEW g \in Frames, Same(Top, g),
           NEW f \in Frames, stack' = Append(WithTop(g), f)
    PROVE  /\ stack' \in Seq(Frames) /\ Len(stack') = Len(stack) + 1 /\ Below
           /\ Same(stack[Len(stack)], stack'[Len(stack)])
           /\ stack'[Len(stack)] = g
           /\ stack'[Len(stack) + 1] = f
<1>1. PICK w \in Seq(Frames) :
          /\ w = WithTop(g) /\ Len(w) = Len(stack)
          /\ w[Len(stack)] = g
          /\ \A i \in 1..(Len(stack) - 1) : w[i] = stack[i]
    BY TopReplaced, Zenon
<1>2. Len(stack) \in Nat /\ Len(stack) >= 1 /\ Top = stack[Len(stack)]
    BY TopFrame
<1>3. stack' = Append(w, f)
    BY <1>1
<1>4. /\ stack' \in Seq(Frames) /\ Len(stack') = Len(w) + 1
      /\ \A i \in 1..Len(w) : stack'[i] = w[i]
      /\ stack'[Len(w) + 1] = f
    BY <1>3
<1>5. /\ Len(stack) \in 1..Len(stack)
      /\ \A i \in 1..(Len(stack) - 1) : i \in 1..Len(stack)
    BY <1>2
<1>6. Below
    BY <1>1, <1>4, <1>5, Zenon DEF Below, Woken
<1>7. stack'[Len(stack)] = g
    BY <1>1, <1>4, <1>5, Zenon
<1>8. Same(stack[Len(stack)], stack'[Len(stack)])
    BY <1>2, <1>7, Zenon
<1> QED BY <1>1, <1>4, <1>6, <1>7, <1>8, Zenon

\* A candidate belongs to no session that is blocked.
LEMMA CandidateUnblocked ==
    ASSUME TypeOK, NEW b \in BOOLEAN, NEW i \in candidate_indices(b)
    PROVE  /\ i \in 1..Len(runnables)
           /\ \A j \in 1..Len(blocked_sessions) :
                 blocked_sessions[j] # session[runnables[i]]
           /\ \/ session[runnables[i]] = Background
              \/ \A j \in 1..(i - 1) : session[runnables[j]] # session[runnables[i]]
<1>1. runnables \in Seq(Tasks) /\ blocked_sessions \in Seq(Sessions)
    BY DEF TypeOK
<1>2. i \in 1..Len(runnables)
    BY <1>1 DEF candidate_indices
<1>3. \/ session[runnables[i]] = Background
      \/ /\ session[runnables[i]] \notin Range(blocked_sessions)
         /\ \A j \in 1..(i - 1) : session[runnables[j]] # session[runnables[i]]
    BY Zenon DEF candidate_indices
<1>4. \A j \in 1..Len(blocked_sessions) :
          /\ blocked_sessions[j] \in Sessions
          /\ blocked_sessions[j] \in Range(blocked_sessions)
    BY <1>1 DEF Range
<1>5. Background \notin Sessions
    BY SchedulerAssumption
<1> QED BY <1>2, <1>3, <1>4, <1>5, Zenon

LEMMA StepIsCall ==
    ASSUME TypeOK, NEW b \in BOOLEAN, NEW frames, step_filtered(b, frames),
           UNCHANGED blocked_sessions
    PROVE  \E f \in Frames : stack' = Append(frames, f) /\ Called(f)
<1>1. PICK f \in Frames :
          stack' = Append(frames, f) /\ (Elapses(f) \/ RunsTask(b, f))
    BY StepPushes
<1>2. CASE Elapses(f)
    BY <1>1, <1>2, Zenon DEF Called, Elapses
<1>3. CASE RunsTask(b, f)
    <2>1. PICK i \in candidate_indices(b) : f.task = runnables[i]
        BY <1>3 DEF RunsTask
    <2>2. /\ i \in 1..Len(runnables)
          /\ \A j \in 1..Len(blocked_sessions) :
                blocked_sessions[j] # session[f.task]
        BY <2>1, CandidateUnblocked
    <2> QED BY <1>1, <1>3, <2>1, <2>2, Zenon DEF Called, RunsTask
<1> QED BY <1>1, <1>2, <1>3, Zenon

\* Frames of the operations that user code starts.
LEMMA NewFrames ==
    /\ \A k \in {"run", "run_with_clock_advancement"} : [kind |-> k] \in Frames
    /\ \A u \in 0..MaxNow : [kind |-> "advance_clock", until |-> u] \in Frames
    /\ [kind |-> "drain_tasks", timers |-> <<>>, tasks |-> <<>>] \in Frames
<1>1. \A k \in {"run", "run_with_clock_advancement"} :
          [kind |-> k] \in [kind: {"test", "run", "run_with_clock_advancement"}]
    OBVIOUS
<1>2. \A u \in 0..MaxNow : [kind |-> "advance_clock", until |-> u]
                              \in [kind: {"advance_clock"}, until: 0..MaxNow]
    OBVIOUS
<1>3. [kind |-> "drain_tasks", timers |-> <<>>, tasks |-> <<>>]
          \in [kind: {"drain_tasks"}, timers: Seq(Timers), tasks: Seq(Tasks)]
    OBVIOUS
<1> QED BY <1>1, <1>2, <1>3, Zenon DEF Frames

LEMMA StartMoves ==
    ASSUME TypeOK, stack # <<>>, NEW f \in Frames, f.kind \in Loops \union {"drain_tasks"},
           Start(f)
    PROVE  Calls(f)
<1>1. stack' = Append(stack, f) /\ Top.kind \in {"test", "task"}
      /\ UNCHANGED <<is_main_thread, blocked_sessions>>
    BY DEF Start, Push, Call, InUserCode, sched
<1>2. Top = stack[Len(stack)]
    BY TopFrame
<1>3. f.kind # "elapse"
    BY DEF Loops
<1>4. Called(f)
    BY <1>1, <1>3, Zenon DEF Called
<1> QED BY <1>1, <1>2, <1>4, PushFrame, Zenon DEF Calls

LEMMA UserCallMoves ==
    ASSUME TypeOK, ShapeInv, UserCall
    PROVE  Moves
<1>0. stack # <<>> /\ Top = stack[Len(stack)]
    BY TopFrame DEF ShapeInv
<1>1. ASSUME NEW s, Spawn(s) PROVE Moves
    BY <1>0, <1>1, UnmovedStack, Zenon DEF Spawn, Moves
<1>2. ASSUME NEW d, timer(d) PROVE Moves
    BY <1>0, <1>2, UnmovedStack, Zenon DEF timer, Moves
<1>3. ASSUME NEW b, SetParking(b) PROVE Moves
    BY <1>0, <1>3, UnmovedStack, Zenon DEF SetParking, Moves
<1>4. ASSUME NEW s \in Sessions, NEW e \in Events, NEW b \in BOOLEAN, block(s, e, b)
      PROVE  Moves
    <2>1. PICK n \in IF b THEN TimeoutTicks ELSE {0} :
              /\ Call
              /\ Push([kind |-> "block", session |-> s, on |-> e, timed |-> b,
                       ticks |-> n, phase |-> "poll", stepped |-> "unset",
                       awoken |-> FALSE])
        BY <1>4 DEF block
    <2>2. n \in Nat
        BY SchedulerAssumption
    <2>3. PICK f : f = [kind |-> "block", session |-> s, on |-> e, timed |-> b,
                        ticks |-> n, phase |-> "poll", stepped |-> "unset",
                        awoken |-> FALSE]
        OBVIOUS
    <2>4. f \in BlockFrames
        BY <2>2, <2>3 DEF BlockFrames
    <2>5. f \in Frames
        BY <2>4 DEF Frames
    <2>6. f.kind = "block" /\ f.phase = "poll" /\ f.session = s /\ f.on = e
        BY <2>3
    <2>7. /\ stack' = Append(stack, f) /\ Top.kind \in {"test", "task"}
          /\ blocked_sessions' = Append(blocked_sessions, s)
          /\ UNCHANGED is_main_thread /\ Awaitable(e)
        BY <1>4, <2>1, <2>3 DEF block, Push, Call, InUserCode, push_blocked
    <2>8. Called(f)
        BY <2>6, <2>7, Zenon DEF Called
    <2>9. Calls(f)
        BY <1>0, <2>5, <2>7, <2>8, PushFrame, Zenon DEF Calls
    <2> QED BY <2>5, <2>9 DEF Moves
<1>5. ASSUME NEW b \in BOOLEAN, tick(b) PROVE Moves
    <2>1. /\ step_filtered(b, stack) /\ UNCHANGED blocked_sessions
          /\ Top.kind \in {"test", "task"}
        BY <1>5 DEF tick, Call, InUserCode, UntouchedByStep
    <2>2. PICK f \in Frames : stack' = Append(stack, f) /\ Called(f)
        BY <2>1, StepIsCall
    <2>3. Calls(f)
        BY <1>0, <2>1, <2>2, PushFrame, Zenon DEF Calls
    <2> QED BY <2>3 DEF Moves
<1>6. ASSUME StartRun PROVE Moves
    <2>1. PICK k \in {"run", "run_with_clock_advancement"} : Start([kind |-> k])
        BY <1>6 DEF StartRun
    <2>2. PICK f \in Frames : f = [kind |-> k]
        BY NewFrames
    <2>3. f.kind \in Loops
        BY <2>2 DEF Loops
    <2>4. Calls(f)
        BY <1>0, <2>1, <2>2, <2>3, StartMoves, Zenon
    <2> QED BY <2>4 DEF Moves
<1>7. ASSUME NEW d \in Durations, StartAdvance(d) PROVE Moves
    <2>1. now + d \in 0..MaxNow /\ Start([kind |-> "advance_clock", until |-> now + d])
        <3>1. now \in 0..MaxNow /\ d \in Nat /\ MaxNow \in Nat
            BY SchedulerAssumption DEF TypeOK
        <3>2. /\ now + d <= MaxNow
              /\ Start([kind |-> "advance_clock", until |-> now + d])
            BY <1>7, Zenon DEF StartAdvance
        <3> QED BY <3>1, <3>2
    <2>2. PICK f \in Frames : f = [kind |-> "advance_clock", until |-> now + d]
        BY <2>1, NewFrames
    <2>3. f.kind \in Loops
        BY <2>2 DEF Loops
    <2> QED BY <1>0, <2>1, <2>2, <2>3, StartMoves DEF Moves
<1>8. ASSUME StartDrain PROVE Moves
    <2>1. PICK f \in Frames : f = [kind |-> "drain_tasks", timers |-> <<>>, tasks |-> <<>>]
        BY NewFrames
    <2>2. f.kind = "drain_tasks"
        BY <2>1
    <2>3. Start(f)
        BY <1>8, <2>1 DEF StartDrain
    <2> QED BY <1>0, <2>2, <2>3, StartMoves DEF Moves
<1> QED BY <1>1, <1>2, <1>3, <1>4, <1>5, <1>6, <1>7, <1>8, Zenon DEF UserCall

\* A task that returns.
LEMMA TaskReturnsMoves ==
    ASSUME TypeOK, ShapeInv, TaskReturns
    PROVE  Returns
<1>0. stack # <<>> /\ Top \in Frames
    BY TopFrame DEF ShapeInv
<1>1. CASE YieldNow
    BY <1>0, <1>1, PopTop, Zenon DEF YieldNow, Returns
<1>2. ASSUME NEW e, Await(e) PROVE Returns
    BY <1>0, <1>2, PopTop, Zenon DEF Await, Returns
<1>3. CASE Finish
    <2>1. Top.task \in Events
        BY <1>0, <1>3, FrameFields DEF Finish, Events
    <2> QED BY <1>0, <1>3, <2>1, PopCompletes, Zenon DEF Finish, Returns
<1> QED BY <1>1, <1>2, <1>3, Zenon DEF TaskReturns

LEMMA IoMoves ==
    ASSUME TypeOK, ShapeInv, IoCompletes
    PROVE  GoesOn
<1>0. stack # <<>> /\ Top = stack[Len(stack)] /\ Len(stack) \in Nat /\ Len(stack) >= 1
    BY TopFrame DEF ShapeInv
<1>1. stack \in Seq(Frames) /\ Io \in Events
    BY DEF TypeOK, Events
<1>2. complete(Io, stack) /\ UNCHANGED <<is_main_thread, blocked_sessions>>
    BY DEF IoCompletes
<1>3. /\ stack' \in Seq(Frames) /\ Len(stack') = Len(stack)
      /\ \A n \in 1..Len(stack) : Woken(stack[n], stack'[n])
    BY <1>1, <1>2, CompleteStack
<1>4. /\ Len(stack) \in 1..Len(stack) /\ stack[Len(stack)] \in Frames
      /\ \A n \in 1..(Len(stack) - 1) : n \in 1..Len(stack)
    BY <1>0, <1>1
<1>5. Same(stack[Len(stack)], stack'[Len(stack)])
    BY <1>3, <1>4, WokenIsSame
<1> QED BY <1>2, <1>3, <1>4, <1>5, Zenon DEF GoesOn, Below

\* The timers of an elapse frame and what drain_tasks took complete.
LEMMA DropElapsedMoves ==
    ASSUME TypeOK, ShapeInv, DropElapsed
    PROVE  /\ Moves
           /\ Head(Top.elapsed) \in Timers
           /\ \/ Returns
              \/ /\ GoesOn /\ stack'[Len(stack)].kind = "elapse"
                 /\ stack'[Len(stack)].elapsed = Tail(Top.elapsed)
<1>0. stack # <<>> /\ Top \in Frames /\ Top = stack[Len(stack)]
    BY TopFrame DEF ShapeInv
<1>1. Top.kind = "elapse" /\ UNCHANGED <<is_main_thread, blocked_sessions>>
    BY DEF DropElapsed
<1>2. Top.elapsed \in Seq(Timers) /\ Top.elapsed # <<>>
    BY <1>0, <1>1, FrameFields
<1>3. PICK l \in Seq(Timers) : l = Tail(Top.elapsed)
    BY <1>2, HeadTailProperties
<1>4. Head(Top.elapsed) \in Timers /\ Head(Top.elapsed) \in Events
    BY <1>2 DEF Events
<1>5. complete(Head(Top.elapsed),
               IF l = <<>> THEN Callers ELSE WithTop([Top EXCEPT !.elapsed = l]))
    BY <1>3 DEF DropElapsed
<1>6. CASE l = <<>>
    <2>1. complete(Head(Top.elapsed), Callers)
        BY <1>5, <1>6
    <2>2. Returns
        BY <1>0, <1>1, <1>4, <2>1, PopCompletes, Zenon DEF Returns
    <2> QED BY <1>4, <2>2 DEF Moves
<1>7. CASE l # <<>>
    <2>1. PICK f : f = [Top EXCEPT !.elapsed = l]
        OBVIOUS
    <2>2. Top \in [kind: {"elapse"}, elapsed: Seq(Timers) \ {<<>>}]
        BY <1>0, <1>1 DEF Frames, BlockFrames
    <2>3. /\ f \in [kind: {"elapse"}, elapsed: Seq(Timers) \ {<<>>}]
          /\ f.kind = "elapse" /\ f.elapsed = l
        BY <1>7, <2>1, <2>2
    <2>4. f \in Frames
        BY <2>3 DEF Frames
    <2>5. Same(Top, f)
        BY <1>1, <2>3 DEF Same
    <2>6. complete(Head(Top.elapsed), WithTop(f))
        BY <1>5, <1>7, <2>1
    <2>7. /\ stack' \in Seq(Frames) /\ Len(stack') = Len(stack) /\ Below
          /\ Same(stack[Len(stack)], stack'[Len(stack)])
          /\ Woken(f, stack'[Len(stack)])
        BY <1>0, <1>4, <2>4, <2>5, <2>6, TopCompletes
    <2>8. GoesOn
        BY <1>1, <2>7 DEF GoesOn
    <2>9. stack'[Len(stack)] = f
        BY <2>3, <2>4, <2>7, WokenFrame
    <2> QED BY <1>3, <1>4, <2>3, <2>8, <2>9 DEF Moves
<1> QED BY <1>6, <1>7

LEMMA DrainDropMoves ==
    ASSUME TypeOK, ShapeInv, DrainDrop
    PROVE  /\ GoesOn
           /\ \E e \in Events : \E f \in Frames :
                 f.kind = "drain_tasks" /\ complete(e, WithTop(f))
<1>0. stack # <<>> /\ Top \in Frames /\ Top = stack[Len(stack)]
    BY TopFrame DEF ShapeInv
<1>1. Top.kind = "drain_tasks" /\ UNCHANGED <<is_main_thread, blocked_sessions>>
    BY DEF DrainDrop
<1>2. /\ Top \in [kind: {"drain_tasks"}, timers: Seq(Timers), tasks: Seq(Tasks)]
      /\ Top.timers \in Seq(Timers) /\ Top.tasks \in Seq(Tasks)
    BY <1>0, <1>1 DEF Frames, BlockFrames
<1>3. ASSUME NEW e \in Events, NEW f \in Frames, f.kind = "drain_tasks",
             complete(e, WithTop(f))
      PROVE  GoesOn
    <2>1. Same(Top, f)
        BY <1>1, <1>3 DEF Same
    <2> QED BY <1>0, <1>1, <1>3, <2>1, TopCompletes, Zenon DEF GoesOn
<1>4. CASE /\ Top.timers # <<>>
           /\ complete(Head(Top.timers), WithTop([Top EXCEPT !.timers = Tail(Top.timers)]))
    <2>1. PICK l \in Seq(Timers) : l = Tail(Top.timers)
        BY <1>2, <1>4, HeadTailProperties
    <2>2. PICK f : f = [Top EXCEPT !.timers = l]
        OBVIOUS
    <2>3. f \in [kind: {"drain_tasks"}, timers: Seq(Timers), tasks: Seq(Tasks)]
          /\ f.kind = "drain_tasks"
        BY <1>2, <2>2
    <2>4. f \in Frames
        BY <2>3 DEF Frames
    <2>5. Head(Top.timers) \in Events
        BY <1>2, <1>4 DEF Events
    <2>6. complete(Head(Top.timers), WithTop(f))
        BY <1>4, <2>1, <2>2
    <2> QED BY <1>3, <2>3, <2>4, <2>5, <2>6
<1>5. CASE /\ Top.tasks # <<>>
           /\ complete(Head(Top.tasks), WithTop([Top EXCEPT !.tasks = Tail(Top.tasks)]))
    <2>1. PICK l \in Seq(Tasks) : l = Tail(Top.tasks)
        BY <1>2, <1>5, HeadTailProperties
    <2>2. PICK f : f = [Top EXCEPT !.tasks = l]
        OBVIOUS
    <2>3. f \in [kind: {"drain_tasks"}, timers: Seq(Timers), tasks: Seq(Tasks)]
          /\ f.kind = "drain_tasks"
        BY <1>2, <2>2
    <2>4. f \in Frames
        BY <2>3 DEF Frames
    <2>5. Head(Top.tasks) \in Events
        BY <1>2, <1>5 DEF Events
    <2>6. complete(Head(Top.tasks), WithTop(f))
        BY <1>5, <2>1, <2>2
    <2> QED BY <1>3, <2>3, <2>4, <2>5, <2>6
<1> QED BY <1>4, <1>5, Zenon DEF DrainDrop

LEMMA DrainTakeMoves ==
    ASSUME TypeOK, ShapeInv, DrainTake
    PROVE  GoesOn \/ Returns
<1>0. stack # <<>> /\ Top \in Frames /\ Top = stack[Len(stack)]
    BY TopFrame DEF ShapeInv
<1>1. Top.kind = "drain_tasks" /\ UNCHANGED <<is_main_thread, blocked_sessions>>
    BY DEF DrainTake
<1>2. CASE runnables = <<>> /\ timers = <<>>
    <2>1. stack' = Callers
        BY <1>2, Zenon DEF DrainTake
    <2> QED BY <1>0, <1>1, <2>1, PopTop, Zenon DEF Returns
<1>3. CASE ~(runnables = <<>> /\ timers = <<>>)
    <2>1. /\ timers \in Seq([id: Timers, expiration: 0..MaxNow])
          /\ runnables \in Seq(Tasks)
        BY DEF TypeOK
    <2>2. PICK l : l = [i \in DOMAIN timers |-> timers[i].id]
        OBVIOUS
    <2>3. Len(timers) \in Nat /\ DOMAIN timers = 1..Len(timers)
        BY <2>1
    <2>4. \A i \in 1..Len(timers) : timers[i].id \in Timers
        BY <2>1, TimerRecords
    <2>5. l \in Seq(Timers)
        BY <2>2, <2>3, <2>4
    <2>6. PICK f : f = [Top EXCEPT !.timers = l, !.tasks = runnables]
        OBVIOUS
    <2>7. Top \in [kind: {"drain_tasks"}, timers: Seq(Timers), tasks: Seq(Tasks)]
        BY <1>0, <1>1 DEF Frames, BlockFrames
    <2>8. f \in [kind: {"drain_tasks"}, timers: Seq(Timers), tasks: Seq(Tasks)]
          /\ f.kind = "drain_tasks"
        BY <2>1, <2>5, <2>6, <2>7
    <2>9. f \in Frames
        BY <2>8 DEF Frames
    <2>10. stack' = WithTop(f)
        BY <1>3, <2>2, <2>6 DEF DrainTake
    <2>11. Same(Top, f)
        BY <1>1, <2>8 DEF Same
    <2> QED BY <1>0, <1>1, <2>9, <2>10, <2>11, ReplaceTop, Zenon DEF GoesOn
<1> QED BY <1>2, <1>3

LEMMA LoopMoves ==
    ASSUME TypeOK, ShapeInv
    PROVE  /\ LoopStep => \E f \in Frames : Calls(f)
           /\ LoopIdle => GoesOn \/ Returns
<1>0. stack # <<>> /\ Top \in Frames /\ Top = stack[Len(stack)]
    BY TopFrame DEF ShapeInv
<1>1. ASSUME LoopStep PROVE \E f \in Frames : Calls(f)
    <2>1. /\ step_filtered(FALSE, stack) /\ UNCHANGED blocked_sessions
          /\ Top.kind \in Loops
        BY <1>1 DEF LoopStep, step, UntouchedByStep
    <2>2. PICK f \in Frames : stack' = Append(stack, f) /\ Called(f)
        BY <2>1, StepIsCall
    <2>3. Calls(f)
        BY <1>0, <2>1, <2>2, PushFrame, Zenon DEF Calls
    <2> QED BY <2>3
<1>2. ASSUME LoopIdle PROVE GoesOn \/ Returns
    <2>1. Top.kind \in Loops /\ UNCHANGED <<is_main_thread, blocked_sessions>>
        BY <1>2 DEF LoopIdle, Loops
    <2>2. stack' = Callers \/ UNCHANGED stack
        BY <1>2, Zenon DEF LoopIdle
    <2>3. CASE stack' = Callers
        BY <1>0, <2>1, <2>3, PopTop, Zenon DEF Returns
    <2>4. CASE UNCHANGED stack
        BY <1>0, <2>1, <2>4, UnmovedStack
    <2> QED BY <2>2, <2>3, <2>4
<1> QED BY <1>1, <1>2

-----------------------------------------------------------------------------
(* The phases of block.                                                     *)

LEMMA BlockTop ==
    ASSUME TypeOK, ShapeInv, NEW p, InBlock(p)
    PROVE  /\ stack # <<>> /\ Top = stack[Len(stack)] /\ Top \in Frames
           /\ Top \in BlockFrames /\ Top.kind = "block" /\ Top.phase = p
<1>1. stack # <<>> /\ Top = stack[Len(stack)] /\ Top \in Frames
    BY TopFrame DEF ShapeInv
<1> QED BY <1>1, FrameFields DEF InBlock

\* The block at the top goes on as g.
BlockBecomes(g) ==
    /\ g \in BlockFrames /\ g.kind = "block"
    /\ g.session = Top.session /\ g.on = Top.on
    /\ stack' = WithTop(g)
    /\ UNCHANGED <<is_main_thread, blocked_sessions>>

LEMMA BlockBecomesMoves ==
    ASSUME TypeOK, stack # <<>>, NEW g, Top.kind = "block", BlockBecomes(g)
    PROVE  GoesOn /\ stack'[Len(stack)] = g
<1>1. g \in Frames
    BY DEF BlockBecomes, Frames
<1>2. Same(Top, g)
    BY DEF BlockBecomes, Same
<1> QED BY <1>1, <1>2, ReplaceTop, Zenon DEF GoesOn, BlockBecomes

LEMMA BlockReturnMoves ==
    ASSUME TypeOK, stack # <<>>, Top.kind = "block", BlockReturn,
           UNCHANGED is_main_thread
    PROVE  Returns
BY PopTop, Zenon DEF BlockReturn, pop_blocked, Returns

LEMMA BlockPollMoves ==
    ASSUME TypeOK, ShapeInv, BlockPoll
    PROVE  \/ Returns /\ stack' = Callers
           \/ \E g : /\ BlockBecomes(g) /\ Top.on \notin done
                     /\ g.phase = "coin" /\ g.stepped = "unset"
                     /\ g.awoken = Top.awoken
<1>1. /\ stack # <<>> /\ Top \in BlockFrames /\ Top.kind = "block"
      /\ UNCHANGED is_main_thread
    BY BlockTop DEF BlockPoll
<1>2. CASE BlockReturn
    BY <1>1, <1>2, BlockReturnMoves DEF BlockReturn
<1>3. CASE /\ ~(Top.timed /\ Top.ticks = 0) /\ Top.on \notin done
           /\ stack' = WithTop([Top EXCEPT
                 !.ticks = IF Top.timed THEN Top.ticks - 1 ELSE Top.ticks,
                 !.stepped = "unset", !.phase = "coin"])
           /\ UNCHANGED blocked_sessions
    <2>1. PICK n : n = IF Top.timed THEN Top.ticks - 1 ELSE Top.ticks
        OBVIOUS
    <2>2. Top.ticks \in Nat
        BY <1>1 DEF BlockFrames
    <2>3. n \in Nat
        BY <1>3, <2>1, <2>2
    <2>4. PICK g : g = [Top EXCEPT !.ticks = n, !.stepped = "unset", !.phase = "coin"]
        OBVIOUS
    <2>5. /\ g \in BlockFrames /\ g.kind = "block"
          /\ g.session = Top.session /\ g.on = Top.on
          /\ g.phase = "coin" /\ g.stepped = "unset" /\ g.awoken = Top.awoken
        BY <1>1, <2>3, <2>4 DEF BlockFrames
    <2>6. stack' = WithTop(g)
        BY <1>3, <2>1, <2>4
    <2>7. BlockBecomes(g)
        BY <1>1, <1>3, <2>5, <2>6, Zenon DEF BlockBecomes
    <2> QED BY <1>3, <2>5, <2>7
<1> QED BY <1>2, <1>3, Zenon DEF BlockPoll

LEMMA BlockStepMoves ==
    ASSUME TypeOK, ShapeInv, BlockStep
    PROVE  \E f \in Frames :
              /\ Calls(f)
              /\ stack'[Len(stack)].phase = "coin"
              /\ stack'[Len(stack)].stepped = "yes"
              /\ stack'[Len(stack)].awoken = Top.awoken
<1>1. /\ stack # <<>> /\ Top \in BlockFrames /\ Top.kind = "block"
      /\ Top.phase = "coin" /\ Top = stack[Len(stack)]
    BY BlockTop DEF BlockStep
<1>2. PICK g : g = [Top EXCEPT !.stepped = "yes"]
    OBVIOUS
<1>3. /\ g \in BlockFrames /\ g.kind = "block"
      /\ g.session = Top.session /\ g.on = Top.on
      /\ g.phase = "coin" /\ g.stepped = "yes" /\ g.awoken = Top.awoken
    BY <1>1, <1>2 DEF BlockFrames
<1>4. g \in Frames /\ Same(Top, g)
    BY <1>1, <1>3 DEF Frames, Same
<1>5. step_filtered(FALSE, WithTop(g)) /\ UNCHANGED blocked_sessions
    BY <1>2 DEF BlockStep, step, UntouchedByStep
<1>6. PICK f \in Frames : stack' = Append(WithTop(g), f) /\ Called(f)
    BY <1>5, StepIsCall
<1>7. /\ stack' \in Seq(Frames) /\ Len(stack') = Len(stack) + 1 /\ Below
      /\ Same(stack[Len(stack)], stack'[Len(stack)])
      /\ stack'[Len(stack)] = g
      /\ stack'[Len(stack) + 1] = f
    BY <1>1, <1>4, <1>6, ReplaceAndPush
<1>8. Calls(f)
    BY <1>1, <1>3, <1>6, <1>7, Zenon DEF Calls
<1> QED BY <1>3, <1>7, <1>8

LEMMA BlockCoinMoves ==
    ASSUME TypeOK, ShapeInv, BlockStepIdle \/ BlockCoinDown
    PROVE  \E g : /\ BlockBecomes(g) /\ g.phase = "swap" /\ g.awoken = Top.awoken
                  /\ g.stepped = "no" =>
                        Top.stepped = "no" \/ (BlockStepIdle /\ Idle(FALSE))
<1>1. /\ stack # <<>> /\ Top \in BlockFrames /\ Top.kind = "block"
      /\ UNCHANGED <<is_main_thread, blocked_sessions>>
    BY BlockTop DEF BlockStepIdle, BlockCoinDown, sched
<1>2. CASE BlockStepIdle
    <2>1. PICK st : st = IF Top.stepped = "unset" THEN "no" ELSE Top.stepped
        OBVIOUS
    <2>2. st \in {"unset", "yes", "no"}
        BY <1>1, <2>1 DEF BlockFrames
    <2>3. PICK g : g = [Top EXCEPT !.phase = "swap", !.stepped = st]
        OBVIOUS
    <2>4. /\ g \in BlockFrames /\ g.kind = "block"
          /\ g.session = Top.session /\ g.on = Top.on
          /\ g.phase = "swap" /\ g.awoken = Top.awoken
        BY <1>1, <2>2, <2>3 DEF BlockFrames
    <2>5. stack' = WithTop(g) /\ Idle(FALSE)
        BY <1>2, <2>1, <2>3 DEF BlockStepIdle
    <2>6. BlockBecomes(g)
        BY <1>1, <2>4, <2>5, Zenon DEF BlockBecomes
    <2> QED BY <1>2, <2>4, <2>5, <2>6
<1>3. CASE BlockCoinDown
    <2>1. PICK g : g = [Top EXCEPT !.phase = "swap"]
        OBVIOUS
    <2>2. /\ g \in BlockFrames /\ g.kind = "block"
          /\ g.session = Top.session /\ g.on = Top.on
          /\ g.phase = "swap" /\ g.awoken = Top.awoken /\ g.stepped = Top.stepped
        BY <1>1, <2>1 DEF BlockFrames
    <2>3. stack' = WithTop(g)
        BY <1>3, <2>1 DEF BlockCoinDown
    <2>4. BlockBecomes(g)
        BY <1>1, <2>2, <2>3, Zenon DEF BlockBecomes
    <2> QED BY <2>2, <2>4
<1> QED BY <1>2, <1>3

LEMMA BlockSwapMoves ==
    ASSUME TypeOK, ShapeInv, BlockSwap
    PROVE  \E g : /\ BlockBecomes(g)
                  /\ \/ g.phase = "poll"
                     \/ g.phase = "idle" /\ Top.stepped = "no" /\ ~Top.awoken
<1>1. /\ stack # <<>> /\ Top \in BlockFrames /\ Top.kind = "block"
      /\ UNCHANGED <<is_main_thread, blocked_sessions>>
    BY BlockTop DEF BlockSwap, sched
<1>2. PICK p : p = IF Top.stepped = "no" /\ ~Top.awoken THEN "idle" ELSE "poll"
    OBVIOUS
<1>3. PICK g : g = [Top EXCEPT !.awoken = FALSE, !.phase = p]
    OBVIOUS
<1>4. /\ p \in {"idle", "poll"}
      /\ p = "idle" => Top.stepped = "no" /\ ~Top.awoken
    BY <1>2
<1>5. /\ g \in BlockFrames /\ g.kind = "block"
      /\ g.session = Top.session /\ g.on = Top.on /\ g.phase = p
    BY <1>1, <1>3, <1>4 DEF BlockFrames
<1>6. stack' = WithTop(g)
    BY <1>2, <1>3 DEF BlockSwap
<1>7. BlockBecomes(g)
    BY <1>1, <1>5, <1>6, Zenon DEF BlockBecomes
<1> QED BY <1>4, <1>5, <1>7

\* A block goes to another phase and changes nothing else of its frame.
LEMMA PhaseChange ==
    ASSUME TypeOK, stack # <<>>, Top \in BlockFrames, NEW p \in {"poll", "park"},
           stack' = WithTop([Top EXCEPT !.phase = p]),
           UNCHANGED <<is_main_thread, blocked_sessions>>
    PROVE  \E g : BlockBecomes(g) /\ g.phase = p
<1>1. PICK g : g = [Top EXCEPT !.phase = p]
    OBVIOUS
<1>2. /\ g \in BlockFrames /\ g.kind = "block"
      /\ g.session = Top.session /\ g.on = Top.on /\ g.phase = p
    BY <1>1 DEF BlockFrames
<1>3. stack' = WithTop(g)
    BY <1>1
<1>4. BlockBecomes(g)
    BY <1>2, <1>3, Zenon DEF BlockBecomes
<1> QED BY <1>2, <1>4

LEMMA BlockIdleMoves ==
    ASSUME TypeOK, ShapeInv, BlockIdle
    PROVE  /\ UNCHANGED <<is_main_thread, runnables, session, unparked, done>>
           /\ \/ /\ \E g : BlockBecomes(g) /\ g.phase \in {"poll", "park"}
                 /\ UNCHANGED outcome
              \/ Returns /\ UNCHANGED outcome /\ stack' = Callers
              \/ /\ outcome' = "parking forbidden" /\ timers = <<>>
                 /\ UNCHANGED <<stack, blocked_sessions>>
<1>1. /\ stack # <<>> /\ Top \in BlockFrames /\ Top.kind = "block"
    BY BlockTop DEF BlockIdle
<1>2. UNCHANGED <<is_main_thread, runnables, session, unparked, done>>
    BY DEF BlockIdle, tasks
<1>3. CASE /\ stack' = WithTop([Top EXCEPT !.phase = "poll"])
           /\ UNCHANGED <<blocked_sessions, outcome>>
    BY <1>1, <1>2, <1>3, PhaseChange, Zenon
<1>4. CASE BlockReturn /\ UNCHANGED outcome
    BY <1>1, <1>2, <1>4, BlockReturnMoves DEF BlockReturn
<1>5. CASE /\ timers = <<>> /\ outcome' = "parking forbidden"
           /\ UNCHANGED <<blocked_sessions, stack>>
    BY <1>2, <1>5
<1>6. CASE /\ stack' = WithTop([Top EXCEPT !.phase = "park"])
           /\ UNCHANGED <<blocked_sessions, outcome>>
    BY <1>1, <1>2, <1>6, PhaseChange, Zenon
<1> QED BY <1>3, <1>4, <1>5, <1>6, Zenon DEF BlockIdle

LEMMA ParkMoves ==
    ASSUME TypeOK, ShapeInv, Park
    PROVE  /\ UNCHANGED <<is_main_thread, runnables, session, done, outcome>>
           /\ \/ \E g : BlockBecomes(g) /\ g.phase = "poll"
              \/ UNCHANGED <<stack, blocked_sessions>> /\ ~unparked
<1>1. /\ stack # <<>> /\ Top \in BlockFrames /\ Top.kind = "block"
    BY BlockTop DEF Park
<1>2. UNCHANGED <<is_main_thread, runnables, session, done, outcome, blocked_sessions>>
    BY DEF Park, tasks
<1>3. \/ stack' = WithTop([Top EXCEPT !.phase = "poll"])
      \/ UNCHANGED stack /\ ~unparked
    BY Zenon DEF Park
<1>4. CASE stack' = WithTop([Top EXCEPT !.phase = "poll"])
    BY <1>1, <1>2, <1>4, PhaseChange, Zenon
<1> QED BY <1>2, <1>3, <1>4

LEMMA ParkDeadlineMoves ==
    ASSUME TypeOK, ShapeInv, ParkDeadline
    PROVE  \/ Returns /\ stack' = Callers /\ UNCHANGED outcome
           \/ /\ UNCHANGED <<stack, blocked_sessions, is_main_thread>>
              /\ outcome' = "timed out parking"
<1>1. /\ stack # <<>> /\ Top \in BlockFrames /\ Top.kind = "block"
      /\ UNCHANGED is_main_thread
    BY BlockTop DEF ParkDeadline
<1>2. CASE BlockReturn /\ UNCHANGED outcome
    BY <1>1, <1>2, BlockReturnMoves DEF BlockReturn
<1> QED BY <1>1, <1>2, Zenon DEF ParkDeadline

\* Every step moves the stack in one of the three ways.
LEMMA StackMoves ==
    ASSUME TypeOK, ShapeInv, [Next]_vars
    PROVE  Moves
<1>0. stack # <<>>
    BY DEF ShapeInv
<1>1. CASE UserCall
    BY <1>1, UserCallMoves
<1>2. CASE TaskReturns
    BY <1>2, TaskReturnsMoves DEF Moves
<1>3. CASE IoCompletes
    BY <1>3, IoMoves DEF Moves
<1>4. CASE end_test
    BY <1>0, <1>4, UnmovedStack DEF end_test, sched, Moves
<1>5. CASE UNCHANGED vars
    BY <1>0, <1>5, UnmovedStack DEF vars, sched, Moves
<1>6. CASE SchedulerStep
    <2>0. ASSUME NEW g, BlockBecomes(g), Top.kind = "block" PROVE Moves
        BY <1>0, <2>0, BlockBecomesMoves DEF Moves
    <2>1. CASE DropElapsed
        BY <2>1, DropElapsedMoves
    <2>2. CASE LoopStep
        BY <2>2, LoopMoves, Zenon DEF Moves
    <2>3. CASE LoopIdle
        BY <2>3, LoopMoves, Zenon DEF Moves
    <2>4. CASE DrainTake
        BY <2>4, DrainTakeMoves, Zenon DEF Moves
    <2>5. CASE DrainDrop
        BY <2>5, DrainDropMoves, Zenon DEF Moves
    <2>6. CASE BlockPoll
        BY <2>0, <2>6, BlockPollMoves, Zenon DEF Moves, BlockPoll, InBlock
    <2>7. CASE BlockStep
        BY <2>7, BlockStepMoves, Zenon DEF Moves
    <2>8. CASE BlockStepIdle \/ BlockCoinDown
        BY <2>0, <2>8, BlockCoinMoves, Zenon DEF BlockStepIdle, BlockCoinDown, InBlock
    <2>9. CASE BlockSwap
        BY <2>0, <2>9, BlockSwapMoves, Zenon DEF BlockSwap, InBlock
    <2>10. CASE BlockIdle
        <3>1. Top.kind = "block"
            BY <2>10 DEF BlockIdle, InBlock
        <3>2. \/ \E g : BlockBecomes(g)
              \/ Returns
              \/ UNCHANGED <<is_main_thread, stack, blocked_sessions>>
            BY <2>10, BlockIdleMoves
        <3> QED BY <1>0, <2>0, <3>1, <3>2, UnmovedStack, Zenon DEF Moves
    <2>11. CASE Park
        <3>1. Top.kind = "block"
            BY <2>11 DEF Park, InBlock
        <3>2. \/ \E g : BlockBecomes(g)
              \/ UNCHANGED <<is_main_thread, stack, blocked_sessions>>
            BY <2>11, ParkMoves
        <3> QED BY <1>0, <2>0, <3>1, <3>2, UnmovedStack, Zenon DEF Moves
    <2>12. CASE ParkDeadline
        <3>1. Returns \/ UNCHANGED <<is_main_thread, stack, blocked_sessions>>
            BY <2>12, ParkDeadlineMoves
        <3> QED BY <1>0, <3>1, UnmovedStack, Zenon DEF Moves
    <2> QED BY <1>6, <2>1, <2>2, <2>3, <2>4, <2>5, <2>6, <2>7, <2>8, <2>9, <2>10,
               <2>11, <2>12, Zenon DEF SchedulerStep
<1> QED BY <1>1, <1>2, <1>3, <1>4, <1>5, <1>6, Zenon DEF Next, Terminated

-----------------------------------------------------------------------------
(* What a step does to the queue, the sessions and the waiters.             *)

LEMMA NoneIsNoEvent == None \notin Events /\ Io \notin Tasks /\ Io \notin Timers
                       /\ Tasks \cap Timers = {}
BY SchedulerAssumption DEF Events

SessionMoves ==
    /\ session' \in [Tasks -> (Sessions \union {Background, None})]
    /\ \A t \in Tasks : session[t] = None \/ session'[t] = session[t]

QueueMoves ==
    \/ UNCHANGED <<runnables, order>>
    \/ \E t \in Tasks : session'[t] # None /\ schedule(t, session'[t])
    \/ \E b \in BOOLEAN : \E f \in Frames : RunsTask(b, f) /\ UNCHANGED session
    \/ runnables' = <<>> /\ order' = [s \in Sessions |-> <<>>]

WaitMoves ==
    \A t \in Tasks :
        \/ waiting'[t] = waiting[t] \/ waiting'[t] = None
        \/ /\ Top.kind = "task" /\ t = Top.task
           /\ waiting'[t] \in Events /\ Awaitable(waiting'[t])
           /\ stack' = Callers

LEMMA Unspawned ==
    ASSUME TypeOK, UNCHANGED session
    PROVE  SessionMoves
<1>1. session \in [Tasks -> (Sessions \union {Background, None})]
    BY DEF TypeOK
<1> QED BY <1>1 DEF SessionMoves

LEMMA CompleteQueue ==
    ASSUME TypeOK, SpawnedInv, NEW e \in Events, NEW frames \in Seq(Frames),
           complete(e, frames), UNCHANGED session
    PROVE  QueueMoves /\ WaitMoves
<1>1. WaitMoves
    BY CompleteStack DEF WaitMoves
<1>2. ASSUME NEW t \in Suspended(e), schedule(t, session[t]) PROVE QueueMoves
    <2>1. t \in Tasks /\ waiting[t] = e
        BY <1>2 DEF Suspended
    <2>2. session[t] # None
        BY <2>1, NoneIsNoEvent DEF SpawnedInv
    <2> QED BY <1>2, <2>1, <2>2, Zenon DEF QueueMoves
<1>3. ASSUME NEW n, wake_block(n, frames) PROVE QueueMoves
    BY <1>3 DEF wake_block, QueueMoves
<1>4. QueueMoves
    BY <1>2, <1>3, Zenon DEF complete, QueueMoves
<1> QED BY <1>1, <1>4

LEMMA StepQueue ==
    ASSUME TypeOK, NEW b \in BOOLEAN, NEW frames, step_filtered(b, frames),
           UNCHANGED <<session, waiting>>
    PROVE  QueueMoves /\ WaitMoves
<1>1. PICK f \in Frames : Elapses(f) \/ RunsTask(b, f)
    BY StepPushes
<1>2. CASE Elapses(f)
    BY <1>2, Zenon DEF Elapses, QueueMoves, WaitMoves
<1>3. CASE RunsTask(b, f)
    BY <1>3, Zenon DEF QueueMoves, WaitMoves
<1> QED BY <1>1, <1>2, <1>3

\* Steps that schedule nothing.
LEMMA QueueUnmoved ==
    ASSUME TypeOK, UNCHANGED <<runnables, order, session, waiting>>
    PROVE  SessionMoves /\ QueueMoves /\ WaitMoves
BY Unspawned, Zenon DEF QueueMoves, WaitMoves

LEMMA UserCallQueue ==
    ASSUME TypeOK, UserCall
    PROVE  SessionMoves /\ QueueMoves /\ WaitMoves
<1>1. ASSUME NEW s \in Sessions \union {Background}, Spawn(s)
      PROVE  SessionMoves /\ QueueMoves /\ WaitMoves
    <2>1. PICK t \in Tasks : /\ session[t] = None
                             /\ session' = [session EXCEPT ![t] = s]
                             /\ schedule(t, s)
        BY <1>1 DEF Spawn
    <2>2. session \in [Tasks -> (Sessions \union {Background, None})]
        BY DEF TypeOK
    <2>3. SessionMoves /\ session'[t] = s /\ s # None
        BY <2>1, <2>2, SchedulerAssumption DEF SessionMoves
    <2>4. QueueMoves
        BY <2>1, <2>3, Zenon DEF QueueMoves
    <2>5. UNCHANGED waiting
        BY <1>1 DEF Spawn
    <2> QED BY <2>3, <2>4, <2>5, Zenon DEF WaitMoves
<1>2. ASSUME NEW d, timer(d) PROVE SessionMoves /\ QueueMoves /\ WaitMoves
    BY <1>2, QueueUnmoved DEF timer, tasks
<1>3. ASSUME NEW b, SetParking(b) PROVE SessionMoves /\ QueueMoves /\ WaitMoves
    BY <1>3, QueueUnmoved DEF SetParking, tasks
<1>4. ASSUME NEW s, NEW e, NEW b, block(s, e, b)
      PROVE  SessionMoves /\ QueueMoves /\ WaitMoves
    BY <1>4, QueueUnmoved DEF block, tasks
<1>5. ASSUME NEW b \in BOOLEAN, tick(b) PROVE SessionMoves /\ QueueMoves /\ WaitMoves
    BY <1>5, StepQueue, Unspawned DEF tick, UntouchedByStep, tasks
<1>6. ASSUME NEW f, Start(f) PROVE SessionMoves /\ QueueMoves /\ WaitMoves
    BY <1>6, QueueUnmoved DEF Start, sched, tasks
<1>7. (StartRun \/ StartDrain \/ \E d \in Durations : StartAdvance(d))
          => \E f : Start(f)
    BY Zenon DEF StartRun, StartDrain, StartAdvance
<1> QED BY <1>1, <1>2, <1>3, <1>4, <1>5, <1>6, <1>7, Zenon DEF UserCall

LEMMA TaskReturnsQueue ==
    ASSUME TypeOK, ShapeInv, SpawnedInv, TaskReturns
    PROVE  SessionMoves /\ QueueMoves /\ WaitMoves
<1>1. /\ stack # <<>> /\ Top = stack[Len(stack)] /\ Top \in Frames
      /\ Len(stack) \in 1..Len(stack)
    BY TopFrame DEF ShapeInv
<1>2. Top.kind = "task"
    BY Zenon DEF TaskReturns, YieldNow, Await, Finish
<1>3. Top.task \in Tasks /\ session[Top.task] # None
    BY <1>1, <1>2, FrameFields DEF SpawnedInv
<1>4. SessionMoves
    BY Unspawned, Zenon DEF TaskReturns, YieldNow, Await, Finish, tasks
<1>5. CASE YieldNow
    <2>1. schedule(Top.task, session[Top.task]) /\ UNCHANGED <<session, waiting>>
        BY <1>5 DEF YieldNow, tasks
    <2> QED BY <1>3, <1>4, <2>1, Zenon DEF QueueMoves, WaitMoves
<1>6. ASSUME NEW e \in Events, Await(e) PROVE QueueMoves /\ WaitMoves
    <2>1. /\ Awaitable(e) /\ waiting' = [waiting EXCEPT ![Top.task] = e]
          /\ UNCHANGED <<runnables, order>> /\ stack' = Callers
        BY <1>6 DEF Await, history
    <2>2. waiting \in [Tasks -> (Events \union {None})]
        BY DEF TypeOK
    <2>3. /\ waiting'[Top.task] = e
          /\ \A t \in Tasks : t # Top.task => waiting'[t] = waiting[t]
        BY <1>3, <2>1, <2>2
    <2> QED BY <1>2, <2>1, <2>3, Zenon DEF QueueMoves, WaitMoves
<1>7. CASE Finish
    <2>1. Top.task \in Events /\ Callers \in Seq(Frames)
        BY <1>1, <1>3, TopFrame DEF Events
    <2>2. complete(Top.task, Callers) /\ UNCHANGED session
        BY <1>7 DEF Finish
    <2> QED BY <1>4, <2>1, <2>2, CompleteQueue
<1> QED BY <1>4, <1>5, <1>6, <1>7, Zenon DEF TaskReturns

LEMMA SchedulerQueue ==
    ASSUME TypeOK, ShapeInv, SpawnedInv, SchedulerStep
    PROVE  SessionMoves /\ QueueMoves /\ WaitMoves
<1>1. CASE DropElapsed
    <2>1. Head(Top.elapsed) \in Events
        BY <1>1, DropElapsedMoves DEF Events
    <2>2. UNCHANGED session
        BY <1>1 DEF DropElapsed
    <2>3. \E frames \in Seq(Frames) : complete(Head(Top.elapsed), frames)
        <3>1. /\ stack # <<>> /\ Top \in Frames /\ Callers \in Seq(Frames)
            BY TopFrame DEF ShapeInv
        <3>2. Top.kind = "elapse"
            BY <1>1 DEF DropElapsed
        <3>3. PICK l : l = Tail(Top.elapsed)
            OBVIOUS
        <3>4. complete(Head(Top.elapsed),
                 IF l = <<>> THEN Callers ELSE WithTop([Top EXCEPT !.elapsed = l]))
            BY <1>1, <3>3 DEF DropElapsed
        <3>5. CASE l = <<>>
            BY <3>1, <3>4, <3>5
        <3>6. CASE l # <<>>
            <4>1. Top \in [kind: {"elapse"}, elapsed: Seq(Timers) \ {<<>>}]
                BY <3>1, <3>2 DEF Frames, BlockFrames
            <4>2. Top.elapsed \in Seq(Timers) /\ Top.elapsed # <<>>
                BY <4>1
            <4>3. l \in Seq(Timers)
                BY <3>3, <4>2, HeadTailProperties
            <4>4. [Top EXCEPT !.elapsed = l] \in [kind: {"elapse"}, elapsed: Seq(Timers) \ {<<>>}]
                BY <3>6, <4>1, <4>3
            <4>5. [Top EXCEPT !.elapsed = l] \in Frames
                BY <4>4, Zenon DEF Frames
            <4>6. WithTop([Top EXCEPT !.elapsed = l]) \in Seq(Frames)
                BY <3>1, <4>5, TopReplaced
            <4>7. complete(Head(Top.elapsed), WithTop([Top EXCEPT !.elapsed = l]))
                BY <3>4, <3>6, Zenon
            <4> QED BY <4>6, <4>7, Zenon
        <3> QED BY <3>5, <3>6
    <2> QED BY <2>1, <2>2, <2>3, CompleteQueue, Unspawned
<1>2. CASE DrainDrop
    <2>1. PICK e \in Events, f \in Frames : complete(e, WithTop(f))
        BY <1>2, DrainDropMoves
    <2>2. WithTop(f) \in Seq(Frames)
        BY TopReplaced DEF ShapeInv
    <2>3. UNCHANGED session
        BY <1>2 DEF DrainDrop
    <2> QED BY <2>1, <2>2, <2>3, CompleteQueue, Unspawned
<1>3. CASE LoopStep
    BY <1>3, StepQueue, Unspawned DEF LoopStep, step, UntouchedByStep, tasks
<1>4. CASE BlockStep
    BY <1>4, StepQueue, Unspawned DEF BlockStep, step, UntouchedByStep, tasks
<1>5. CASE DrainTake
    <2>1. /\ runnables' = <<>> /\ order' = [s \in Sessions |-> <<>>]
          /\ UNCHANGED <<session, waiting>>
        BY <1>5 DEF DrainTake, tasks
    <2> QED BY <2>1, Unspawned, Zenon DEF QueueMoves, WaitMoves
<1>6. CASE LoopIdle
    BY <1>6, QueueUnmoved DEF LoopIdle, tasks, history
<1>7. CASE BlockPoll
    BY <1>7, QueueUnmoved DEF BlockPoll, tasks, history
<1>8. CASE BlockStepIdle \/ BlockCoinDown \/ BlockSwap
    BY <1>8, QueueUnmoved DEF BlockStepIdle, BlockCoinDown, BlockSwap, sched, tasks, history
<1>9. CASE BlockIdle
    BY <1>9, QueueUnmoved DEF BlockIdle, tasks, history
<1>10. CASE Park
    BY <1>10, QueueUnmoved DEF Park, tasks, history
<1>11. CASE ParkDeadline
    BY <1>11, QueueUnmoved DEF ParkDeadline, tasks, history
<1> QED BY <1>1, <1>2, <1>3, <1>4, <1>5, <1>6, <1>7, <1>8, <1>9, <1>10, <1>11, Zenon
        DEF SchedulerStep

LEMMA DataMoves ==
    ASSUME TypeOK, ShapeInv, SpawnedInv, [Next]_vars
    PROVE  SessionMoves /\ QueueMoves /\ WaitMoves
<1>1. CASE UNCHANGED vars
    BY <1>1, QueueUnmoved DEF vars, sched, tasks, history
<1>2. CASE end_test
    BY <1>2, QueueUnmoved DEF end_test, sched, tasks, history
<1>3. CASE IoCompletes
    <2>1. stack \in Seq(Frames) /\ Io \in Events
        BY DEF TypeOK, Events
    <2>2. complete(Io, stack) /\ UNCHANGED session
        BY <1>3 DEF IoCompletes
    <2> QED BY <2>1, <2>2, CompleteQueue, Unspawned
<1>4. CASE UserCall
    BY <1>4, UserCallQueue
<1>5. CASE TaskReturns
    BY <1>5, TaskReturnsQueue
<1>6. CASE SchedulerStep
    BY <1>6, SchedulerQueue
<1> QED BY <1>1, <1>2, <1>3, <1>4, <1>5, <1>6, Zenon DEF Next, Terminated

-----------------------------------------------------------------------------
(* The shape of the stack.                                                  *)

\* What the frames below the top keep.
LEMMA BelowKept ==
    ASSUME TypeOK, Below, NEW n \in 1..(Len(stack) - 1)
    PROVE  /\ stack[n] \in Frames /\ stack'[n].kind = stack[n].kind
           /\ Same(stack[n], stack'[n])
           /\ stack[n].kind = "block" =>
                 /\ stack'[n] \in BlockFrames
                 /\ stack'[n].phase = stack[n].phase
                 /\ stack'[n].stepped = stack[n].stepped
                 /\ (stack[n].awoken => stack'[n].awoken)
<1>1. stack \in Seq(Frames)
    BY DEF TypeOK
<1>2. stack[n] \in Frames
    BY <1>1
<1>3. Woken(stack[n], stack'[n])
    BY DEF Below
<1> QED BY <1>2, <1>3, WokenFrame, WokenIsSame

\* The kinds of the frames after a step.
LEMMA KindsAfter ==
    ASSUME TypeOK, ShapeInv, Moves
    PROVE  /\ Len(stack) \in Nat /\ Len(stack) >= 1
           /\ Len(stack') \in Nat /\ Len(stack') >= 1
           /\ Len(stack') \in {Len(stack) - 1, Len(stack), Len(stack) + 1}
           /\ \A n \in 1..Len(stack') :
                 \/ n \in 1..Len(stack) /\ Same(stack[n], stack'[n])
                 \/ n = Len(stack) + 1 /\ stack'[n].kind # "test"
<1>1. Len(stack) \in Nat /\ Len(stack) >= 1 /\ Top = stack[Len(stack)]
    BY TopFrame DEF ShapeInv
<1>2. \A n \in 1..(Len(stack) - 1) : Below => Same(stack[n], stack'[n])
    BY BelowKept
<1>3. CASE GoesOn
    BY <1>1, <1>2, <1>3 DEF GoesOn
<1>4. ASSUME NEW f \in Frames, Calls(f)
      PROVE  /\ Len(stack') = Len(stack) + 1
             /\ \A n \in 1..Len(stack') :
                 \/ n \in 1..Len(stack) /\ Same(stack[n], stack'[n])
                 \/ n = Len(stack) + 1 /\ stack'[n].kind # "test"
    <2>1. f.kind # "test"
        BY <1>4 DEF Calls, Called, Loops
    <2>2. /\ Len(stack') = Len(stack) + 1 /\ Below
          /\ Same(stack[Len(stack)], stack'[Len(stack)])
          /\ stack'[Len(stack) + 1] = f
        BY <1>4 DEF Calls
    <2> QED BY <1>1, <1>2, <2>1, <2>2
<1>5. CASE Returns
    <2>1. Len(stack') = Len(stack) - 1 /\ Below /\ Top.kind # "test"
        BY <1>5 DEF Returns, Loops
    <2>2. Len(stack) # 1
        BY <1>1, <2>1 DEF ShapeInv
    <2> QED BY <1>1, <1>2, <2>1, <2>2
<1> QED BY <1>1, <1>3, <1>4, <1>5 DEF Moves

LEMMA ShapeStep ==
    ASSUME TypeOK, ShapeInv, Moves
    PROVE  ShapeInv'
<1>1. /\ Len(stack) \in Nat /\ Len(stack) >= 1
      /\ Len(stack') \in Nat /\ Len(stack') >= 1
      /\ \A n \in 1..Len(stack') :
            \/ n \in 1..Len(stack) /\ stack'[n].kind = stack[n].kind
            \/ n = Len(stack) + 1 /\ stack'[n].kind # "test"
    BY KindsAfter DEF Same
<1>2. stack' # <<>> /\ stack'[1].kind = "test"
    BY <1>1 DEF ShapeInv
<1>3. \A n \in 2..Len(stack') : stack'[n].kind # "test"
    BY <1>1 DEF ShapeInv
<1>4. ASSUME Below, NEW n \in 1..(Len(stack) - 1)
      PROVE  \/ stack'[n].kind \in {"test", "task"} \union Loops
             \/ stack'[n].kind = "block" /\ stack'[n].phase = "coin"
    BY <1>4, BelowKept DEF ShapeInv
<1>5. ASSUME NEW n \in 1..(Len(stack') - 1)
      PROVE  \/ stack'[n].kind \in {"test", "task"} \union Loops
             \/ stack'[n].kind = "block" /\ stack'[n].phase = "coin"
    <2>1. CASE GoesOn \/ Returns
        BY <1>1, <1>4, <2>1 DEF GoesOn, Returns
    <2>2. ASSUME NEW f \in Frames, Calls(f)
          PROVE  \/ stack'[n].kind \in {"test", "task"} \union Loops
                 \/ stack'[n].kind = "block" /\ stack'[n].phase = "coin"
        <3>1. CASE n = Len(stack)
            BY <2>2, <3>1 DEF Calls, Same
        <3>2. CASE n \in 1..(Len(stack) - 1)
            BY <1>4, <2>2, <3>2 DEF Calls
        <3>3. Len(stack') = Len(stack) + 1
            BY <2>2 DEF Calls
        <3> QED BY <1>1, <3>1, <3>2, <3>3
    <2> QED BY <2>1, <2>2 DEF Moves
<1> QED BY <1>2, <1>3, <1>5 DEF ShapeInv

-----------------------------------------------------------------------------
(* Queued, suspended and running tasks were spawned.                        *)

\* What the queue holds after a step.
LEMMA QueuedAfter ==
    ASSUME TypeOK, SpawnedInv, SessionMoves, QueueMoves
    PROVE  /\ runnables' \in Seq(Tasks)
           /\ \A i \in 1..Len(runnables') : session'[runnables'[i]] # None
<1>1. runnables \in Seq(Tasks)
    BY DEF TypeOK
<1>2. \A i \in 1..Len(runnables) :
          /\ runnables[i] \in Tasks /\ session'[runnables[i]] # None
    BY <1>1 DEF SpawnedInv, SessionMoves
<1>3. CASE UNCHANGED <<runnables, order>>
    BY <1>1, <1>2, <1>3
<1>4. ASSUME NEW t \in Tasks, session'[t] # None, schedule(t, session'[t])
      PROVE  /\ runnables' \in Seq(Tasks)
             /\ \A i \in 1..Len(runnables') : session'[runnables'[i]] # None
    <2>1. PICK i \in 1..(Len(runnables) + 1) : runnables' = InsertAt(runnables, i, t)
        BY <1>1, <1>4, ScheduleInserts
    <2>2. /\ runnables' \in Seq(Tasks)
          /\ Len(runnables') = Len(runnables) + 1
          /\ runnables'[i] = t
          /\ \A j \in 1..Len(runnables) : j < i => runnables'[j] = runnables[j]
          /\ \A j \in 1..Len(runnables) : j >= i => runnables'[j + 1] = runnables[j]
        BY <1>1, <2>1, InsertAtProperties
    <2>3. Len(runnables) \in Nat
        BY <1>1
    <2>4. ASSUME NEW j \in 1..Len(runnables') PROVE session'[runnables'[j]] # None
        <3>1. CASE j = i
            BY <1>4, <2>2, <3>1
        <3>2. CASE j < i
            <4>1. j \in 1..Len(runnables)
                BY <2>2, <2>3, <3>2
            <4> QED BY <1>2, <2>2, <3>2, <4>1
        <3>3. CASE j > i
            <4>1. PICK k \in 1..Len(runnables) : j = k + 1 /\ k >= i
                <5>1. j - 1 \in 1..Len(runnables) /\ j = (j - 1) + 1 /\ j - 1 >= i
                    BY <2>2, <2>3, <3>3
                <5> QED BY <5>1
            <4> QED BY <1>2, <2>2, <4>1
        <3>4. j \in Int /\ i \in Int
            OBVIOUS
        <3> QED BY <3>1, <3>2, <3>3, <3>4
    <2> QED BY <2>2, <2>4
<1>5. ASSUME NEW b \in BOOLEAN, NEW f \in Frames, RunsTask(b, f)
      PROVE  /\ runnables' \in Seq(Tasks)
             /\ \A i \in 1..Len(runnables') : session'[runnables'[i]] # None
    <2>1. PICK i \in candidate_indices(b) : runnables' = RemoveAt(runnables, i)
        BY <1>5 DEF RunsTask
    <2>2. i \in 1..Len(runnables)
        BY CandidateUnblocked
    <2>3. /\ runnables' \in Seq(Tasks)
          /\ Len(runnables') = Len(runnables) - 1
          /\ \A j \in 1..(Len(runnables) - 1) : j < i => runnables'[j] = runnables[j]
          /\ \A j \in 1..(Len(runnables) - 1) : j >= i => runnables'[j] = runnables[j + 1]
        BY <1>1, <2>1, <2>2, RemoveAtProperties
    <2>4. Len(runnables) \in Nat
        BY <1>1
    <2>5. \A j \in 1..Len(runnables') : \E k \in 1..Len(runnables) :
              runnables'[j] = runnables[k]
        BY <2>2, <2>3, <2>4
    <2> QED BY <1>2, <2>3, <2>5
<1>6. CASE runnables' = <<>>
    BY <1>6
<1> QED BY <1>3, <1>4, <1>5, <1>6, Zenon DEF QueueMoves

LEMMA SpawnedStep ==
    ASSUME TypeOK, ShapeInv, SpawnedInv, SessionMoves, QueueMoves, WaitMoves, Moves
    PROVE  SpawnedInv'
<1>1. \A i \in 1..Len(runnables') : session'[runnables'[i]] # None
    BY QueuedAfter
<1>2. ASSUME NEW t \in Tasks, waiting'[t] # None PROVE session'[t] # None
    <2>1. session[t] # None
        <3>1. CASE waiting'[t] = waiting[t]
            BY <1>2, <3>1 DEF SpawnedInv
        <3>2. CASE Top.kind = "task" /\ t = Top.task
            <4>1. Top = stack[Len(stack)] /\ Len(stack) \in 1..Len(stack)
                BY TopFrame DEF ShapeInv
            <4> QED BY <3>2, <4>1 DEF SpawnedInv
        <3> QED BY <1>2, <3>1, <3>2 DEF WaitMoves
    <2> QED BY <2>1 DEF SessionMoves
<1>3. ASSUME NEW n \in 1..Len(stack'), stack'[n].kind = "task"
      PROVE  session'[stack'[n].task] # None
    <2>1. stack \in Seq(Frames)
        BY DEF TypeOK
    <2>2. CASE n \in 1..Len(stack) /\ Same(stack[n], stack'[n])
        <3>1. stack[n] \in Frames
            BY <2>1, <2>2
        <3>2. stack'[n] = stack[n] /\ stack[n].kind = "task"
            BY <1>3, <2>2 DEF Same
        <3>3. stack[n].task \in Tasks /\ session[stack[n].task] # None
            BY <2>2, <3>1, <3>2, FrameFields DEF SpawnedInv
        <3> QED BY <3>2, <3>3 DEF SessionMoves
    <2>3. CASE n = Len(stack) + 1
        <3>1. Len(stack) \in Nat
            BY <2>1
        <3>2. PICK f \in Frames : Calls(f)
            BY <1>3, <2>3, <3>1 DEF Moves, GoesOn, Returns
        <3>3. f.kind = "task" /\ stack'[n] = f
            BY <1>3, <2>3, <3>2 DEF Calls
        <3>4. PICK i \in 1..Len(runnables) : f.task = runnables[i]
            BY <3>2, <3>3 DEF Calls, Called, Loops
        <3>5. session[f.task] # None /\ f.task \in Tasks
            BY <3>3, <3>4, FrameFields DEF SpawnedInv
        <3> QED BY <3>3, <3>5 DEF SessionMoves
    <2> QED BY <2>2, <2>3, KindsAfter
<1> QED BY <1>1, <1>2, <1>3 DEF SpawnedInv

-----------------------------------------------------------------------------
(* Listing positions of a queue that grows and shrinks at position i.       *)

Up(i, j) == IF j < i THEN j ELSE j + 1
Down(i, j) == IF j < i THEN j ELSE j - 1

\* g lists S, m numbers of 1..n.
Listing(g, m, n, S) == g \in [1..m -> 1..n] /\ S \subseteq 1..n /\ Lists(g, S)

\* h follows g, one number longer or position by position.
Appends(h, g, m, i) == h[m + 1] = i /\ \A k \in 1..m : h[k] = g[k]
Lifts(h, g, m, i) == \A k \in 1..m : h[k] = Up(i, g[k])
Lowers(h, g, m, i) == \A k \in 1..m : h[k] = Down(i, g[k])
Shifts(h, g, m) == \A k \in 1..m : h[k] = g[k + 1]

LEMMA ListsAppend ==
    ASSUME NEW m \in Nat, NEW n \in Nat, NEW S, NEW g, Listing(g, m, n, S),
           NEW i \in 1..(n + 1), \A j \in S : j < i
    PROVE  \E h : Listing(h, m + 1, n + 1, S \union {i}) /\ Appends(h, g, m, i)
<1>0. g \in [1..m -> 1..n] /\ S \subseteq 1..n /\ Lists(g, S)
    BY DEF Listing
<1> DEFINE h == [k \in 1..(m + 1) |-> IF k <= m THEN g[k] ELSE i]
<1>1. h \in [1..(m + 1) -> 1..(n + 1)]
    BY <1>0
<1>2. h[m + 1] = i /\ \A k \in 1..m : h[k] = g[k]
    BY <1>0
<1>3. DOMAIN g = 1..m /\ DOMAIN h = 1..(m + 1)
    BY <1>0
<1>4. \A k \in 1..(m + 1) : k \in 1..m \/ k = m + 1
    BY <1>0
<1> HIDE DEF h
<1>5. \A k \in 1..(m + 1) : h[k] \in S \union {i}
    BY <1>0, <1>2, <1>3, <1>4 DEF Lists
<1>6. \A a, b \in 1..(m + 1) : a < b => h[a] < h[b]
    <2> SUFFICES ASSUME NEW a \in 1..(m + 1), NEW b \in 1..(m + 1), a < b
                 PROVE  h[a] < h[b]
        OBVIOUS
    <2>1. a \in 1..m /\ h[a] = g[a] /\ g[a] \in S
        BY <1>0, <1>2, <1>3 DEF Lists
    <2>2. CASE b = m + 1
        BY <1>0, <1>2, <2>1, <2>2
    <2>3. CASE b \in 1..m
        BY <1>0, <1>2, <1>3, <2>1, <2>3 DEF Lists
    <2> QED BY <1>4, <2>2, <2>3
<1>7. \A x \in S \union {i} : \E k \in 1..(m + 1) : h[k] = x
    BY <1>0, <1>2, <1>3 DEF Lists
<1>8. Lists(h, S \union {i})
    BY <1>0, <1>3, <1>5, <1>6, <1>7 DEF Lists
<1>9. S \union {i} \subseteq 1..(n + 1)
    BY <1>0
<1>10. Listing(h, m + 1, n + 1, S \union {i})
    BY <1>1, <1>8, <1>9 DEF Listing
<1> QED BY <1>2, <1>10 DEF Appends

LEMMA ListsUp ==
    ASSUME NEW m \in Nat, NEW n \in Nat, NEW S, NEW g, Listing(g, m, n, S),
           NEW i \in 1..(n + 1)
    PROVE  \E h : Listing(h, m, n + 1, {Up(i, j) : j \in S}) /\ Lifts(h, g, m, i)
<1>0. g \in [1..m -> 1..n] /\ S \subseteq 1..n /\ Lists(g, S)
    BY DEF Listing
<1> DEFINE h == [k \in 1..m |-> Up(i, g[k])]
<1>1. \A j \in 1..n : Up(i, j) \in 1..(n + 1)
    BY DEF Up
<1>2. \A a, b \in 1..n : a < b => Up(i, a) < Up(i, b)
    BY DEF Up
<1>3. h \in [1..m -> 1..(n + 1)] /\ \A k \in 1..m : h[k] = Up(i, g[k])
    BY <1>0, <1>1
<1>4. DOMAIN g = 1..m /\ DOMAIN h = 1..m /\ \A k \in 1..m : g[k] \in 1..n
    BY <1>0
<1> HIDE DEF h
<1>5. \A k \in 1..m : h[k] \in {Up(i, j) : j \in S}
    BY <1>0, <1>3, <1>4 DEF Lists
<1>6. \A a, b \in 1..m : a < b => h[a] < h[b]
    BY <1>0, <1>2, <1>3, <1>4 DEF Lists
<1>7. \A x \in {Up(i, j) : j \in S} : \E k \in 1..m : h[k] = x
    BY <1>0, <1>3, <1>4 DEF Lists
<1>8. Lists(h, {Up(i, j) : j \in S})
    BY <1>0, <1>4, <1>5, <1>6, <1>7 DEF Lists
<1>9. {Up(i, j) : j \in S} \subseteq 1..(n + 1)
    BY <1>0, <1>1
<1>10. Listing(h, m, n + 1, {Up(i, j) : j \in S})
    BY <1>3, <1>8, <1>9 DEF Listing
<1> QED BY <1>3, <1>10 DEF Lifts

LEMMA ListsDown ==
    ASSUME NEW m \in Nat, NEW n \in Nat, NEW S, NEW g, Listing(g, m, n, S),
           NEW i \in 1..n, i \notin S
    PROVE  \E h : Listing(h, m, n - 1, {Down(i, j) : j \in S}) /\ Lowers(h, g, m, i)
<1>0. g \in [1..m -> 1..n] /\ S \subseteq 1..n /\ Lists(g, S)
    BY DEF Listing
<1> DEFINE h == [k \in 1..m |-> Down(i, g[k])]
<1>1. \A j \in 1..n : j # i => Down(i, j) \in 1..(n - 1)
    BY DEF Down
<1>2. \A a, b \in 1..n : a # i /\ b # i /\ a < b => Down(i, a) < Down(i, b)
    BY DEF Down
<1>3. DOMAIN g = 1..m /\ DOMAIN h = 1..m /\ \A k \in 1..m : g[k] \in 1..n
    BY <1>0
<1>4. \A k \in 1..m : g[k] \in S /\ g[k] # i
    BY <1>0, <1>3 DEF Lists
<1>5. h \in [1..m -> 1..(n - 1)] /\ \A k \in 1..m : h[k] = Down(i, g[k])
    BY <1>0, <1>1, <1>3, <1>4
<1> HIDE DEF h
<1>6. \A k \in 1..m : h[k] \in {Down(i, j) : j \in S}
    BY <1>0, <1>4, <1>5
<1>7. \A a, b \in 1..m : a < b => h[a] < h[b]
    <2> SUFFICES ASSUME NEW a \in 1..m, NEW b \in 1..m, a < b
                 PROVE  h[a] < h[b]
        OBVIOUS
    <2>1. g[a] < g[b]
        BY <1>0, <1>3 DEF Lists
    <2>2. Down(i, g[a]) < Down(i, g[b])
        BY <1>0, <1>2, <1>3, <1>4, <2>1
    <2> QED BY <1>5, <2>2
<1>8. \A x \in {Down(i, j) : j \in S} : \E k \in 1..m : h[k] = x
    BY <1>0, <1>3, <1>5 DEF Lists
<1>9. Lists(h, {Down(i, j) : j \in S})
    BY <1>0, <1>3, <1>6, <1>7, <1>8 DEF Lists
<1>10. {Down(i, j) : j \in S} \subseteq 1..(n - 1)
    BY <1>0, <1>1
<1>11. Listing(h, m, n - 1, {Down(i, j) : j \in S})
    BY <1>5, <1>9, <1>10 DEF Listing
<1> QED BY <1>5, <1>11 DEF Lowers

LEMMA ListsTail ==
    ASSUME NEW m \in Nat, NEW n \in Nat, NEW S, NEW g, Listing(g, m, n, S),
           NEW i \in S, \A j \in S : j >= i
    PROVE  /\ m >= 1 /\ g[1] = i
           /\ \E h : Listing(h, m - 1, n, S \ {i}) /\ Shifts(h, g, m - 1)
<1>0. g \in [1..m -> 1..n] /\ S \subseteq 1..n /\ Lists(g, S)
    BY DEF Listing
<1> DEFINE h == [k \in 1..(m - 1) |-> g[k + 1]]
<1>1. DOMAIN g = 1..m /\ DOMAIN h = 1..(m - 1) /\ \A k \in 1..m : g[k] \in 1..n
    BY <1>0
<1>2. PICK a \in 1..m : g[a] = i
    BY <1>0, <1>1 DEF Lists
<1>3. m >= 1 /\ 1 \in 1..m
    BY <1>0, <1>2
<1>4. a = 1
    <2> SUFFICES ASSUME 1 < a PROVE FALSE
        BY <1>0, <1>2, <1>3
    <2>1. g[1] < g[a] /\ g[1] \in S
        BY <1>0, <1>1, <1>3 DEF Lists
    <2> QED BY <1>1, <1>2, <1>3, <2>1
<1>5. \A k \in 1..(m - 1) : k + 1 \in 1..m /\ 1 < k + 1
    BY <1>0, <1>3
<1>6. h \in [1..(m - 1) -> 1..n] /\ \A k \in 1..(m - 1) : h[k] = g[k + 1]
    BY <1>0, <1>1, <1>5
<1> HIDE DEF h
<1>7. \A k \in 1..(m - 1) : h[k] \in S \ {i}
    <2> SUFFICES ASSUME NEW k \in 1..(m - 1) PROVE h[k] \in S /\ h[k] # i
        OBVIOUS
    <2>1. g[k + 1] \in S /\ g[1] < g[k + 1]
        BY <1>0, <1>1, <1>3, <1>5 DEF Lists
    <2> QED BY <1>1, <1>2, <1>3, <1>4, <1>5, <1>6, <2>1
<1>8. \A b, c \in 1..(m - 1) : b < c => h[b] < h[c]
    <2> SUFFICES ASSUME NEW b \in 1..(m - 1), NEW c \in 1..(m - 1), b < c
                 PROVE  h[b] < h[c]
        OBVIOUS
    <2>1. b + 1 \in 1..m /\ c + 1 \in 1..m /\ b + 1 < c + 1
        BY <1>0, <1>5
    <2>2. g[b + 1] < g[c + 1]
        BY <1>0, <1>1, <2>1 DEF Lists
    <2> QED BY <1>6, <2>2
<1>9. \A x \in S \ {i} : \E k \in 1..(m - 1) : h[k] = x
    <2> SUFFICES ASSUME NEW x \in S, x # i PROVE \E k \in 1..(m - 1) : h[k] = x
        OBVIOUS
    <2>1. PICK c \in 1..m : g[c] = x
        BY <1>0, <1>1 DEF Lists
    <2>2. c # 1
        BY <1>0, <1>2, <1>4, <2>1
    <2>3. c - 1 \in 1..(m - 1) /\ (c - 1) + 1 = c
        BY <1>0, <2>2
    <2> QED BY <1>6, <2>1, <2>3
<1>10. Lists(h, S \ {i})
    BY <1>0, <1>1, <1>7, <1>8, <1>9 DEF Lists
<1>11. Listing(h, m - 1, n, S \ {i})
    BY <1>0, <1>6, <1>10 DEF Listing
<1> QED BY <1>2, <1>3, <1>4, <1>6, <1>11 DEF Shifts

-----------------------------------------------------------------------------
(* The queue of a session is first-in first-out.                            *)

\* Queued tasks keep their sessions.
LEMMA SessionsOfQueue ==
    ASSUME TypeOK, SpawnedInv, SessionMoves
    PROVE  /\ runnables \in Seq(Tasks) /\ Len(runnables) \in Nat
           /\ order \in [Sessions -> Seq(Tasks)]
           /\ \A j \in 1..Len(runnables) :
                 /\ runnables[j] \in Tasks
                 /\ session'[runnables[j]] = session[runnables[j]]
<1>1. runnables \in Seq(Tasks) /\ order \in [Sessions -> Seq(Tasks)]
    BY DEF TypeOK
<1>2. \A j \in 1..Len(runnables) : runnables[j] \in Tasks
    BY <1>1
<1> QED BY <1>1, <1>2 DEF SpawnedInv, SessionMoves

LEMMA OrderInsert ==
    ASSUME TypeOK, SpawnedInv, SessionMoves, OrderInv,
           NEW t \in Tasks, session'[t] # None, schedule(t, session'[t])
    PROVE  OrderInv'
<1> SUFFICES ASSUME NEW s \in Sessions
             PROVE  \E h \in [1..Len(order'[s]) -> 1..Len(runnables')] :
                       /\ Lists(h, OfSession(s, Len(runnables))')
                       /\ \A k \in 1..Len(order'[s]) : runnables'[h[k]] = order'[s][k]
    BY DEF OrderInv
<1>0. PICK S : S = OfSession(s, Len(runnables))
    OBVIOUS
<1>1. /\ runnables \in Seq(Tasks) /\ Len(runnables) \in Nat
      /\ order[s] \in Seq(Tasks)
      /\ \A j \in 1..Len(runnables) :
            runnables[j] \in Tasks /\ session'[runnables[j]] = session[runnables[j]]
    BY SessionsOfQueue
<1>2. PICK i \in 1..(Len(runnables) + 1) :
          /\ runnables' = InsertAt(runnables, i, t)
          /\ session'[t] # Background =>
                \A j \in OfSession(session'[t], Len(runnables)) : j < i
    BY <1>1, ScheduleInserts
<1>3. /\ Len(runnables') = Len(runnables) + 1 /\ runnables'[i] = t
      /\ \A j \in 1..Len(runnables) : j < i => runnables'[j] = runnables[j]
      /\ \A j \in 1..Len(runnables) : j >= i => runnables'[j + 1] = runnables[j]
    BY <1>1, <1>2, InsertAtProperties
<1>4. PICK n \in Nat : n = Len(runnables) /\ i \in 1..(n + 1)
    BY <1>1
<1>5. PICK m \in Nat : m = Len(order[s])
    BY <1>1
<1>6. S \subseteq 1..n /\ S = {j \in 1..n : session[runnables[j]] = s}
    BY <1>0, <1>4 DEF OfSession
<1>7. PICK g \in [1..m -> 1..n] :
          Lists(g, S) /\ \A k \in 1..m : runnables[g[k]] = order[s][k]
    BY <1>0, <1>4, <1>5 DEF OrderInv
<1>8. OfSession(s, Len(runnables))' = {j \in 1..(n + 1) : session'[runnables'[j]] = s}
    BY <1>3, <1>4 DEF OfSession
<1>9. order'[s] = IF session'[t] = s THEN Append(order[s], t) ELSE order[s]
    BY DEF schedule
<1>10. /\ Listing(g, m, n, S) /\ i \in 1..(n + 1)
       /\ \A k \in 1..m : g[k] \in S /\ g[k] \in 1..n
    BY <1>4, <1>6, <1>7 DEF Lists, Listing
<1>11. \A j \in 1..n : /\ j < i => runnables'[j] = runnables[j]
                       /\ j >= i => runnables'[j + 1] = runnables[j]
                       /\ session'[runnables[j]] = session[runnables[j]]
    BY <1>1, <1>3, <1>4
<1>12. \A j \in 1..(n + 1) : \/ j = i
                             \/ j < i /\ j \in 1..n
                             \/ \E k \in 1..n : j = k + 1 /\ k >= i
    <2> SUFFICES ASSUME NEW j \in 1..(n + 1)
                 PROVE  \/ j = i
                        \/ j < i /\ j \in 1..n
                        \/ \E k \in 1..n : j = k + 1 /\ k >= i
        OBVIOUS
    <2>1. i \in Int /\ j \in Int /\ i <= n + 1 /\ i >= 1
        BY <1>4
    <2>2. CASE j > i
        <3>1. j - 1 \in 1..n /\ j = (j - 1) + 1 /\ j - 1 >= i
            BY <2>1, <2>2
        <3> QED BY <3>1
    <2>3. j < i => j \in 1..n
        BY <2>1
    <2>4. j < i \/ j = i \/ j > i
        BY <2>1
    <2> QED BY <2>2, <2>3, <2>4, Zenon
<1>13. CASE session'[t] = s
    <2>1. \A j \in S : j < i
        <3>1. s # Background
            BY SchedulerAssumption
        <3> QED BY <1>0, <1>2, <1>13, <3>1
    <2>0. PICK h : Listing(h, m + 1, n + 1, S \union {i}) /\ Appends(h, g, m, i)
        BY <1>10, <2>1, ListsAppend, Zenon
    <2>2. /\ Listing(h, m + 1, n + 1, S \union {i})
          /\ h[m + 1] = i /\ \A k \in 1..m : h[k] = g[k]
        BY <2>0 DEF Appends
    <2>3. S \union {i} = {j \in 1..(n + 1) : session'[runnables'[j]] = s}
        <3>1. ASSUME NEW j \in S
              PROVE  j \in 1..(n + 1) /\ session'[runnables'[j]] = s
            BY <1>6, <1>11, <2>1
        <3>2. i \in 1..(n + 1) /\ session'[runnables'[i]] = s
            BY <1>3, <1>4, <1>13
        <3>3. ASSUME NEW j \in 1..(n + 1), session'[runnables'[j]] = s
              PROVE  j \in S \union {i}
            <4>1. CASE j < i /\ j \in 1..n
                BY <1>6, <1>11, <3>3, <4>1
            <4>2. ASSUME NEW k \in 1..n, j = k + 1, k >= i PROVE FALSE
                <5>1. k \in S
                    BY <1>6, <1>11, <3>3, <4>2
                <5>2. k < i
                    BY <2>1, <5>1
                <5> QED BY <4>2, <5>2
            <4> QED BY <1>12, <4>1, <4>2
        <3> QED BY <3>1, <3>2, <3>3
    <2>4. PICK o \in Seq(Tasks) : o = order'[s] /\ Len(o) = m + 1 /\ o[m + 1] = t
                                  /\ \A k \in 1..m : o[k] = order[s][k]
        <3>1. PICK q \in Seq(Tasks) : q = order[s] /\ m = Len(q)
            BY <1>1, <1>5
        <3>2. /\ Append(q, t) \in Seq(Tasks) /\ Len(Append(q, t)) = m + 1
              /\ Append(q, t)[m + 1] = t
              /\ \A k \in 1..m : Append(q, t)[k] = q[k]
            BY <3>1
        <3>3. order'[s] = Append(q, t)
            BY <1>9, <1>13, <3>1
        <3> QED BY <3>1, <3>2, <3>3, Zenon
    <2>5. \A k \in 1..(m + 1) : runnables'[h[k]] = o[k]
        <3> SUFFICES ASSUME NEW k \in 1..(m + 1) PROVE runnables'[h[k]] = o[k]
            OBVIOUS
        <3>1. CASE k = m + 1
            BY <1>3, <2>2, <2>4, <3>1
        <3>2. CASE k \in 1..m
            <4>1. h[k] = g[k] /\ g[k] \in S /\ g[k] \in 1..n /\ g[k] < i
                BY <1>6, <1>10, <2>1, <2>2, <3>2
            <4>2. runnables'[g[k]] = runnables[g[k]]
                BY <1>11, <4>1
            <4> QED BY <1>7, <2>4, <3>2, <4>1, <4>2
        <3> QED BY <3>1, <3>2
    <2>6. /\ Lists(h, OfSession(s, Len(runnables))') /\ Len(runnables') = n + 1
          /\ h \in [1..(m + 1) -> 1..(n + 1)]
        BY <1>3, <1>4, <1>8, <2>2, <2>3, Zenon DEF Listing
    <2> QED BY <2>2, <2>4, <2>5, <2>6, Zenon
<1>14. CASE session'[t] # s
    <2>0. PICK h : Listing(h, m, n + 1, {Up(i, j) : j \in S}) /\ Lifts(h, g, m, i)
        BY <1>10, ListsUp, Zenon
    <2>1. /\ Listing(h, m, n + 1, {Up(i, j) : j \in S})
          /\ \A k \in 1..m : h[k] = Up(i, g[k])
        BY <2>0 DEF Lifts
    <2>2. \A j \in 1..n : Up(i, j) \in 1..(n + 1) /\ runnables'[Up(i, j)] = runnables[j]
        <3> SUFFICES ASSUME NEW j \in 1..n
                     PROVE  Up(i, j) \in 1..(n + 1) /\ runnables'[Up(i, j)] = runnables[j]
            OBVIOUS
        <3>1. CASE j < i
            BY <1>4, <1>11, <3>1 DEF Up
        <3>2. CASE j >= i
            BY <1>4, <1>11, <3>2 DEF Up
        <3>3. j \in Int /\ i \in Int
            BY <1>4
        <3> QED BY <3>1, <3>2, <3>3
    <2>3. {Up(i, j) : j \in S} = {j \in 1..(n + 1) : session'[runnables'[j]] = s}
        <3>1. ASSUME NEW j \in S
              PROVE  Up(i, j) \in 1..(n + 1) /\ session'[runnables'[Up(i, j)]] = s
            BY <1>6, <1>11, <2>2
        <3>2. ASSUME NEW j \in 1..(n + 1), session'[runnables'[j]] = s
              PROVE  \E k \in S : j = Up(i, k)
            <4>1. CASE j < i /\ j \in 1..n
                BY <1>4, <1>6, <1>11, <3>2, <4>1 DEF Up
            <4>2. ASSUME NEW k \in 1..n, j = k + 1, k >= i
                  PROVE  k \in S /\ j = Up(i, k)
                <5>1. k \in S
                    BY <1>6, <1>11, <3>2, <4>2
                <5> QED BY <1>4, <4>2, <5>1 DEF Up
            <4>3. j # i
                BY <1>3, <1>14, <3>2
            <4> QED BY <1>12, <4>1, <4>2, <4>3
        <3> QED BY <3>1, <3>2
    <2>4. \A k \in 1..m : runnables'[h[k]] = order[s][k]
        BY <1>7, <1>10, <2>1, <2>2
    <2>5. /\ Lists(h, OfSession(s, Len(runnables))') /\ Len(runnables') = n + 1
          /\ order'[s] = order[s] /\ Len(order'[s]) = m
          /\ h \in [1..m -> 1..(n + 1)]
        BY <1>3, <1>4, <1>5, <1>8, <1>9, <1>14, <2>1, <2>3 DEF Listing
    <2> QED BY <2>1, <2>4, <2>5, Zenon
<1> QED BY <1>13, <1>14

LEMMA OrderRemove ==
    ASSUME TypeOK, SpawnedInv, SessionMoves, OrderInv, UNCHANGED session,
           NEW b \in BOOLEAN, NEW f \in Frames, RunsTask(b, f)
    PROVE  OrderInv'
<1> SUFFICES ASSUME NEW s \in Sessions
             PROVE  \E h \in [1..Len(order'[s]) -> 1..Len(runnables')] :
                       /\ Lists(h, OfSession(s, Len(runnables))')
                       /\ \A k \in 1..Len(order'[s]) : runnables'[h[k]] = order'[s][k]
    BY DEF OrderInv
<1>0. PICK S : S = OfSession(s, Len(runnables))
    OBVIOUS
<1>1. /\ runnables \in Seq(Tasks) /\ Len(runnables) \in Nat
      /\ order[s] \in Seq(Tasks)
    BY SessionsOfQueue
<1>2. PICK i \in candidate_indices(b) :
          f.task = runnables[i] /\ runnables' = RemoveAt(runnables, i)
    BY DEF RunsTask
<1>3. /\ i \in 1..Len(runnables)
      /\ \/ session[runnables[i]] = Background
         \/ \A j \in 1..(i - 1) : session[runnables[j]] # session[runnables[i]]
    BY CandidateUnblocked
<1>4. PICK n \in Nat : n = Len(runnables) /\ i \in 1..n
    BY <1>1, <1>3
<1>5. PICK m \in Nat : m = Len(order[s])
    BY <1>1
<1>6. S \subseteq 1..n /\ S = {j \in 1..n : session[runnables[j]] = s}
    BY <1>0, <1>4 DEF OfSession
<1>7. PICK g \in [1..m -> 1..n] :
          Lists(g, S) /\ \A k \in 1..m : runnables[g[k]] = order[s][k]
    BY <1>0, <1>4, <1>5 DEF OrderInv
<1>8. /\ Len(runnables') = n - 1
      /\ \A j \in 1..(n - 1) : j < i => runnables'[j] = runnables[j]
      /\ \A j \in 1..(n - 1) : j >= i => runnables'[j] = runnables[j + 1]
    BY <1>1, <1>2, <1>3, <1>4, RemoveAtProperties
<1>9. order'[s] = IF session[f.task] = s THEN Tail(order[s]) ELSE order[s]
    BY DEF RunsTask
<1>10. Listing(g, m, n, S) /\ \A k \in 1..m : g[k] \in S /\ g[k] \in 1..n
    BY <1>6, <1>7 DEF Lists, Listing
<1>11. OfSession(s, Len(runnables))' = {j \in 1..(n - 1) : session[runnables'[j]] = s}
    BY <1>8 DEF OfSession
<1>12. \A j \in 1..n : j # i =>
          Down(i, j) \in 1..(n - 1) /\ runnables'[Down(i, j)] = runnables[j]
    <2> SUFFICES ASSUME NEW j \in 1..n, j # i
                 PROVE  Down(i, j) \in 1..(n - 1) /\ runnables'[Down(i, j)] = runnables[j]
        OBVIOUS
    <2>1. CASE j < i
        <3>1. Down(i, j) = j /\ j \in 1..(n - 1)
            BY <1>4, <2>1 DEF Down
        <3> QED BY <1>8, <2>1, <3>1
    <2>2. CASE j > i
        <3>1. Down(i, j) = j - 1 /\ j - 1 \in 1..(n - 1) /\ j - 1 >= i /\ (j - 1) + 1 = j
            BY <1>4, <2>2 DEF Down
        <3> QED BY <1>8, <3>1
    <2>3. j < i \/ j > i
        BY <1>4
    <2> QED BY <2>1, <2>2, <2>3
<1>13. \A j \in 1..(n - 1) : \E k \in 1..n : k # i /\ j = Down(i, k)
    <2> SUFFICES ASSUME NEW j \in 1..(n - 1)
                 PROVE  \E k \in 1..n : k # i /\ j = Down(i, k)
        OBVIOUS
    <2>1. Up(i, j) \in 1..n /\ Up(i, j) # i /\ j = Down(i, Up(i, j))
        BY <1>4 DEF Up, Down
    <2> QED BY <2>1
<1>14. {Down(i, j) : j \in S \ {i}} = {j \in 1..(n - 1) : session[runnables'[j]] = s}
    <2>1. ASSUME NEW j \in S, j # i
          PROVE  Down(i, j) \in 1..(n - 1) /\ session[runnables'[Down(i, j)]] = s
        BY <1>6, <1>12, <2>1
    <2>2. ASSUME NEW j \in 1..(n - 1), session[runnables'[j]] = s
          PROVE  \E k \in S \ {i} : j = Down(i, k)
        <3>1. PICK k \in 1..n : k # i /\ j = Down(i, k)
            BY <1>13
        <3>2. runnables'[j] = runnables[k]
            BY <1>12, <3>1
        <3> QED BY <1>6, <2>2, <3>1, <3>2
    <2> QED BY <2>1, <2>2
<1>15. CASE session[f.task] = s
    <2>1. i \in S /\ \A j \in S : j >= i
        <3>1. s # Background
            BY SchedulerAssumption
        <3>2. \A j \in 1..(i - 1) : session[runnables[j]] # s
            BY <1>2, <1>3, <1>15, <3>1
        <3>3. i \in S
            BY <1>2, <1>4, <1>6, <1>15
        <3>4. ASSUME NEW j \in S PROVE j >= i
            <4>1. j \in 1..n /\ session[runnables[j]] = s
                BY <1>6
            <4>2. j \notin 1..(i - 1)
                BY <3>2, <4>1
            <4> QED BY <1>4, <4>1, <4>2
        <3> QED BY <3>3, <3>4
    <2>2. /\ m >= 1
          /\ \E h : Listing(h, m - 1, n, S \ {i}) /\ Shifts(h, g, m - 1)
        <3>1. Listing(g, m, n, S)
            BY <1>10
        <3> QED BY <2>1, <3>1, ListsTail, ZenonT(60)
    <2>3. PICK u : Listing(u, m - 1, n, S \ {i}) /\ Shifts(u, g, m - 1)
        BY <2>2
    <2>4. PICK l \in Nat : l = m - 1
        BY <2>2
    <2>5. Listing(u, l, n, S \ {i}) /\ i \notin S \ {i} /\ i \in 1..n
        BY <1>4, <2>3, <2>4
    <2>6. PICK h : Listing(h, l, n - 1, {Down(i, j) : j \in S \ {i}}) /\ Lowers(h, u, l, i)
        BY <2>5, ListsDown, Zenon
    <2>7. PICK o \in Seq(Tasks) : o = order'[s] /\ Len(o) = l
                                  /\ \A k \in 1..l : o[k] = order[s][k + 1]
        <3>1. PICK q \in Seq(Tasks) : q = order[s] /\ m = Len(q) /\ q # <<>>
            BY <1>1, <1>5, <2>2
        <3>2. /\ Tail(q) \in Seq(Tasks) /\ Len(Tail(q)) = Len(q) - 1
              /\ \A k \in 1..Len(Tail(q)) : Tail(q)[k] = q[k + 1]
            BY <3>1, HeadTailProperties
        <3>3. order'[s] = Tail(q)
            BY <1>9, <1>15, <3>1
        <3> QED BY <2>4, <3>1, <3>2, <3>3, Zenon
    <2>8. \A k \in 1..l : runnables'[h[k]] = o[k]
        <3> SUFFICES ASSUME NEW k \in 1..l PROVE runnables'[h[k]] = o[k]
            OBVIOUS
        <3>1. h[k] = Down(i, u[k]) /\ u[k] = g[k + 1]
            BY <2>3, <2>4, <2>6 DEF Lowers, Shifts
        <3>2. u[k] \in S \ {i}
            BY <2>5 DEF Listing, Lists
        <3>3. runnables'[h[k]] = runnables[g[k + 1]]
            BY <1>6, <1>12, <3>1, <3>2
        <3>4. k + 1 \in 1..m
            BY <2>4
        <3> QED BY <1>7, <2>7, <3>3, <3>4
    <2>9. /\ Lists(h, OfSession(s, Len(runnables))') /\ Len(runnables') = n - 1
          /\ h \in [1..l -> 1..(n - 1)]
        BY <1>8, <1>11, <1>14, <2>6, Zenon DEF Listing
    <2> QED BY <2>7, <2>8, <2>9, Zenon
<1>16. CASE session[f.task] # s
    <2>1. i \notin S /\ S \ {i} = S /\ i \in 1..n
        BY <1>2, <1>4, <1>6, <1>16
    <2>2. PICK h : Listing(h, m, n - 1, {Down(i, j) : j \in S}) /\ Lowers(h, g, m, i)
        BY <1>10, <2>1, ListsDown, Zenon
    <2>3. ASSUME NEW k \in 1..m PROVE runnables'[h[k]] = order[s][k]
        <3>1. h[k] = Down(i, g[k]) /\ g[k] \in 1..n /\ g[k] # i
            BY <1>10, <2>1, <2>2 DEF Lowers
        <3> QED BY <1>7, <1>12, <3>1
    <2>4. /\ Lists(h, OfSession(s, Len(runnables))') /\ Len(runnables') = n - 1
          /\ h \in [1..m -> 1..(n - 1)]
        BY <1>8, <1>11, <1>14, <2>1, <2>2, Zenon DEF Listing
    <2>5. order'[s] = order[s] /\ Len(order'[s]) = m
        BY <1>5, <1>9, <1>16
    <2> QED BY <2>3, <2>4, <2>5, Zenon
<1> QED BY <1>15, <1>16

LEMMA OrderStep ==
    ASSUME TypeOK, SpawnedInv, SessionMoves, QueueMoves, OrderInv
    PROVE  OrderInv' /\ order' \in [Sessions -> Seq(Tasks)]
<1>1. /\ runnables \in Seq(Tasks) /\ order \in [Sessions -> Seq(Tasks)]
      /\ \A j \in 1..Len(runnables) :
            session'[runnables[j]] = session[runnables[j]]
    BY SessionsOfQueue
<1>2. CASE UNCHANGED <<runnables, order>>
    <2>1. \A s : OfSession(s, Len(runnables))' = OfSession(s, Len(runnables))
        BY <1>1, <1>2 DEF OfSession
    <2>2. OrderInv'
        BY <1>2, <2>1 DEF OrderInv
    <2> QED BY <1>1, <1>2, <2>2
<1>3. ASSUME NEW t \in Tasks, session'[t] # None, schedule(t, session'[t])
      PROVE  OrderInv' /\ order' \in [Sessions -> Seq(Tasks)]
    BY <1>3, OrderInsert, ScheduleTypes
<1>4. ASSUME NEW b \in BOOLEAN, NEW f \in Frames, RunsTask(b, f), UNCHANGED session
      PROVE  OrderInv' /\ order' \in [Sessions -> Seq(Tasks)]
    <2>1. OrderInv'
        BY <1>4, OrderRemove
    <2>2. ASSUME NEW s \in Sessions, session[f.task] = s
          PROVE  Tail(order[s]) \in Seq(Tasks)
        <3>1. PICK i \in candidate_indices(b) : f.task = runnables[i]
            BY <1>4 DEF RunsTask
        <3>2. i \in 1..Len(runnables)
            BY CandidateUnblocked
        <3>3. i \in OfSession(s, Len(runnables))
            BY <2>2, <3>1, <3>2 DEF OfSession
        <3>4. PICK g \in [1..Len(order[s]) -> 1..Len(runnables)] :
                  Lists(g, OfSession(s, Len(runnables)))
            BY DEF OrderInv
        <3>5. order[s] \in Seq(Tasks) /\ order[s] # <<>>
            BY <1>1, <3>3, <3>4 DEF Lists
        <3> QED BY <3>5
    <2>3. order' = [s \in Sessions |->
             IF session[f.task] = s THEN Tail(order[s]) ELSE order[s]]
        BY <1>4 DEF RunsTask
    <2>4. \A s \in Sessions : order[s] \in Seq(Tasks)
        BY <1>1
    <2>5. order' \in [Sessions -> Seq(Tasks)]
        BY <2>2, <2>3, <2>4
    <2> QED BY <2>1, <2>5
<1>5. CASE runnables' = <<>> /\ order' = [s \in Sessions |-> <<>>]
    <2>1. order' \in [Sessions -> Seq(Tasks)] /\ Len(runnables') = 0
        BY <1>5
    <2>2. ASSUME NEW s \in Sessions
          PROVE  \E g \in [1..Len(order'[s]) -> 1..Len(runnables')] :
                    /\ Lists(g, OfSession(s, Len(runnables))')
                    /\ \A i \in 1..Len(order'[s]) : runnables'[g[i]] = order'[s][i]
        <3>1. Len(order'[s]) = 0 /\ OfSession(s, Len(runnables))' = {}
            BY <1>5, <2>1 DEF OfSession
        <3>2. PICK g : g = [i \in 1..0 |-> i]
            OBVIOUS
        <3>3. g \in [1..0 -> 1..0] /\ Lists(g, {})
            BY <3>2 DEF Lists
        <3>4. \A i \in 1..0 : runnables'[g[i]] = order'[s][i]
            OBVIOUS
        <3> QED BY <2>1, <3>1, <3>3, <3>4, Zenon
    <2> QED BY <2>1, <2>2 DEF OrderInv
<1> QED BY <1>2, <1>3, <1>4, <1>5, Zenon DEF QueueMoves

-----------------------------------------------------------------------------
(* What a step does to the clock and the timers.                            *)

\* The place of a new timer that expires at e.
Place(e) == Cardinality({i \in DOMAIN timers : timers[i].expiration <= e}) + 1

Sets(t, e) ==
    /\ expires[t] = None /\ expires' = [expires EXCEPT ![t] = e]
    /\ timers' = InsertAt(timers, Place(e), [id |-> t, expiration |-> e])
    /\ UNCHANGED now

TimeMoves ==
    \/ /\ \/ UNCHANGED timers
          \/ timers' = SubSeq(timers, end_ix + 1, Len(timers))
          \/ timers' = <<>>
       /\ UNCHANGED <<now, expires>>
    \/ now' \in now..MaxNow /\ UNCHANGED <<timers, expires>>
    \/ \E t \in Timers : \E e \in now..MaxNow : Sets(t, e)

LEMMA StepTime ==
    ASSUME TypeOK, NEW b \in BOOLEAN, NEW frames, step_filtered(b, frames),
           UNCHANGED <<now, expires>>
    PROVE  TimeMoves
<1>1. PICK f \in Frames : Elapses(f) \/ RunsTask(b, f)
    BY StepPushes
<1>2. CASE Elapses(f)
    BY <1>2, Zenon DEF Elapses, TimeMoves
<1>3. CASE RunsTask(b, f)
    BY <1>3, Zenon DEF RunsTask, TimeMoves
<1> QED BY <1>1, <1>2, <1>3

\* The clock after it went to the next timer, or to a later time.
LEMMA ClockAdvances ==
    ASSUME TypeOK, NEW u \in 0..MaxNow
    PROVE  /\ Max({now, u}) \in now..MaxNow /\ Max({now, u}) >= u
           /\ u >= now => Max({now, u}) = u
<1>1. now \in 0..MaxNow /\ MaxNow \in Nat
    BY SchedulerAssumption DEF TypeOK
<1>2. now \in Nat /\ u \in Nat
    BY <1>1
<1>3. PICK x : x = Max({now, u})
    OBVIOUS
<1>4. x \in {now, u} /\ x >= now /\ x >= u
    BY <1>2, <1>3, MaxOfTwo
<1>5. x \in now..MaxNow /\ x >= u /\ (u >= now => x = u)
    BY <1>1, <1>2, <1>4
<1> QED BY <1>3, <1>5

LEMMA NextTimerTime ==
    ASSUME TypeOK, advance_clock_to_next_timer
    PROVE  /\ timers # <<>> /\ timers[1].expiration \in 0..MaxNow
           /\ now' = Max({now, timers[1].expiration}) /\ now' \in now..MaxNow
<1>1. timers \in Seq([id: Timers, expiration: 0..MaxNow]) /\ timers # <<>>
    BY DEF TypeOK, advance_clock_to_next_timer
<1>2. 1 \in 1..Len(timers)
    BY <1>1
<1>3. timers[1].expiration \in 0..MaxNow
    BY <1>1, <1>2, TimerRecords
<1> QED BY <1>1, <1>3, ClockAdvances DEF advance_clock_to_next_timer

LEMMA TimeStep ==
    ASSUME TypeOK, ShapeInv, [Next]_vars
    PROVE  TimeMoves
<1>0. now \in Nat /\ MaxNow \in Nat
    <2>1. now \in 0..MaxNow
        BY DEF TypeOK
    <2> QED BY <2>1, SchedulerAssumption
<1>1. CASE UNCHANGED <<timers, now, expires>>
    BY <1>1, Zenon DEF TimeMoves
<1>2. CASE UNCHANGED vars \/ end_test
    BY <1>1, <1>2, Zenon DEF vars, end_test, sched, history
<1>3. CASE IoCompletes \/ TaskReturns
    BY <1>1, <1>3, Zenon DEF IoCompletes, TaskReturns, YieldNow, Await, Finish, history
<1>4. CASE UserCall
    <2>1. ASSUME NEW s, Spawn(s) PROVE UNCHANGED <<timers, now, expires>>
        BY <2>1 DEF Spawn
    <2>2. ASSUME NEW d \in Durations, timer(d) PROVE TimeMoves
        <3>1. PICK t \in Timers :
                  /\ expires[t] = None /\ expires' = [expires EXCEPT ![t] = now + d]
                  /\ timers' = InsertAt(timers, Place(now + d),
                                        [id |-> t, expiration |-> now + d])
            BY <2>2 DEF timer, Place
        <3>2. now + d <= MaxNow /\ UNCHANGED now
            BY <2>2 DEF timer
        <3>3. d \in Nat
            BY SchedulerAssumption
        <3>4. now + d \in now..MaxNow
            BY <1>0, <3>2, <3>3
        <3>5. Sets(t, now + d)
            BY <3>1, <3>2, Zenon DEF Sets
        <3> QED BY <3>4, <3>5, Zenon DEF TimeMoves
    <2>3. ASSUME NEW s, NEW e, NEW b, block(s, e, b)
          PROVE  UNCHANGED <<timers, now, expires>>
        BY <2>3 DEF block
    <2>4. ASSUME NEW b \in BOOLEAN, tick(b) PROVE TimeMoves
        BY <2>4, StepTime DEF tick, UntouchedByStep
    <2>5. ASSUME NEW b, SetParking(b) PROVE UNCHANGED <<timers, now, expires>>
        BY <2>5 DEF SetParking
    <2>6. ASSUME NEW f, Start(f) PROVE UNCHANGED <<timers, now, expires>>
        BY <2>6 DEF Start, sched
    <2>7. (StartRun \/ StartDrain \/ \E d \in Durations : StartAdvance(d))
              => \E f : Start(f)
        BY Zenon DEF StartRun, StartDrain, StartAdvance
    <2> QED BY <1>1, <1>4, <2>1, <2>2, <2>3, <2>4, <2>5, <2>6, <2>7, Zenon DEF UserCall
<1>5. CASE SchedulerStep
    <2>1. CASE DropElapsed \/ DrainDrop \/ BlockPoll \/ ParkDeadline
        BY <1>1, <2>1, Zenon DEF DropElapsed, DrainDrop, BlockPoll, ParkDeadline, history
    <2>2. CASE BlockStepIdle \/ BlockCoinDown \/ BlockSwap
        BY <1>1, <2>2, Zenon DEF BlockStepIdle, BlockCoinDown, BlockSwap, sched, history
    <2>3. CASE LoopStep
        BY <2>3, StepTime DEF LoopStep, step, UntouchedByStep
    <2>4. CASE BlockStep
        BY <2>4, StepTime DEF BlockStep, step, UntouchedByStep
    <2>5. CASE DrainTake
        BY <2>5, Zenon DEF DrainTake, TimeMoves
    <2>6. CASE LoopIdle
        <3>1. UNCHANGED <<timers, expires>>
            BY <2>6 DEF LoopIdle, history
        <3>2. CASE UNCHANGED now
            BY <1>1, <3>1, <3>2
        <3>3. CASE advance_clock_to_next_timer
            BY <3>1, <3>3, NextTimerTime, Zenon DEF TimeMoves
        <3>4. CASE Top.kind = "advance_clock" /\ now' = Max({now, Top.until})
            <4>1. Top.until \in 0..MaxNow
                BY <3>4, TopFrame, FrameFields DEF ShapeInv
            <4>2. now' \in now..MaxNow
                BY <3>4, <4>1, ClockAdvances
            <4> QED BY <3>1, <4>2, Zenon DEF TimeMoves
        <3> QED BY <2>6, <3>2, <3>3, <3>4, Zenon DEF LoopIdle
    <2>7. CASE BlockIdle
        <3>1. UNCHANGED <<timers, expires>>
            BY <2>7 DEF BlockIdle, history
        <3>2. CASE UNCHANGED now
            BY <1>1, <3>1, <3>2
        <3>3. CASE advance_clock_to_next_timer
            BY <3>1, <3>3, NextTimerTime, Zenon DEF TimeMoves
        <3> QED BY <2>7, <3>2, <3>3, Zenon DEF BlockIdle
    <2>8. CASE Park
        <3>1. UNCHANGED <<timers, expires>> /\ now' \in now..MaxNow
            BY <2>8 DEF Park, history
        <3> QED BY <3>1, Zenon DEF TimeMoves
    <2> QED BY <1>5, <2>1, <2>2, <2>3, <2>4, <2>5, <2>6, <2>7, <2>8, Zenon
            DEF SchedulerStep
<1> QED BY <1>2, <1>3, <1>4, <1>5, Zenon DEF Next, Terminated

\* The place of a new timer is one of the queue's.
LEMMA PlaceInQueue ==
    ASSUME TypeOK, NEW e
    PROVE  Place(e) \in 1..(Len(timers) + 1)
<1>0. timers \in Seq([id: Timers, expiration: 0..MaxNow])
    BY DEF TypeOK
<1>1. PICK n \in Nat : n = Len(timers) /\ DOMAIN timers = 1..n
    BY <1>0
<1>2. PICK E : E = {i \in DOMAIN timers : timers[i].expiration <= e}
    OBVIOUS
<1>3. E \subseteq 1..n
    BY <1>1, <1>2
<1>4. 1..n \in SUBSET Nat /\ IsFiniteSet(1..n) /\ Cardinality(1..n) = n
    <2>1. 1 \in Int /\ n \in Int
        OBVIOUS
    <2>2. /\ IsFiniteSet(1..n)
          /\ Cardinality(1..n) = IF 1 > n THEN 0 ELSE n - 1 + 1
        BY <2>1, FS_Interval
    <2> QED BY <2>2
<1>5. Cardinality(E) \in Nat /\ Cardinality(E) <= n
    <2>1. IsFiniteSet(E) /\ Cardinality(E) <= Cardinality(1..n)
        BY <1>3, <1>4, FS_Subset
    <2>2. Cardinality(E) \in Nat
        BY <2>1, FS_CardinalityType
    <2> QED BY <1>4, <2>1, <2>2
<1>6. Place(e) = Cardinality(E) + 1
    BY <1>2 DEF Place
<1> QED BY <1>1, <1>5, <1>6

LEMMA TimeTypes ==
    ASSUME TypeOK, TimeMoves
    PROVE  /\ timers' \in Seq([id: Timers, expiration: 0..MaxNow])
           /\ now' \in 0..MaxNow
           /\ expires' \in [Timers -> (0..MaxNow) \union {None}]
<1> DEFINE R == [id: Timers, expiration: 0..MaxNow]
<1>1. timers \in Seq(R) /\ now \in 0..MaxNow
    BY DEF TypeOK
<1>2. expires \in [Timers -> (0..MaxNow) \union {None}]
    BY DEF TypeOK
<1>3. \A e \in now..MaxNow : e \in 0..MaxNow
    BY <1>1, SchedulerAssumption
<1>4. \A t \in Timers : \A e \in 0..MaxNow : [id |-> t, expiration |-> e] \in R
    OBVIOUS
<1> HIDE DEF R
<1>5. SubSeq(timers, end_ix + 1, Len(timers)) \in Seq(R)
    <2>1. end_ix \in 0..Len(timers)
        BY ExpiredPrefix
    <2>2. PICK k \in Nat : k = end_ix + 1 /\ k >= 1
        BY <1>1, <2>1
    <2>3. SubSeq(timers, k, Len(timers)) \in Seq(R)
        BY <1>1, <2>2
    <2> QED BY <2>2, <2>3
<1>6. CASE UNCHANGED <<now, expires>>
           /\ (UNCHANGED timers \/ timers' = SubSeq(timers, end_ix + 1, Len(timers))
                 \/ timers' = <<>>)
    <2>0. <<>> \in Seq(R)
        OBVIOUS
    <2>1. timers' \in Seq(R)
        BY <1>1, <1>5, <1>6, <2>0, Zenon
    <2> QED BY <1>1, <1>2, <1>6, <2>1 DEF R
<1>7. CASE now' \in now..MaxNow /\ UNCHANGED <<timers, expires>>
    BY <1>1, <1>2, <1>3, <1>7 DEF R
<1>8. ASSUME NEW t \in Timers, NEW e \in now..MaxNow, Sets(t, e)
      PROVE  /\ timers' \in Seq(R)
             /\ now' \in 0..MaxNow
             /\ expires' \in [Timers -> (0..MaxNow) \union {None}]
    <2>1. PICK r \in R : r = [id |-> t, expiration |-> e]
        BY <1>3, <1>4
    <2>2. timers' = InsertAt(timers, Place(e), r) /\ Place(e) \in 1..(Len(timers) + 1)
        BY <1>8, <2>1, PlaceInQueue DEF Sets
    <2>3. timers' \in Seq(R)
        BY <1>1, <2>2, InsertAtProperties
    <2>4. now' \in 0..MaxNow
        BY <1>1, <1>8 DEF Sets
    <2>5. expires' \in [Timers -> (0..MaxNow) \union {None}]
        BY <1>2, <1>3, <1>8 DEF Sets
    <2> QED BY <2>3, <2>4, <2>5
<1>9. timers' \in Seq(R)
    BY <1>6, <1>7, <1>8, Zenon DEF TimeMoves, R
<1> QED BY <1>6, <1>7, <1>8, <1>9, Zenon DEF TimeMoves, R

-----------------------------------------------------------------------------
(* The steps that complete an event.                                        *)

\* frames has the blocks of the stack.
KeepsBlocks(frames) ==
    /\ \A n \in 1..Len(frames) : frames[n].kind = "block" =>
          n \in 1..Len(stack) /\ frames[n] = stack[n]
    /\ \A n \in 1..Len(stack) : stack[n].kind = "block" =>
          n \in 1..Len(frames) /\ frames[n] = stack[n]

Completes(e) ==
    \E frames \in Seq(Frames) : complete(e, frames) /\ KeepsBlocks(frames)

LEMMA KeptBlocks ==
    ASSUME TypeOK, ShapeInv, Top.kind # "block"
    PROVE  /\ KeepsBlocks(Callers) /\ Callers \in Seq(Frames)
           /\ \A f \in Frames : f.kind # "block" =>
                 KeepsBlocks(WithTop(f)) /\ WithTop(f) \in Seq(Frames)
<1>1. /\ Len(stack) \in Nat /\ Len(stack) >= 1 /\ Top = stack[Len(stack)]
      /\ Callers \in Seq(Frames) /\ Len(Callers) = Len(stack) - 1
      /\ \A i \in 1..(Len(stack) - 1) : Callers[i] = stack[i]
    BY TopFrame DEF ShapeInv
<1>2. \A n \in 1..Len(stack) : stack[n].kind = "block" => n \in 1..(Len(stack) - 1)
    BY <1>1
<1>3. KeepsBlocks(Callers)
    BY <1>1, <1>2 DEF KeepsBlocks
<1>4. ASSUME NEW f \in Frames, f.kind # "block"
      PROVE  KeepsBlocks(WithTop(f)) /\ WithTop(f) \in Seq(Frames)
    <2>1. PICK w \in Seq(Frames) :
              /\ w = WithTop(f) /\ Len(w) = Len(stack) /\ w[Len(stack)] = f
              /\ \A i \in 1..(Len(stack) - 1) : w[i] = stack[i]
        BY <1>1, TopReplaced, Zenon DEF ShapeInv
    <2>2. \A n \in 1..Len(w) : w[n].kind = "block" => n \in 1..(Len(stack) - 1)
        BY <1>1, <1>4, <2>1
    <2>3. \A n \in 1..(Len(stack) - 1) : n \in 1..Len(stack)
        BY <1>1
    <2>4. KeepsBlocks(w)
        BY <1>2, <2>1, <2>2, <2>3 DEF KeepsBlocks
    <2> QED BY <2>1, <2>4
<1> QED BY <1>1, <1>3, <1>4

LEMMA FinishCompletes ==
    ASSUME TypeOK, ShapeInv, Finish
    PROVE  Top.task \in Tasks /\ Completes(Top.task)
<1>1. Top.kind = "task" /\ complete(Top.task, Callers)
    BY DEF Finish
<1>2. Top.task \in Tasks
    BY <1>1, TopFrame, FrameFields DEF ShapeInv
<1>3. Top.kind # "block"
    BY <1>1
<1> QED BY <1>1, <1>2, <1>3, KeptBlocks DEF Completes

LEMMA IoCompletesIo ==
    ASSUME TypeOK, ShapeInv, IoCompletes
    PROVE  Completes(Io) /\ complete(Io, stack)
<1>1. complete(Io, stack) /\ stack \in Seq(Frames)
    BY DEF IoCompletes, TypeOK
<1>2. KeepsBlocks(stack)
    BY DEF KeepsBlocks
<1> QED BY <1>1, <1>2 DEF Completes

LEMMA ElapsedCompletes ==
    ASSUME TypeOK, ShapeInv, DropElapsed
    PROVE  Head(Top.elapsed) \in Timers /\ Completes(Head(Top.elapsed))
<1>1. /\ stack # <<>> /\ Top \in Frames
    BY TopFrame DEF ShapeInv
<1>2. Top.kind = "elapse" /\ Top.kind # "block" /\ Head(Top.elapsed) \in Timers
    BY DropElapsedMoves DEF DropElapsed
<1>3. PICK l : l = Tail(Top.elapsed)
    OBVIOUS
<1>4. complete(Head(Top.elapsed),
         IF l = <<>> THEN Callers ELSE WithTop([Top EXCEPT !.elapsed = l]))
    BY <1>3 DEF DropElapsed
<1>5. CASE l = <<>>
    BY <1>2, <1>4, <1>5, KeptBlocks DEF Completes
<1>6. CASE l # <<>>
    <2>1. Top \in [kind: {"elapse"}, elapsed: Seq(Timers) \ {<<>>}]
        BY <1>1, <1>2 DEF Frames, BlockFrames
    <2>2. Top.elapsed \in Seq(Timers) /\ Top.elapsed # <<>>
        BY <2>1
    <2>3. l \in Seq(Timers)
        BY <1>3, <2>2, HeadTailProperties
    <2>4. PICK f : f = [Top EXCEPT !.elapsed = l]
        OBVIOUS
    <2>5. /\ f \in [kind: {"elapse"}, elapsed: Seq(Timers) \ {<<>>}]
          /\ f.kind # "block"
        BY <1>6, <2>1, <2>3, <2>4
    <2>6. f \in Frames
        BY <2>5, Zenon DEF Frames
    <2>7. complete(Head(Top.elapsed), WithTop(f))
        BY <1>4, <1>6, <2>4, Zenon
    <2> QED BY <1>2, <2>5, <2>6, <2>7, KeptBlocks, Zenon DEF Completes
<1> QED BY <1>2, <1>5, <1>6

LEMMA DrainCompletes ==
    ASSUME TypeOK, ShapeInv, DrainDrop
    PROVE  \E e \in Events : Completes(e)
<1>1. PICK e \in Events, f \in Frames :
          f.kind = "drain_tasks" /\ complete(e, WithTop(f))
    BY DrainDropMoves
<1>2. Top.kind # "block" /\ f.kind # "block"
    BY <1>1 DEF DrainDrop
<1> QED BY <1>1, <1>2, KeptBlocks DEF Completes

-----------------------------------------------------------------------------
(* Types.                                                                   *)

Flags ==
    /\ allow_parking \in BOOLEAN /\ parking_allowed_once \in BOOLEAN
    /\ non_determinism_error \in BOOLEAN /\ unparked \in BOOLEAN

Rest ==
    /\ waiting \in [Tasks -> (Events \union {None})]
    /\ done \subseteq Events
    /\ outcome \in {"running", "finished", "parking forbidden", "timed out parking",
                    "not deterministic"}
    /\ ops \in 0..MaxOps

LEMMA RestUnchanged ==
    ASSUME TypeOK, UNCHANGED <<waiting, done, outcome>>,
           ops' = ops \/ (ops < MaxOps /\ ops' = ops + 1)
    PROVE  Rest'
<1>1. ops \in 0..MaxOps /\ MaxOps \in Nat
    BY SchedulerAssumption DEF TypeOK
<1>2. ops' \in 0..MaxOps
    BY <1>1
<1>3. Rest
    BY DEF TypeOK, Rest
<1> QED BY <1>2, <1>3 DEF Rest

LEMMA RestCompletes ==
    ASSUME TypeOK, NEW e \in Events, Completes(e), UNCHANGED <<outcome, ops>>
    PROVE  Rest' /\ unparked' \in BOOLEAN
<1>1. PICK frames \in Seq(Frames) : complete(e, frames)
    BY DEF Completes
<1>2. /\ unparked' \in BOOLEAN
      /\ waiting' \in [Tasks -> (Events \union {None})]
      /\ done' = done \union {e}
    BY <1>1, CompleteStack
<1>3. Rest
    BY DEF TypeOK, Rest
<1> QED BY <1>2, <1>3, Zenon DEF Rest

LEMMA UserCallRest ==
    ASSUME TypeOK, UserCall
    PROVE  Rest' /\ Flags'
<1>0. Flags
    BY DEF TypeOK, Flags
<1>1. ASSUME NEW s, Spawn(s) PROVE Rest' /\ Flags'
    <2>1. Rest'
        BY <1>1, RestUnchanged DEF Spawn
    <2>2. unparked' \in BOOLEAN /\ UNCHANGED parking
        BY <1>1, Zenon DEF Spawn, schedule
    <2> QED BY <1>0, <2>1, <2>2, Zenon DEF Flags, parking
<1>2. ASSUME NEW d, timer(d) PROVE Rest' /\ Flags'
    <2>1. Rest'
        BY <1>2, RestUnchanged DEF timer, Call, tasks
    <2> QED BY <1>0, <1>2, <2>1, Zenon DEF timer, Flags, parking
<1>3. ASSUME NEW s, NEW e, NEW b, block(s, e, b) PROVE Rest' /\ Flags'
    <2>1. Rest'
        BY <1>3, RestUnchanged DEF block, Call, tasks
    <2> QED BY <1>0, <1>3, <2>1, Zenon DEF block, Flags, parking
<1>4. ASSUME NEW b, tick(b) PROVE Rest' /\ Flags'
    <2>1. Rest'
        BY <1>4, RestUnchanged DEF tick, Call, UntouchedByStep, tasks
    <2> QED BY <1>0, <1>4, <2>1, Zenon DEF tick, UntouchedByStep, Flags, parking
<1>5. ASSUME NEW b \in BOOLEAN, SetParking(b) PROVE Rest' /\ Flags'
    <2>1. Rest'
        BY <1>5, RestUnchanged DEF SetParking, Call, tasks
    <2>2. allow_parking' \in BOOLEAN /\ parking_allowed_once' \in BOOLEAN
        BY <1>5, Zenon DEF SetParking
    <2>3. UNCHANGED <<non_determinism_error, unparked>>
        BY <1>5 DEF SetParking
    <2> QED BY <1>0, <2>1, <2>2, <2>3, Zenon DEF Flags
<1>6. ASSUME NEW f, Start(f) PROVE Rest' /\ Flags'
    <2>1. Rest'
        BY <1>6, RestUnchanged DEF Start, Call, tasks
    <2> QED BY <1>0, <1>6, <2>1, Zenon DEF Start, Flags, sched, parking
<1>7. (StartRun \/ StartDrain \/ \E d \in Durations : StartAdvance(d))
          => \E f : Start(f)
    BY Zenon DEF StartRun, StartDrain, StartAdvance
<1> QED BY <1>1, <1>2, <1>3, <1>4, <1>5, <1>6, <1>7, Zenon DEF UserCall

LEMMA TaskReturnsRest ==
    ASSUME TypeOK, ShapeInv, TaskReturns
    PROVE  Rest' /\ Flags'
<1>0. Flags
    BY DEF TypeOK, Flags
<1>1. CASE YieldNow
    <2>1. Rest'
        BY <1>1, RestUnchanged DEF YieldNow, Call, tasks
    <2>2. unparked' \in BOOLEAN /\ UNCHANGED parking
        BY <1>1, Zenon DEF YieldNow, schedule
    <2> QED BY <1>0, <2>1, <2>2, Zenon DEF Flags, parking
<1>2. ASSUME NEW e \in Events, Await(e) PROVE Rest' /\ Flags'
    <2>1. Top.kind = "task" /\ waiting' = [waiting EXCEPT ![Top.task] = e]
        BY <1>2 DEF Await
    <2>2. UNCHANGED <<done, outcome, ops, unparked, parking>>
        BY <1>2 DEF Await, history
    <2>3. waiting \in [Tasks -> (Events \union {None})] /\ Rest
        BY DEF TypeOK, Rest
    <2>4. waiting' \in [Tasks -> (Events \union {None})]
        BY <2>1, <2>3
    <2>5. Rest'
        BY <2>2, <2>3, <2>4, Zenon DEF Rest
    <2> QED BY <1>0, <2>2, <2>5, Zenon DEF Flags, parking
<1>3. CASE Finish
    <2>1. Top.task \in Events /\ Completes(Top.task)
        BY <1>3, FinishCompletes DEF Events
    <2>2. UNCHANGED <<outcome, ops, parking>>
        BY <1>3 DEF Finish
    <2>3. Rest' /\ unparked' \in BOOLEAN
        BY <2>1, <2>2, RestCompletes
    <2> QED BY <1>0, <2>2, <2>3, Zenon DEF Flags, parking
<1> QED BY <1>1, <1>2, <1>3, Zenon DEF TaskReturns

LEMMA SchedulerRest ==
    ASSUME TypeOK, ShapeInv, SchedulerStep
    PROVE  Rest' /\ Flags'
<1>0. Flags /\ Rest
    BY DEF TypeOK, Flags, Rest
<1>1. CASE DropElapsed
    <2>1. Head(Top.elapsed) \in Events /\ Completes(Head(Top.elapsed))
        BY <1>1, ElapsedCompletes DEF Events
    <2>2. UNCHANGED <<outcome, ops, parking>>
        BY <1>1 DEF DropElapsed
    <2>3. Rest' /\ unparked' \in BOOLEAN
        BY <2>1, <2>2, RestCompletes
    <2> QED BY <1>0, <2>2, <2>3, Zenon DEF Flags, parking
<1>2. CASE DrainDrop
    <2>1. UNCHANGED <<outcome, ops, parking>>
        BY <1>2 DEF DrainDrop
    <2>2. Rest' /\ unparked' \in BOOLEAN
        BY <1>2, <2>1, DrainCompletes, RestCompletes
    <2> QED BY <1>0, <2>1, <2>2, Zenon DEF Flags, parking
<1>3. CASE LoopStep \/ BlockStep
    <2>1. UNCHANGED <<waiting, done, outcome, ops, unparked, parking>>
        BY <1>3, Zenon DEF LoopStep, BlockStep, UntouchedByStep, tasks
    <2> QED BY <1>0, <2>1, Zenon DEF Flags, Rest, parking
<1>4. CASE DrainTake \/ LoopIdle \/ BlockPoll
    <2>1. UNCHANGED <<waiting, done, outcome, ops, unparked, parking>>
        BY <1>4, Zenon DEF DrainTake, LoopIdle, BlockPoll, tasks, history
    <2> QED BY <1>0, <2>1, Zenon DEF Flags, Rest, parking
<1>5. CASE BlockStepIdle \/ BlockCoinDown \/ BlockSwap
    <2>1. UNCHANGED <<waiting, done, outcome, ops, unparked, parking>>
        BY <1>5, Zenon DEF BlockStepIdle, BlockCoinDown, BlockSwap, sched, tasks, history
    <2> QED BY <1>0, <2>1, Zenon DEF Flags, Rest, parking
<1>6. CASE BlockIdle
    <2>1. UNCHANGED <<waiting, done, ops, unparked, parking>>
        BY <1>6 DEF BlockIdle, tasks, history
    <2>2. outcome' = outcome \/ outcome' = "parking forbidden"
        BY <1>6, Zenon DEF BlockIdle
    <2>3. Rest'
        BY <1>0, <2>1, <2>2 DEF Rest
    <2> QED BY <1>0, <2>1, <2>3, Zenon DEF Flags, parking
<1>7. CASE Park
    <2>1. UNCHANGED <<waiting, done, outcome, ops, parking>>
        BY <1>7 DEF Park, tasks, history
    <2>2. unparked' \in BOOLEAN
        BY <1>7, Zenon DEF Park
    <2> QED BY <1>0, <2>1, <2>2, Zenon DEF Flags, Rest, parking
<1>8. CASE ParkDeadline
    <2>1. UNCHANGED <<waiting, done, ops, unparked, parking>>
        BY <1>8 DEF ParkDeadline, tasks, history
    <2>2. outcome' = outcome \/ outcome' = "timed out parking"
        BY <1>8, Zenon DEF ParkDeadline
    <2>3. Rest'
        BY <1>0, <2>1, <2>2 DEF Rest
    <2> QED BY <1>0, <2>1, <2>3, Zenon DEF Flags, parking
<1> QED BY <1>1, <1>2, <1>3, <1>4, <1>5, <1>6, <1>7, <1>8, Zenon DEF SchedulerStep

LEMMA RestStep ==
    ASSUME TypeOK, ShapeInv, [Next]_vars
    PROVE  Rest' /\ Flags'
<1>0. Flags /\ Rest
    BY DEF TypeOK, Flags, Rest
<1>1. CASE UNCHANGED vars
    BY <1>0, <1>1, Zenon DEF vars, sched, tasks, history, parking, Flags, Rest
<1>2. CASE end_test
    <2>1. UNCHANGED <<waiting, done, ops, unparked, parking>>
        BY <1>2 DEF end_test, sched, tasks, history
    <2>2. outcome' = "not deterministic" \/ outcome' = "finished"
        BY <1>2, Zenon DEF end_test
    <2>3. Rest'
        BY <1>0, <2>1, <2>2 DEF Rest
    <2> QED BY <1>0, <2>1, <2>3, Zenon DEF Flags, parking
<1>3. CASE IoCompletes
    <2>1. Io \in Events /\ Completes(Io)
        BY <1>3, IoCompletesIo DEF Events
    <2>2. UNCHANGED <<outcome, ops, allow_parking, parking_allowed_once>>
        BY <1>3 DEF IoCompletes
    <2>3. Rest' /\ unparked' \in BOOLEAN
        BY <2>1, <2>2, RestCompletes
    <2>4. non_determinism_error' \in BOOLEAN
        BY <1>3, Zenon DEF IoCompletes
    <2> QED BY <1>0, <2>2, <2>3, <2>4, Zenon DEF Flags
<1>4. CASE UserCall
    BY <1>4, UserCallRest
<1>5. CASE TaskReturns
    BY <1>5, TaskReturnsRest
<1>6. CASE SchedulerStep
    BY <1>6, SchedulerRest
<1> QED BY <1>1, <1>2, <1>3, <1>4, <1>5, <1>6, Zenon DEF Next, Terminated

-----------------------------------------------------------------------------
(* The blocked sessions are those of the blocks on the stack.               *)

Agrees(h, g, m) == \A k \in 1..m : h[k] = g[k]

\* The largest number is the last one listed.
LEMMA ListsFront ==
    ASSUME NEW m \in Nat, NEW n \in Nat, NEW S, NEW g, Listing(g, m, n, S)
    PROVE  /\ n \in S => /\ m >= 1
                         /\ \E h : Listing(h, m - 1, n - 1, S \ {n}) /\ Agrees(h, g, m - 1)
           /\ n \notin S => Listing(g, m, n - 1, S)
<1>0. g \in [1..m -> 1..n] /\ S \subseteq 1..n /\ Lists(g, S)
    BY DEF Listing
<1>1. DOMAIN g = 1..m /\ \A k \in 1..m : g[k] \in S /\ g[k] \in 1..n
    BY <1>0 DEF Lists
<1>2. ASSUME n \notin S PROVE Listing(g, m, n - 1, S)
    <2>1. \A x \in S : x \in 1..(n - 1)
        BY <1>0, <1>2
    <2>2. g \in [1..m -> 1..(n - 1)]
        BY <1>0, <1>1, <2>1
    <2> QED BY <1>0, <2>1, <2>2 DEF Listing
<1>3. ASSUME n \in S
      PROVE  m >= 1 /\ \E h : Listing(h, m - 1, n - 1, S \ {n}) /\ Agrees(h, g, m - 1)
    <2>1. PICK a \in 1..m : g[a] = n
        BY <1>0, <1>1, <1>3 DEF Lists
    <2>2. m >= 1 /\ m \in 1..m
        BY <2>1
    <2>3. a = m
        <3> SUFFICES ASSUME a < m PROVE FALSE
            BY <2>1, <2>2
        <3>1. g[a] < g[m] /\ g[m] \in 1..n
            BY <1>0, <1>1, <2>2 DEF Lists
        <3> QED BY <2>1, <3>1
    <2>4. \A k \in 1..(m - 1) : k \in 1..m /\ k < m
        BY <2>2
    <2>5. PICK h : h = [k \in 1..(m - 1) |-> g[k]]
        OBVIOUS
    <2>6. DOMAIN h = 1..(m - 1) /\ \A k \in 1..(m - 1) : h[k] = g[k]
        BY <2>5
    <2>7. \A k \in 1..(m - 1) : h[k] \in S \ {n}
        <3> SUFFICES ASSUME NEW k \in 1..(m - 1) PROVE g[k] \in S /\ g[k] # n
            BY <2>6
        <3>1. k \in 1..m /\ k < m
            BY <2>4
        <3>2. g[k] < g[m] /\ g[k] \in S /\ g[k] \in 1..n
            BY <1>0, <1>1, <2>2, <3>1 DEF Lists
        <3> QED BY <2>1, <2>3, <3>2
    <2>8. S \ {n} \subseteq 1..(n - 1)
        BY <1>0
    <2>9. h \in [1..(m - 1) -> 1..(n - 1)]
        BY <2>5, <2>6, <2>7, <2>8
    <2>10. \A b, c \in 1..(m - 1) : b < c => h[b] < h[c]
        BY <1>0, <1>1, <2>4, <2>6 DEF Lists
    <2>11. ASSUME NEW x \in S \ {n} PROVE \E k \in 1..(m - 1) : h[k] = x
        <3>1. PICK c \in 1..m : g[c] = x
            BY <1>0, <1>1 DEF Lists
        <3>2. c # m
            BY <2>1, <2>3, <3>1
        <3>3. c \in 1..(m - 1)
            BY <3>2
        <3> QED BY <2>6, <3>1, <3>3
    <2>12. Lists(h, S \ {n})
        BY <2>6, <2>7, <2>10, <2>11 DEF Lists
    <2>13. Listing(h, m - 1, n - 1, S \ {n}) /\ Agrees(h, g, m - 1)
        BY <2>6, <2>8, <2>9, <2>12 DEF Listing, Agrees
    <2> QED BY <2>2, <2>13
<1> QED BY <1>2, <1>3

\* BlockedInv, said of a listing.
LEMMA BlockedListing ==
    ASSUME TypeOK, BlockedInv, NEW m \in Nat, NEW n \in Nat,
           m = Len(blocked_sessions), n = Len(stack)
    PROVE  \E g : /\ Listing(g, m, n, Blocks)
                  /\ \A i \in 1..m : stack[g[i]].session = blocked_sessions[i]
<1>1. PICK g \in [1..m -> 1..n] :
          Lists(g, Blocks) /\ \A i \in 1..m : stack[g[i]].session = blocked_sessions[i]
    BY DEF BlockedInv
<1>2. Blocks \subseteq 1..n
    BY DEF Blocks
<1> QED BY <1>1, <1>2 DEF Listing

LEMMA BlockedStep ==
    ASSUME TypeOK, ShapeInv, BlockedInv, Moves
    PROVE  BlockedInv' /\ blocked_sessions' \in Seq(Sessions)
<1>1. blocked_sessions \in Seq(Sessions) /\ stack \in Seq(Frames)
    BY DEF TypeOK
<1>2. PICK m \in Nat, n \in Nat :
          m = Len(blocked_sessions) /\ n = Len(stack) /\ n >= 1
    BY <1>1, KindsAfter
<1>3. PICK g : /\ Listing(g, m, n, Blocks)
               /\ \A i \in 1..m : stack[g[i]].session = blocked_sessions[i]
    BY <1>2, BlockedListing
<1>4. PICK B : B = Blocks
    OBVIOUS
<1>5. /\ Listing(g, m, n, B) /\ B = {j \in 1..n : stack[j].kind = "block"}
      /\ \A i \in 1..m : g[i] \in B /\ g[i] \in 1..n /\ stack[g[i]].kind = "block"
    BY <1>2, <1>3, <1>4 DEF Blocks, Listing, Lists
<1>6. ASSUME NEW h, NEW l \in Nat, NEW p \in Nat, l = Len(blocked_sessions'),
             p = Len(stack'), Listing(h, l, p, Blocks'),
             \A i \in 1..l : stack'[h[i]].session = blocked_sessions'[i]
      PROVE  BlockedInv'
    <2>1. h \in [1..l -> 1..p] /\ Lists(h, Blocks')
        BY <1>6 DEF Listing
    <2> QED BY <1>6, <2>1 DEF BlockedInv
<1>7. \A j \in 1..n : j \in 1..Len(stack') =>
          /\ stack'[j].kind = stack[j].kind
          /\ stack[j].kind = "block" => stack'[j].session = stack[j].session
    BY <1>2, KindsAfter DEF Same
<1>8. ASSUME UNCHANGED blocked_sessions, NEW p \in Nat, p = Len(stack'), p >= n,
             \A j \in (n + 1)..p : stack'[j].kind # "block"
      PROVE  BlockedInv'
    <2>1. Blocks' = B
        <3>1. Blocks' = {j \in 1..p : stack'[j].kind = "block"}
            BY <1>8 DEF Blocks
        <3>2. \A j \in 1..p : j \in 1..n \/ j \in (n + 1)..p
            OBVIOUS
        <3>3. \A j \in 1..n : j \in 1..p
            BY <1>8
        <3> QED BY <1>5, <1>7, <1>8, <3>1, <3>2, <3>3
    <2>2. \A x \in 1..n : x \in 1..p
        BY <1>8
    <2>3. Listing(g, m, p, B)
        BY <1>5, <2>2 DEF Listing
    <2>4. \A i \in 1..m : stack'[g[i]].session = blocked_sessions'[i]
        BY <1>3, <1>5, <1>7, <1>8, <2>2
    <2> QED BY <1>2, <1>6, <1>8, <2>1, <2>3, <2>4
<1>9. CASE GoesOn
    <2>1. UNCHANGED blocked_sessions /\ Len(stack') = n
        BY <1>2, <1>9 DEF GoesOn
    <2>2. BlockedInv'
        BY <1>8, <2>1
    <2> QED BY <1>1, <2>1, <2>2
<1>10. ASSUME NEW f \in Frames, Calls(f)
       PROVE  BlockedInv' /\ blocked_sessions' \in Seq(Sessions)
    <2>1. Len(stack') = n + 1 /\ stack'[n + 1] = f /\ Called(f)
        BY <1>2, <1>10 DEF Calls
    <2>2. CASE f.kind # "block"
        <3>1. UNCHANGED blocked_sessions
            BY <2>1, <2>2, Zenon DEF Called
        <3>2. \A j \in (n + 1)..(n + 1) : stack'[j].kind # "block"
            BY <2>1, <2>2
        <3>3. n + 1 \in Nat /\ n + 1 >= n
            OBVIOUS
        <3>4. BlockedInv'
            BY <1>8, <2>1, <3>1, <3>2, <3>3
        <3> QED BY <1>1, <3>1, <3>4
    <2>3. CASE f.kind = "block"
        <3>1. /\ f.session \in Sessions
              /\ blocked_sessions' = Append(blocked_sessions, f.session)
            BY <2>1, <2>3 DEF Called, Loops
        <3>2. /\ blocked_sessions' \in Seq(Sessions) /\ Len(blocked_sessions') = m + 1
              /\ blocked_sessions'[m + 1] = f.session
              /\ \A i \in 1..m : blocked_sessions'[i] = blocked_sessions[i]
            BY <1>1, <1>2, <3>1
        <3>3. Blocks' = B \union {n + 1}
            <4>1. Blocks' = {j \in 1..(n + 1) : stack'[j].kind = "block"}
                BY <2>1 DEF Blocks
            <4>2. \A j \in 1..(n + 1) : j \in 1..n \/ j = n + 1
                OBVIOUS
            <4>3. n + 1 \in 1..(n + 1) /\ \A j \in 1..n : j \in 1..(n + 1)
                OBVIOUS
            <4> QED BY <1>5, <1>7, <2>1, <2>3, <4>1, <4>2, <4>3
        <3>4. n + 1 \in 1..(n + 1) /\ \A j \in B : j < n + 1
            BY <1>5
        <3>5. Listing(g, m, n, B)
            BY <1>5
        <3>6. PICK h : Listing(h, m + 1, n + 1, B \union {n + 1}) /\ Appends(h, g, m, n + 1)
            BY <3>4, <3>5, ListsAppend, Zenon
        <3>7. h[m + 1] = n + 1 /\ \A i \in 1..m : h[i] = g[i]
            BY <3>6 DEF Appends
        <3>8. ASSUME NEW i \in 1..(m + 1)
              PROVE  stack'[h[i]].session = blocked_sessions'[i]
            <4>1. CASE i = m + 1
                BY <2>1, <3>2, <3>7, <4>1
            <4>2. CASE i \in 1..m
                <5>1. g[i] \in 1..n /\ g[i] \in 1..(n + 1) /\ stack[g[i]].kind = "block"
                    BY <1>5, <4>2
                <5>2. stack'[g[i]].session = stack[g[i]].session
                    BY <1>7, <2>1, <5>1
                <5> QED BY <1>3, <3>2, <3>7, <4>2, <5>2
            <4> QED BY <4>1, <4>2
        <3>9. m + 1 \in Nat /\ n + 1 \in Nat
            OBVIOUS
        <3>10. BlockedInv'
            BY <1>6, <2>1, <3>2, <3>3, <3>6, <3>8, <3>9
        <3> QED BY <3>2, <3>10
    <2> QED BY <2>2, <2>3
<1>11. CASE Returns
    <2>1. Len(stack') = n - 1 /\ n - 1 \in Nat /\ Top = stack[n]
        BY <1>2, <1>11 DEF Returns, Top
    <2>2. Blocks' = {j \in 1..(n - 1) : stack[j].kind = "block"}
        <3>1. \A j \in 1..(n - 1) : j \in 1..n
            OBVIOUS
        <3> QED BY <1>7, <2>1, <3>1 DEF Blocks
    <2>3. \A j \in 1..n : j \in 1..(n - 1) \/ j = n
        OBVIOUS
    <2>4. \A j \in 1..(n - 1) : j \in 1..n /\ j # n
        OBVIOUS
    <2>5. CASE Top.kind = "block"
        <3>1. n \in B /\ Blocks' = B \ {n}
            BY <1>2, <1>5, <2>1, <2>2, <2>3, <2>4, <2>5
        <3>2. /\ m >= 1
              /\ \E h : Listing(h, m - 1, n - 1, B \ {n}) /\ Agrees(h, g, m - 1)
            BY <1>5, <3>1, ListsFront
        <3>3. PICK h : Listing(h, m - 1, n - 1, B \ {n}) /\ Agrees(h, g, m - 1)
            BY <3>2
        <3>4. blocked_sessions' = Front(blocked_sessions)
            BY <1>11, <2>5 DEF Returns, Loops
        <3>5. blocked_sessions # <<>>
            BY <1>1, <1>2, <3>2
        <3>6. /\ blocked_sessions' \in Seq(Sessions) /\ Len(blocked_sessions') = m - 1
              /\ \A i \in 1..(m - 1) : blocked_sessions'[i] = blocked_sessions[i]
            BY <1>1, <1>2, <3>4, <3>5, FrontProperties
        <3>7. ASSUME NEW i \in 1..(m - 1)
              PROVE  stack'[h[i]].session = blocked_sessions'[i]
            <4>1. h[i] = g[i] /\ h[i] \in 1..(n - 1) /\ i \in 1..m
                BY <3>2, <3>3 DEF Listing, Agrees
            <4>2. stack'[h[i]].session = stack[h[i]].session
                BY <1>5, <1>7, <2>1, <2>4, <4>1
            <4> QED BY <1>3, <3>6, <4>1, <4>2
        <3>8. m - 1 \in Nat
            BY <3>2
        <3>9. BlockedInv'
            BY <1>6, <2>1, <3>1, <3>3, <3>6, <3>7, <3>8
        <3> QED BY <3>6, <3>9
    <2>6. CASE Top.kind # "block"
        <3>1. n \notin B /\ Blocks' = B
            BY <1>5, <2>1, <2>2, <2>3, <2>4, <2>6
        <3>2. Listing(g, m, n - 1, B)
            BY <1>5, <3>1, ListsFront
        <3>3. UNCHANGED blocked_sessions
            BY <1>11, <2>6, Zenon DEF Returns
        <3>4. ASSUME NEW i \in 1..m PROVE stack'[g[i]].session = blocked_sessions'[i]
            <4>1. g[i] \in 1..(n - 1)
                BY <3>2 DEF Listing
            <4>2. stack'[g[i]].session = stack[g[i]].session
                BY <1>5, <1>7, <2>1, <2>4, <4>1
            <4> QED BY <1>3, <3>3, <4>2
        <3>5. BlockedInv'
            BY <1>2, <1>6, <2>1, <3>1, <3>2, <3>3, <3>4
        <3> QED BY <1>1, <3>3, <3>5
    <2> QED BY <2>5, <2>6
<1> QED BY <1>9, <1>10, <1>11, Zenon DEF Moves

-----------------------------------------------------------------------------
(* The base of the other invariants.                                        *)

Base == TypeOK /\ ShapeInv /\ SpawnedInv /\ OrderInv /\ BlockedInv

LEMMA ThreadType ==
    ASSUME TypeOK, ShapeInv, Moves
    PROVE  is_main_thread' \in BOOLEAN
<1>1. is_main_thread \in BOOLEAN
    BY DEF TypeOK
<1>2. CASE GoesOn
    BY <1>1, <1>2, Zenon DEF GoesOn
<1>3. ASSUME NEW f \in Frames, Calls(f) PROVE is_main_thread' \in BOOLEAN
    BY <1>1, <1>3, Zenon DEF Calls, Called
<1>4. CASE Returns
    <2>1. Top.kind = "task" => Top.was_main_thread \in BOOLEAN
        BY TopFrame, FrameFields DEF ShapeInv
    <2> QED BY <1>1, <1>4, <2>1, Zenon DEF Returns
<1> QED BY <1>2, <1>3, <1>4 DEF Moves

LEMMA StackType ==
    ASSUME Moves
    PROVE  stack' \in Seq(Frames)
BY Zenon DEF Moves, GoesOn, Calls, Returns

LEMMA BaseStep ==
    ASSUME Base, [Next]_vars
    PROVE  Base' /\ Moves /\ SessionMoves /\ QueueMoves /\ WaitMoves /\ TimeMoves
<1>1. TypeOK /\ ShapeInv /\ SpawnedInv /\ OrderInv /\ BlockedInv
    BY DEF Base
<1>2. Moves
    BY <1>1, StackMoves
<1>3. SessionMoves /\ QueueMoves /\ WaitMoves
    BY <1>1, DataMoves
<1>4. TimeMoves
    BY <1>1, TimeStep
<1>5. ShapeInv' /\ SpawnedInv'
    BY <1>1, <1>2, <1>3, ShapeStep, SpawnedStep
<1>6. OrderInv' /\ order' \in [Sessions -> Seq(Tasks)]
    BY <1>1, <1>3, OrderStep
<1>7. BlockedInv' /\ blocked_sessions' \in Seq(Sessions)
    BY <1>1, <1>2, BlockedStep
<1>8. runnables' \in Seq(Tasks)
    BY <1>1, <1>3, QueuedAfter
<1>9. Rest' /\ Flags'
    BY <1>1, RestStep
<1>10. /\ timers' \in Seq([id: Timers, expiration: 0..MaxNow]) /\ now' \in 0..MaxNow
       /\ expires' \in [Timers -> (0..MaxNow) \union {None}]
    BY <1>1, <1>4, TimeTypes
<1>11. is_main_thread' \in BOOLEAN /\ stack' \in Seq(Frames)
    BY <1>1, <1>2, ThreadType, StackType
<1>12. session' \in [Tasks -> (Sessions \union {Background, None})]
    BY <1>3 DEF SessionMoves
<1>13. TypeOK'
    BY <1>6, <1>7, <1>8, <1>9, <1>10, <1>11, <1>12, Zenon DEF TypeOK, Rest, Flags
<1> QED BY <1>2, <1>3, <1>4, <1>5, <1>6, <1>7, <1>13 DEF Base

LEMMA BaseInit ==
    ASSUME Init
    PROVE  Base
<1>1. /\ runnables = <<>> /\ timers = <<>> /\ blocked_sessions = <<>>
      /\ stack = <<[kind |-> "test"]>> /\ now = 0 /\ ops = 0 /\ done = {}
      /\ outcome = "running"
      /\ session = [t \in Tasks |-> None] /\ waiting = [t \in Tasks |-> None]
      /\ order = [s \in Sessions |-> <<>>] /\ expires = [t \in Timers |-> None]
    BY DEF Init
<1>2. /\ is_main_thread \in BOOLEAN /\ Flags
    BY Zenon DEF Init, Flags
<1>3. [kind |-> "test"] \in Frames
    <2>1. [kind |-> "test"] \in [kind: {"test", "run", "run_with_clock_advancement"}]
        OBVIOUS
    <2> QED BY <2>1, Zenon DEF Frames
<1>4. PICK f \in Frames : f = [kind |-> "test"] /\ f.kind = "test"
    BY <1>3
<1>5. stack \in Seq(Frames) /\ Len(stack) = 1 /\ stack[1] = f
    BY <1>1, <1>4
<1>6. Rest
    BY <1>1, SchedulerAssumption DEF Rest
<1>7. /\ runnables \in Seq(Tasks) /\ blocked_sessions \in Seq(Sessions)
      /\ timers \in Seq([id: Timers, expiration: 0..MaxNow])
    BY <1>1
<1>8. /\ now \in 0..MaxNow /\ expires \in [Timers -> (0..MaxNow) \union {None}]
      /\ session \in [Tasks -> (Sessions \union {Background, None})]
      /\ order \in [Sessions -> Seq(Tasks)]
    BY <1>1, SchedulerAssumption
<1>9. TypeOK
    BY <1>2, <1>5, <1>6, <1>7, <1>8, Zenon DEF TypeOK, Rest, Flags
<1>10. ShapeInv
    <2>0. stack # <<>>
        BY <1>5
    <2>1. stack # <<>> /\ stack[1].kind = "test"
        BY <1>4, <1>5, <2>0, Zenon
    <2>2. 2..1 = {} /\ 1..(1 - 1) = {}
        OBVIOUS
    <2> QED BY <1>5, <2>1, <2>2, Zenon DEF ShapeInv
<1>11. SpawnedInv
    BY <1>1, <1>4, <1>5 DEF SpawnedInv
<1>12. PICK g : g = [i \in 1..0 |-> i]
    OBVIOUS
<1>13. \A n \in Nat : g \in [1..0 -> 1..n]
    BY <1>12
<1>14. Lists(g, {})
    BY <1>12 DEF Lists
<1>15. OrderInv
    <2> SUFFICES ASSUME NEW s \in Sessions
                 PROVE  \E h \in [1..Len(order[s]) -> 1..Len(runnables)] :
                           /\ Lists(h, OfSession(s, Len(runnables)))
                           /\ \A i \in 1..Len(order[s]) : runnables[h[i]] = order[s][i]
        BY DEF OrderInv
    <2>1. Len(order[s]) = 0 /\ Len(runnables) = 0
        BY <1>1
    <2>2. OfSession(s, Len(runnables)) = {}
        BY <2>1 DEF OfSession
    <2>3. \A i \in 1..0 : runnables[g[i]] = order[s][i]
        OBVIOUS
    <2> QED BY <1>13, <1>14, <2>1, <2>2, <2>3, Zenon
<1>16. BlockedInv
    <2>1. Len(blocked_sessions) = 0
        BY <1>1
    <2>2. Blocks = {}
        BY <1>4, <1>5 DEF Blocks
    <2>3. \A i \in 1..0 : stack[g[i]].session = blocked_sessions[i]
        OBVIOUS
    <2>4. 1 \in Nat
        OBVIOUS
    <2> QED BY <1>5, <1>13, <1>14, <2>1, <2>2, <2>3, <2>4, Zenon DEF BlockedInv
<1> QED BY <1>9, <1>10, <1>11, <1>15, <1>16 DEF Base

LEMMA BaseHolds == Spec => []Base
<1>1. Init => Base
    BY BaseInit
<1>2. Base /\ [Next]_vars => Base'
    BY BaseStep
<1> QED BY <1>1, <1>2, PTL DEF Spec

\* The scheduler keeps the types of its state - in particular no list that a
\* call, a return or a step takes an element from is empty then - for any
\* tasks, timers and sessions and any depth of nesting.
THEOREM TypeCorrect == Spec => []TypeOK
<1>1. Base => TypeOK
    BY DEF Base
<1> QED BY <1>1, BaseHolds, PTL

-----------------------------------------------------------------------------
(* SessionOrder.                                                            *)

\* The rank of the k-th number listed is k.
Ranked(g, k) == Cardinality({g[j] : j \in 1..k}) = k

LEMMA ListedRank ==
    ASSUME NEW m \in Nat, NEW n \in Nat, NEW S, NEW g, Listing(g, m, n, S),
           NEW k \in 0..m
    PROVE  Ranked(g, k)
<1> DEFINE T == {g[j] : j \in 1..k}
<1>0. g \in [1..m -> 1..n] /\ Lists(g, S) /\ DOMAIN g = 1..m
    BY DEF Listing
<1>1. k \in Nat /\ \A j \in 1..k : j \in 1..m
    OBVIOUS
<1>2. PICK h : h = [j \in 1..k |-> g[j]]
    OBVIOUS
<1>3. h \in [1..k -> T] /\ \A j \in 1..k : h[j] = g[j]
    BY <1>2
<1>4. \A a, b \in 1..k : a # b => g[a] # g[b]
    <2> SUFFICES ASSUME NEW a \in 1..k, NEW b \in 1..k, a # b PROVE g[a] # g[b]
        OBVIOUS
    <2>1. a \in 1..m /\ b \in 1..m /\ g[a] \in 1..n /\ g[b] \in 1..n
        BY <1>0, <1>1
    <2>2. CASE a < b
        BY <1>0, <2>1, <2>2 DEF Lists
    <2>3. CASE b < a
        BY <1>0, <2>1, <2>3 DEF Lists
    <2> QED BY <2>2, <2>3
<1>5. ExistsBijection(1..k, T)
    <2>1. h \in Bijection(1..k, T)
        <3>1. h \in Injection(1..k, T)
            BY <1>3, <1>4 DEF Injection, IsInjective
        <3>2. h \in Surjection(1..k, T)
            BY <1>3 DEF Surjection
        <3> QED BY <3>1, <3>2 DEF Bijection
    <2> QED BY <2>1 DEF ExistsBijection
<1>6. Cardinality(T) = k
    BY <1>1, <1>5, FS_CountingElements
<1> QED BY <1>6 DEF Ranked

LEMMA OrderImplies ==
    ASSUME TypeOK, OrderInv
    PROVE  SessionOrder
<1> SUFFICES ASSUME NEW s \in Sessions
             PROVE  /\ Len(order[s]) = Cardinality(OfSession(s, Len(runnables)))
                    /\ \A i \in OfSession(s, Len(runnables)) :
                          runnables[i] = order[s][Cardinality(OfSession(s, i))]
    BY DEF SessionOrder
<1>1. runnables \in Seq(Tasks) /\ order[s] \in Seq(Tasks)
    BY DEF TypeOK
<1>2. PICK n \in Nat, m \in Nat : n = Len(runnables) /\ m = Len(order[s])
    BY <1>1
<1>3. PICK S : S = OfSession(s, n)
    OBVIOUS
<1>4. S \subseteq 1..n /\ S = {j \in 1..n : session[runnables[j]] = s}
    BY <1>3 DEF OfSession
<1>5. PICK g \in [1..m -> 1..n] :
          Lists(g, S) /\ \A k \in 1..m : runnables[g[k]] = order[s][k]
    BY <1>2, <1>3 DEF OrderInv
<1>6. Listing(g, m, n, S) /\ DOMAIN g = 1..m
    BY <1>4, <1>5 DEF Listing
<1>7. m = Cardinality(S)
    <2>1. S = {g[j] : j \in 1..m}
        BY <1>5, <1>6 DEF Lists
    <2>2. m \in 0..m
        OBVIOUS
    <2>3. Ranked(g, m)
        BY <1>6, <2>2, ListedRank, Zenon
    <2> QED BY <2>1, <2>3 DEF Ranked
<1>8. ASSUME NEW i \in S PROVE runnables[i] = order[s][Cardinality(OfSession(s, i))]
    <2>1. PICK k \in 1..m : g[k] = i
        BY <1>5, <1>6 DEF Lists
    <2>2. PICK T : T = OfSession(s, i)
        OBVIOUS
    <2>3. T = {j \in 1..i : session[runnables[j]] = s} /\ i \in 1..n
        BY <1>4, <2>2 DEF OfSession
    <2>4. T = {g[j] : j \in 1..k}
        <3>1. ASSUME NEW x \in T PROVE \E j \in 1..k : x = g[j]
            <4>1. x \in S /\ x <= i /\ x \in 1..n
                BY <1>4, <2>3
            <4>2. PICK j \in 1..m : g[j] = x
                BY <1>5, <1>6, <4>1 DEF Lists
            <4>3. ~(k < j)
                <5>1. k < j => g[k] < g[j]
                    BY <1>5, <1>6 DEF Lists
                <5> QED BY <2>1, <2>3, <4>1, <4>2, <5>1
            <4>4. j \in 1..k
                BY <4>3
            <4> QED BY <4>2, <4>4
        <3>2. ASSUME NEW j \in 1..k PROVE g[j] \in T
            <4>1. j \in 1..m
                OBVIOUS
            <4>2. g[j] \in S /\ g[j] \in 1..n /\ session[runnables[g[j]]] = s
                BY <1>4, <1>5, <1>6, <4>1 DEF Lists
            <4>3. j = k \/ j < k
                OBVIOUS
            <4>4. g[j] <= i
                <5>1. j < k => g[j] < g[k]
                    BY <1>5, <1>6, <4>1 DEF Lists
                <5> QED BY <2>1, <2>3, <4>2, <4>3, <5>1
            <4>5. g[j] \in 1..i
                BY <2>3, <4>2, <4>4
            <4> QED BY <2>3, <4>2, <4>5
        <3> QED BY <3>1, <3>2
    <2>5. Cardinality(T) = k
        <3>1. k \in 0..m
            OBVIOUS
        <3>2. Ranked(g, k)
            BY <1>6, <3>1, ListedRank, Zenon
        <3> QED BY <2>4, <3>2, Zenon DEF Ranked
    <2> QED BY <1>5, <2>1, <2>2, <2>5
<1> QED BY <1>2, <1>3, <1>7, <1>8

\* Neither the random insertion index nor the random draw reorders, drops or
\* repeats the runnables of a session (schedule, step_filtered).
THEOREM SessionsAreFifo == Spec => []SessionOrder
<1>1. Base => SessionOrder
    BY OrderImplies DEF Base
<1> QED BY <1>1, BaseHolds, PTL

-----------------------------------------------------------------------------
(* NestingIsTransparent.                                                    *)

\* The frames that stay: their kinds, and the sessions of tasks and blocks.
LEMMA FramesAfter ==
    ASSUME Base, Moves, SessionMoves
    PROVE  /\ Len(stack) \in Nat /\ Len(stack) >= 1 /\ Len(stack') \in Nat
           /\ \A n \in 1..Len(stack') :
                 \/ /\ n \in 1..Len(stack) /\ stack'[n].kind = stack[n].kind
                    /\ stack[n].kind = "task" =>
                          /\ stack'[n] = stack[n]
                          /\ session'[stack[n].task] = session[stack[n].task]
                    /\ stack[n].kind = "block" => stack'[n].session = stack[n].session
                 \/ n = Len(stack) + 1 /\ \E f \in Frames : Calls(f) /\ stack'[n] = f
<1>1. TypeOK /\ ShapeInv /\ SpawnedInv /\ stack \in Seq(Frames)
    BY DEF Base, TypeOK
<1>2. /\ Len(stack) \in Nat /\ Len(stack) >= 1 /\ Len(stack') \in Nat
      /\ \A n \in 1..Len(stack') :
            \/ n \in 1..Len(stack) /\ Same(stack[n], stack'[n])
            \/ n = Len(stack) + 1
    BY <1>1, KindsAfter
<1>3. ASSUME NEW n \in 1..Len(stack), Same(stack[n], stack'[n])
      PROVE  /\ stack'[n].kind = stack[n].kind
             /\ stack[n].kind = "task" =>
                   /\ stack'[n] = stack[n]
                   /\ session'[stack[n].task] = session[stack[n].task]
             /\ stack[n].kind = "block" => stack'[n].session = stack[n].session
    <2>1. stack[n] \in Frames
        BY <1>1
    <2>2. stack[n].kind = "task" =>
              stack[n].task \in Tasks /\ session[stack[n].task] # None
        BY <1>1, <2>1, FrameFields DEF SpawnedInv
    <2> QED BY <1>3, <2>2 DEF Same, SessionMoves
<1>4. ASSUME NEW n \in 1..Len(stack'), n = Len(stack) + 1
      PROVE  \E f \in Frames : Calls(f) /\ stack'[n] = f
    <2>1. Len(stack') # Len(stack) /\ Len(stack') # Len(stack) - 1
        BY <1>2, <1>4
    <2>2. PICK f \in Frames : Calls(f)
        BY <2>1 DEF Moves, GoesOn, Returns
    <2> QED BY <1>4, <2>2 DEF Calls
<1> QED BY <1>2, <1>3, <1>4

LEMMA NestedStep ==
    ASSUME Base, NestedInv, Moves, SessionMoves
    PROVE  NestedInv'
<1> SUFFICES ASSUME NEW n \in 1..Len(stack'), NEW m \in 1..Len(stack'), n < m,
                    stack'[n].kind = "block", stack'[m].kind = "task"
             PROVE  session'[stack'[m].task] # stack'[n].session
    BY DEF NestedInv
<1>1. /\ Len(stack) \in Nat /\ Len(stack) >= 1 /\ Len(stack') \in Nat
      /\ Len(stack') <= Len(stack) + 1
    <2>1. Len(stack') \in {Len(stack) - 1, Len(stack), Len(stack) + 1}
        BY KindsAfter DEF Base
    <2> QED BY <2>1, FramesAfter
<1>2. n \in 1..Len(stack) /\ stack[n].kind = "block"
      /\ stack'[n].session = stack[n].session
    <2>1. n # Len(stack) + 1
        BY <1>1
    <2> QED BY <2>1, FramesAfter
<1>3. CASE m \in 1..Len(stack)
    <2>1. m # Len(stack) + 1
        BY <1>1, <1>3
    <2>2. /\ stack[m].kind = "task" /\ stack'[m] = stack[m]
          /\ session'[stack[m].task] = session[stack[m].task]
        BY <2>1, FramesAfter
    <2> QED BY <1>2, <1>3, <2>2 DEF NestedInv
<1>4. CASE m = Len(stack) + 1
    <2>1. PICK f \in Frames : Calls(f) /\ stack'[m] = f
        BY <1>1, <1>4, FramesAfter
    <2>2. /\ \E i \in 1..Len(runnables) : f.task = runnables[i]
          /\ \A i \in 1..Len(blocked_sessions) : blocked_sessions[i] # session[f.task]
        BY <2>1 DEF Calls, Called, Loops
    <2>3. session'[f.task] = session[f.task]
        BY <2>2, SessionsOfQueue DEF Base
    <2>4. PICK g \in [1..Len(blocked_sessions) -> 1..Len(stack)] :
              /\ Lists(g, Blocks)
              /\ \A i \in 1..Len(blocked_sessions) :
                    stack[g[i]].session = blocked_sessions[i]
        BY DEF Base, BlockedInv
    <2>5. n \in Blocks
        BY <1>2 DEF Blocks
    <2>6. PICK i \in 1..Len(blocked_sessions) : g[i] = n
        BY <2>4, <2>5 DEF Lists
    <2>7. stack[n].session = blocked_sessions[i]
        BY <2>4, <2>6
    <2> QED BY <1>2, <2>1, <2>2, <2>3, <2>7
<1> QED BY <1>1, <1>3, <1>4

LEMMA ThreadStep ==
    ASSUME Base, ThreadInv, Moves, SessionMoves
    PROVE  ThreadInv'
<1> DEFINE L == Len(stack)
           IsUser(n) == stack[n].kind \in {"test", "task"}
           IsMain(n) == stack[n].kind = "task" => session[stack[n].task] # Background
<1>1. /\ L \in Nat /\ L >= 1 /\ Len(stack') \in {L - 1, L, L + 1}
    BY KindsAfter DEF Base
<1>2. \A n \in 1..L : n \in 1..Len(stack') =>
          (IsUser(n)' <=> IsUser(n)) /\ (IsMain(n)' = IsMain(n))
          /\ (stack[n].kind = "task" <=> stack'[n].kind = "task")
          /\ (stack[n].kind = "task" => stack'[n] = stack[n])
    <2> SUFFICES ASSUME NEW n \in 1..L, n \in 1..Len(stack')
                 PROVE  (IsUser(n)' <=> IsUser(n)) /\ (IsMain(n)' = IsMain(n))
                        /\ (stack[n].kind = "task" <=> stack'[n].kind = "task")
                        /\ (stack[n].kind = "task" => stack'[n] = stack[n])
        OBVIOUS
    <2>1. n # Len(stack) + 1
        BY <1>1
    <2>2. /\ stack'[n].kind = stack[n].kind
          /\ stack[n].kind = "task" =>
                /\ stack'[n] = stack[n]
                /\ session'[stack[n].task] = session[stack[n].task]
        BY <2>1, FramesAfter
    <2> QED BY <2>2
<1>3. \A m \in 1..L : IsUser(m) /\ (\A j \in (m + 1)..L : ~IsUser(j))
          => is_main_thread = IsMain(m)
    BY DEF ThreadInv, User, Main
<1>4. \A m, n \in 1..L :
          m < n /\ IsUser(m) /\ stack[n].kind = "task"
          /\ (\A j \in (m + 1)..(n - 1) : ~IsUser(j))
          => stack[n].was_main_thread = IsMain(m)
    BY DEF ThreadInv, User, Main
<1>5. ASSUME NEW n \in 1..Len(stack'), n = L + 1
      PROVE  \E f \in Frames : Calls(f) /\ stack'[n] = f
    <2>1. n \notin 1..Len(stack)
        BY <1>1, <1>5
    <2> QED BY <2>1, FramesAfter
<1>6. Top = stack[L]
    BY DEF Top
<1>7. is_main_thread \in BOOLEAN /\ stack \in Seq(Frames)
    BY DEF Base, TypeOK
<1> HIDE DEF IsMain
<1>8. ASSUME NEW m \in 1..Len(stack'), IsUser(m)',
             \A j \in (m + 1)..Len(stack') : ~(IsUser(j)')
      PROVE  is_main_thread' = IsMain(m)'
    <2>1. CASE GoesOn
        <3>1. Len(stack') = L /\ is_main_thread' = is_main_thread
            BY <2>1 DEF GoesOn
        <3>2. \A j \in (m + 1)..L : j \in 1..L
            OBVIOUS
        <3>3. IsUser(m) /\ \A j \in (m + 1)..L : ~IsUser(j)
            BY <1>2, <1>8, <3>1, <3>2
        <3>4. is_main_thread = IsMain(m) /\ IsMain(m)' = IsMain(m)
            BY <1>2, <1>3, <3>1, <3>3, Zenon
        <3> QED BY <3>1, <3>4, Zenon
    <2>2. ASSUME NEW f \in Frames, Calls(f) PROVE is_main_thread' = IsMain(m)'
        <3>1. Len(stack') = L + 1 /\ stack'[L + 1] = f /\ Called(f)
            BY <2>2 DEF Calls
        <3>2. CASE f.kind = "task"
            <4>1. m = L + 1
                <5>1. PICK k \in Nat : k = L + 1
                    BY <1>1
                <5>2. IsUser(k)'
                    BY <3>1, <3>2, <5>1
                <5>3. m # k => k \in (m + 1)..Len(stack')
                    BY <1>1, <3>1, <5>1
                <5> QED BY <1>8, <5>1, <5>2, <5>3
            <4>2. /\ is_main_thread' = (session[f.task] # Background)
                  /\ \E i \in 1..Len(runnables) : f.task = runnables[i]
                BY <3>1, <3>2, Zenon DEF Called, Loops
            <4>3. session'[f.task] = session[f.task]
                BY <4>2, SessionsOfQueue DEF Base
            <4>4. IsMain(m)' = (session'[f.task] # Background)
                BY <3>1, <3>2, <4>1, Zenon DEF IsMain
            <4> QED BY <4>2, <4>3, <4>4, Zenon
        <3>3. CASE f.kind # "task"
            <4>1. is_main_thread' = is_main_thread /\ f.kind # "test"
                BY <3>1, <3>3 DEF Called, Loops
            <4>2. m # L + 1
                BY <1>8, <3>1, <3>3, <4>1
            <4>3. m \in 1..L /\ \A j \in (m + 1)..L : j \in 1..L /\ j \in (m + 1)..Len(stack')
                                                        /\ j \in 1..Len(stack')
                BY <1>1, <3>1, <4>2
            <4>4. IsUser(m) /\ \A j \in (m + 1)..L : ~IsUser(j)
                BY <1>2, <1>8, <4>3
            <4>5. is_main_thread = IsMain(m) /\ IsMain(m)' = IsMain(m)
                BY <1>2, <1>3, <1>8, <4>3, <4>4, Zenon
            <4> QED BY <4>1, <4>5, Zenon
        <3> QED BY <3>2, <3>3
    <2>3. CASE Returns
        <3>1. Len(stack') = L - 1
            BY <2>3 DEF Returns
        <3>2. m \in 1..L /\ m < L /\ L \in 1..L
            BY <1>1, <3>1
        <3>3. \A j \in (m + 1)..(L - 1) : j \in 1..L /\ j \in 1..Len(stack')
                                             /\ j \in (m + 1)..Len(stack')
            BY <1>1, <3>1
        <3>4. IsUser(m) /\ \A j \in (m + 1)..(L - 1) : ~IsUser(j)
            BY <1>2, <1>8, <3>2, <3>3
        <3>5. IsMain(m)' = IsMain(m)
            BY <1>2, <3>2, <1>8, Zenon
        <3>6. CASE Top.kind = "task"
            <4>1. is_main_thread' = Top.was_main_thread
                BY <2>3, <3>6 DEF Returns, Loops
            <4>2. stack[L].was_main_thread = IsMain(m)
                BY <1>4, <1>6, <3>2, <3>4, <3>6, Zenon
            <4> QED BY <1>6, <3>5, <4>1, <4>2, Zenon
        <3>7. CASE Top.kind # "task"
            <4>1. is_main_thread' = is_main_thread /\ Top.kind # "test"
                BY <2>3, <3>7 DEF Returns, Loops
            <4>2. ~IsUser(L)
                BY <1>6, <3>7, <4>1
            <4>3. \A j \in (m + 1)..L : j \in (m + 1)..(L - 1) \/ j = L
                BY <1>1, <3>2
            <4>4. \A j \in (m + 1)..L : ~IsUser(j)
                BY <3>4, <4>2, <4>3, Zenon
            <4>5. is_main_thread = IsMain(m)
                BY <1>3, <3>2, <3>4, <4>4, Zenon
            <4> QED BY <3>5, <4>1, <4>5, Zenon
        <3> QED BY <3>6, <3>7
    <2> QED BY <2>1, <2>2, <2>3, Zenon DEF Moves
<1>9. ASSUME NEW m \in 1..Len(stack'), NEW n \in 1..Len(stack'), m < n,
             IsUser(m)', stack'[n].kind = "task",
             \A j \in (m + 1)..(n - 1) : ~(IsUser(j)')
      PROVE  stack'[n].was_main_thread = IsMain(m)'
    <2>1. m \in 1..L
        BY <1>1, <1>9
    <2>2. \A j \in (m + 1)..(n - 1) : j \in 1..L /\ j \in 1..Len(stack')
        BY <1>1, <2>1
    <2>3. IsUser(m) /\ IsMain(m)' = IsMain(m) /\ \A j \in (m + 1)..(n - 1) : ~IsUser(j)
        <3>1. IsUser(m) /\ \A j \in (m + 1)..(n - 1) : ~IsUser(j)
            BY <1>2, <1>9, <2>1, <2>2
        <3>2. IsMain(m)' = IsMain(m)
            BY <1>2, <1>9, <2>1, Zenon
        <3> QED BY <3>1, <3>2
    <2>4. CASE n \in 1..L
        <3>1. stack'[n] = stack[n] /\ stack[n].kind = "task"
            BY <1>2, <1>9, <2>4
        <3>2. stack[n].was_main_thread = IsMain(m)
            BY <1>4, <1>9, <2>1, <2>3, <2>4, <3>1, Zenon
        <3> QED BY <2>3, <3>1, <3>2, Zenon
    <2>5. CASE n = L + 1
        <3>1. PICK f \in Frames : Calls(f) /\ stack'[n] = f
            BY <1>5, <2>5
        <3>2. f.was_main_thread = is_main_thread
            BY <1>9, <3>1 DEF Calls, Called, Loops
        <3>3. \A j \in (m + 1)..L : j \in (m + 1)..(n - 1)
            BY <1>1, <2>5
        <3>4. is_main_thread = IsMain(m)
            BY <1>3, <2>1, <2>3, <3>3, Zenon
        <3> QED BY <2>3, <3>1, <3>2, <3>4, Zenon
    <2>6. n \in 1..L \/ n = L + 1
        BY <1>1
    <2> QED BY <2>4, <2>5, <2>6
<1> QED BY <1>8, <1>9, Zenon DEF ThreadInv, User, Main, IsMain

NestingInv == Base /\ NestedInv /\ ThreadInv

LEMMA NestingInit ==
    ASSUME Init
    PROVE  NestingInv
<1>1. Base
    BY BaseInit
<1>2. is_main_thread = TRUE /\ stack = <<[kind |-> "test"]>>
    BY DEF Init
<1>3. PICK f : f = [kind |-> "test"] /\ f.kind = "test"
    <2>1. [kind |-> "test"].kind = "test"
        OBVIOUS
    <2> QED BY <2>1, Zenon
<1>4. Len(stack) = 1 /\ stack[1] = f
    BY <1>2, <1>3
<1>5. NestedInv
    <2>1. \A n, m \in 1..1 : ~(n < m)
        OBVIOUS
    <2> QED BY <1>4, <2>1, Zenon DEF NestedInv
<1>6. \A m \in 1..1 : m = 1
    OBVIOUS
<1>7. Main(stack[1])
    BY <1>3, <1>4 DEF Main
<1>8. \A m \in 1..Len(stack) : is_main_thread = Main(stack[m])
    BY <1>2, <1>4, <1>6, <1>7, Zenon DEF Main
<1>9. \A m, n \in 1..Len(stack) : ~(m < n)
    BY <1>4
<1>10. ThreadInv
    BY <1>8, <1>9, Zenon DEF ThreadInv
<1> QED BY <1>1, <1>5, <1>10 DEF NestingInv

LEMMA NestingStep ==
    ASSUME NestingInv, [Next]_vars
    PROVE  NestingInv'
<1>1. Base /\ NestedInv /\ ThreadInv
    BY DEF NestingInv
<1>2. Base' /\ Moves /\ SessionMoves
    BY <1>1, BaseStep
<1> QED BY <1>1, <1>2, NestedStep, ThreadStep DEF NestingInv

LEMMA NestingImplies ==
    ASSUME NestingInv
    PROVE  NestingIsTransparent
<1>1. TypeOK /\ ShapeInv /\ SpawnedInv /\ NestedInv /\ ThreadInv
    BY DEF NestingInv, Base
<1>2. stack \in Seq(Frames) /\ Len(stack) \in Nat /\ DOMAIN stack = 1..Len(stack)
      /\ Len(stack) >= 1
    <2>1. stack \in Seq(Frames) /\ stack # <<>>
        BY <1>1 DEF TypeOK, ShapeInv
    <2> QED BY <2>1
<1>3. PICK U : U = {n \in DOMAIN stack : stack[n].kind \in {"test", "task"}}
    OBVIOUS
<1>4. U \subseteq 0..Len(stack) /\ 1 \in U
    BY <1>1, <1>2, <1>3 DEF ShapeInv
<1>5. PICK x : x = Max(U)
    OBVIOUS
<1>6. x \in U /\ \A y \in U : x >= y
    BY <1>2, <1>4, <1>5, MaxProperties
<1>7. x \in 1..Len(stack) /\ User(stack[x])
    BY <1>2, <1>3, <1>6 DEF User
<1>8. \A j \in (x + 1)..Len(stack) : ~User(stack[j])
    <2> SUFFICES ASSUME NEW j \in (x + 1)..Len(stack), User(stack[j]) PROVE FALSE
        OBVIOUS
    <2>1. j \in 1..Len(stack) /\ j > x
        BY <1>2, <1>7
    <2>2. j \in U
        BY <1>2, <1>3, <2>1 DEF User
    <2> QED BY <1>6, <1>7, <2>1, <2>2
<1>9. is_main_thread = Main(stack[x])
    BY <1>1, <1>7, <1>8, Zenon DEF ThreadInv
<1>10. ASSUME NEW n \in DOMAIN stack, stack[n].kind = "block", NEW m \in U, m > n
       PROVE  session[stack[m].task] # stack[n].session
    <2>1. m \in 1..Len(stack) /\ n \in 1..Len(stack) /\ n < m
        BY <1>2, <1>3, <1>10
    <2>2. stack[m].kind = "task"
        <3>1. m \in 2..Len(stack)
            BY <2>1
        <3>2. stack[m].kind # "test"
            BY <1>1, <3>1 DEF ShapeInv
        <3> QED BY <1>3, <3>2
    <2> QED BY <1>1, <1>10, <2>1, <2>2 DEF NestedInv
<1> QED BY <1>3, <1>5, <1>9, <1>10, Zenon DEF NestingIsTransparent, Main

\* Nothing that runs inside of a block belongs to its session, and
\* is_main_thread is right for the code that runs, at any depth of nested
\* block, tick, run and advance_clock calls and after they returned.
THEOREM NestingTransparent == Spec => []NestingIsTransparent
<1>1. Init => NestingInv
    BY NestingInit
<1>2. NestingInv /\ [Next]_vars => NestingInv'
    BY NestingStep
<1>3. NestingInv => NestingIsTransparent
    BY NestingImplies
<1> QED BY <1>1, <1>2, <1>3, PTL DEF Spec

-----------------------------------------------------------------------------
(* GivesUpOnlyWhenStuck: an event has one waiter, which is told.            *)

\* The blocks after a step: one that was there, or a new one that has not
\* polled yet.
LEMMA BlocksAfter ==
    ASSUME TypeOK, ShapeInv, Moves, NEW n \in Blocks'
    PROVE  \/ n \in Blocks /\ stack'[n].on = stack[n].on
           \/ /\ n = Len(stack) + 1 /\ stack'[n].phase = "poll"
              /\ stack'[n].on \in Events /\ Awaitable(stack'[n].on)
<1>1. n \in 1..Len(stack') /\ stack'[n].kind = "block"
    BY DEF Blocks
<1>2. CASE n \in 1..Len(stack) /\ Same(stack[n], stack'[n])
    BY <1>1, <1>2 DEF Same, Blocks
<1>3. CASE n = Len(stack) + 1
    <2>1. Len(stack) \in Nat /\ Len(stack') # Len(stack) /\ Len(stack') # Len(stack) - 1
        BY <1>1, <1>3, KindsAfter
    <2>2. PICK f \in Frames : Calls(f)
        BY <2>1 DEF Moves, GoesOn, Returns
    <2>3. stack'[n] = f /\ f.kind = "block"
        BY <1>1, <1>3, <2>2 DEF Calls
    <2>4. f.phase = "poll" /\ f.on \in Events /\ Awaitable(f.on)
        BY <2>2, <2>3 DEF Calls, Called, Loops
    <2> QED BY <1>3, <2>3, <2>4
<1> QED BY <1>1, <1>2, <1>3, KindsAfter

LEMMA BlockEvents ==
    ASSUME TypeOK, NEW n \in Blocks
    PROVE  /\ n \in 1..Len(stack) /\ stack[n].kind = "block"
           /\ stack[n] \in BlockFrames /\ stack[n].on \in Events
           /\ stack[n].awoken \in BOOLEAN
<1>1. stack \in Seq(Frames) /\ n \in 1..Len(stack) /\ stack[n].kind = "block"
    BY DEF TypeOK, Blocks
<1>2. stack[n] \in Frames
    BY <1>1
<1>3. stack[n] \in BlockFrames
    BY <1>1, <1>2, FrameFields
<1> QED BY <1>1, <1>3 DEF BlockFrames

\* An event that can be awaited has no waiter.
LEMMA NoWaiter ==
    ASSUME TypeOK, NEW e, Awaitable(e)
    PROVE  /\ \A t \in Tasks : waiting[t] # e
           /\ \A n \in Blocks : stack[n].on # e
<1>1. stack \in Seq(Frames)
    BY DEF TypeOK
<1> QED BY <1>1 DEF Awaitable, Blocks

LEMMA OneWaiterStep ==
    ASSUME TypeOK, ShapeInv, OneWaiter, Moves, WaitMoves
    PROVE  OneWaiter'
<1>1. ASSUME NEW t \in Tasks
      PROVE  \/ waiting'[t] = waiting[t] \/ waiting'[t] = None
             \/ /\ t = Top.task /\ Awaitable(waiting'[t]) /\ waiting'[t] \in Events
                /\ Len(stack') = Len(stack) - 1
    <2>1. stack' = Callers => Len(stack') = Len(stack) - 1
        BY TopFrame DEF ShapeInv
    <2> QED BY <2>1, Zenon DEF WaitMoves
<1>2. ASSUME NEW t \in Tasks, NEW u \in Tasks, waiting'[t] = waiting'[u],
             waiting'[t] # None
      PROVE  t = u
    <2>1. CASE waiting'[t] = waiting[t] /\ waiting'[u] = waiting[u]
        BY <1>2, <2>1, Zenon DEF OneWaiter
    <2>2. CASE waiting'[t] = waiting[t] /\ Awaitable(waiting'[u])
        BY <1>2, <2>2, NoWaiter
    <2>3. CASE waiting'[u] = waiting[u] /\ Awaitable(waiting'[t])
        BY <1>2, <2>3, NoWaiter
    <2> QED BY <1>1, <1>2, <2>1, <2>2, <2>3, Zenon
<1>3. ASSUME NEW n \in Blocks', NEW t \in Tasks PROVE waiting'[t] # stack'[n].on
    <2>1. Len(stack) \in Nat /\ n \in 1..Len(stack')
        BY KindsAfter DEF Blocks
    <2>2. None \notin Events
        BY NoneIsNoEvent
    <2>3. CASE n \in Blocks /\ stack'[n].on = stack[n].on
        <3>1. stack[n].on \in Events
            BY <2>3, BlockEvents
        <3>2. waiting[t] # stack[n].on
            BY <2>3, Zenon DEF OneWaiter
        <3>3. Awaitable(waiting'[t]) => waiting'[t] # stack[n].on
            BY <2>3, NoWaiter
        <3> QED BY <1>1, <2>2, <2>3, <3>1, <3>2, <3>3, Zenon
    <2>4. CASE /\ n = Len(stack) + 1 /\ stack'[n].on \in Events
               /\ Awaitable(stack'[n].on)
        <3>1. waiting[t] # stack'[n].on
            BY <2>4, NoWaiter
        <3>2. Len(stack') # Len(stack) - 1
            BY <2>1, <2>4
        <3> QED BY <1>1, <2>2, <2>4, <3>1, <3>2, Zenon
    <2> QED BY <2>3, <2>4, BlocksAfter
<1>4. ASSUME NEW n \in Blocks', NEW m \in Blocks', stack'[n].on = stack'[m].on
      PROVE  n = m
    <2>1. CASE n \in Blocks /\ m \in Blocks /\ stack[n].on = stack[m].on
        BY <2>1, Zenon DEF OneWaiter
    <2>2. CASE m \in Blocks /\ stack'[m].on = stack[m].on /\ Awaitable(stack'[n].on)
        BY <1>4, <2>2, NoWaiter
    <2>3. CASE n \in Blocks /\ stack'[n].on = stack[n].on /\ Awaitable(stack'[m].on)
        BY <1>4, <2>3, NoWaiter
    <2> QED BY <1>4, <2>1, <2>2, <2>3, BlocksAfter
<1> QED BY <1>2, <1>3, <1>4, Zenon DEF OneWaiter

\* The block that awaits an event is woken when the event completes.
LEMMA WaiterWoken ==
    ASSUME TypeOK, ShapeInv, OneWaiter, NEW e \in Events, Completes(e),
           NEW n \in Blocks, stack[n].phase # "poll", stack[n].on = e
    PROVE  stack'[n].awoken = TRUE /\ unparked' = TRUE
<1>1. PICK frames \in Seq(Frames) : complete(e, frames) /\ KeepsBlocks(frames)
    BY DEF Completes
<1>2. n \in 1..Len(stack) /\ stack[n].kind = "block"
    BY BlockEvents
<1>3. n \in 1..Len(frames) /\ frames[n] = stack[n]
    BY <1>1, <1>2 DEF KeepsBlocks
<1>4. DOMAIN frames = 1..Len(frames)
    OBVIOUS
<1>5. n \in PolledBlocks(e, frames)
    BY <1>2, <1>3, <1>4 DEF PolledBlocks
<1>6. Suspended(e) = {}
    BY DEF Suspended, OneWaiter
<1>7. PICK k \in PolledBlocks(e, frames) : wake_block(k, frames)
    BY <1>1, <1>5, <1>6, Zenon DEF complete
<1>8. k = n
    <2>1. k \in 1..Len(frames) /\ frames[k].kind = "block" /\ frames[k].on = e
        BY <1>4, <1>7 DEF PolledBlocks
    <2>2. k \in 1..Len(stack) /\ frames[k] = stack[k]
        BY <1>1, <2>1 DEF KeepsBlocks
    <2>3. k \in Blocks /\ stack[k].on = stack[n].on
        BY <2>1, <2>2 DEF Blocks
    <2> QED BY <2>3, Zenon DEF OneWaiter
<1>9. stack' = [frames EXCEPT ![n].awoken = TRUE] /\ unparked' = TRUE
    BY <1>7, <1>8 DEF wake_block
<1>10. frames[n] \in BlockFrames
    BY <1>3, BlockEvents
<1>11. stack'[n] = [frames[n] EXCEPT !.awoken = TRUE]
    BY <1>3, <1>4, <1>9
<1>12. stack'[n].awoken = TRUE
    BY <1>10, <1>11 DEF BlockFrames
<1> QED BY <1>9, <1>12

DoneMoves == done' = done \/ \E e \in Events : done' = done \union {e} /\ Completes(e)

LEMMA CompletesDone ==
    ASSUME NEW e, Completes(e)
    PROVE  done' = done \union {e}
BY DEF Completes, complete

\* The steps that complete events.
LEMMA DoneBy ==
    ASSUME [Next]_vars
    PROVE  done' = done \/ IoCompletes \/ Finish \/ DropElapsed \/ DrainDrop
<1>1. CASE UNCHANGED vars \/ end_test
    BY <1>1, Zenon DEF vars, end_test, tasks
<1>2. CASE UserCall
    <2>1. ASSUME NEW f, Start(f) PROVE UNCHANGED done
        BY <2>1 DEF Start, tasks
    <2>2. (StartRun \/ StartDrain \/ \E d \in Durations : StartAdvance(d))
              => \E f : Start(f)
        BY Zenon DEF StartRun, StartDrain, StartAdvance
    <2> QED BY <1>2, <2>1, <2>2, Zenon DEF UserCall, Spawn, timer, block, tick,
           UntouchedByStep, SetParking, tasks
<1>3. CASE YieldNow \/ \E e \in Events : Await(e)
    BY <1>3, Zenon DEF YieldNow, Await, tasks
<1>4. CASE LoopStep \/ LoopIdle \/ DrainTake \/ BlockPoll \/ BlockStep
    BY <1>4, Zenon DEF LoopStep, LoopIdle, DrainTake, BlockPoll, BlockStep,
       UntouchedByStep, tasks
<1>5. CASE BlockStepIdle \/ BlockCoinDown \/ BlockSwap \/ BlockIdle \/ Park \/ ParkDeadline
    BY <1>5, Zenon DEF BlockStepIdle, BlockCoinDown, BlockSwap, BlockIdle, Park,
       ParkDeadline, tasks
<1> QED BY <1>1, <1>2, <1>3, <1>4, <1>5, Zenon
        DEF Next, Terminated, SchedulerStep, TaskReturns

LEMMA DoneStep ==
    ASSUME TypeOK, ShapeInv, [Next]_vars
    PROVE  DoneMoves
<1>0. ASSUME NEW e \in Events, Completes(e) PROVE DoneMoves
    BY <1>0, CompletesDone DEF DoneMoves
<1>1. CASE done' = done
    BY <1>1 DEF DoneMoves
<1>2. CASE IoCompletes
    BY <1>0, <1>2, IoCompletesIo DEF Events
<1>3. CASE Finish
    BY <1>0, <1>3, FinishCompletes DEF Events
<1>4. CASE DropElapsed
    BY <1>0, <1>4, ElapsedCompletes DEF Events
<1>5. CASE DrainDrop
    BY <1>0, <1>5, DrainCompletes
<1> QED BY <1>1, <1>2, <1>3, <1>4, <1>5, DoneBy

LEMMA CandidatesUnchanged ==
    ASSUME UNCHANGED <<runnables, session, blocked_sessions>>
    PROVE  candidate_indices(FALSE)' = candidate_indices(FALSE)
BY DEF candidate_indices

\* Only its own operations and other threads take a step while a block is at
\* the top.
LEMMA BlockActions ==
    ASSUME [Next]_vars, Top.kind = "block"
    PROVE  \/ UNCHANGED vars \/ IoCompletes
           \/ BlockPoll \/ BlockStep \/ BlockStepIdle \/ BlockCoinDown \/ BlockSwap
           \/ BlockIdle \/ Park \/ ParkDeadline
<1>1. Top.kind \notin {"test", "task", "drain_tasks", "elapse"} \union Loops
    BY DEF Loops
<1>2. ~InUserCode /\ ~Call
    BY <1>1 DEF InUserCode, Call
<1>3. ~UserCall
    BY <1>1, <1>2, Zenon DEF UserCall, Spawn, timer, block, tick, SetParking, StartRun,
       StartAdvance, StartDrain, Start
<1>4. ~TaskReturns
    BY <1>1, Zenon DEF TaskReturns, YieldNow, Await, Finish
<1>5. ~end_test /\ ~DropElapsed /\ ~LoopStep /\ ~DrainTake /\ ~DrainDrop
    BY <1>1, Zenon DEF end_test, DropElapsed, LoopStep, DrainTake, DrainDrop
<1>6. ~LoopIdle
    BY <1>1 DEF LoopIdle, Loops
<1> QED BY <1>3, <1>4, <1>5, <1>6, Zenon DEF Next, Terminated, SchedulerStep

\* The block at the top stays informed.
LEMMA TopKnows ==
    ASSUME TypeOK, ShapeInv, OneWaiter, Moves, [Next]_vars, Top.kind = "block", Knows(Top),
           Len(stack) \in 1..Len(stack'), NEW g, g = stack'[Len(stack)]
    PROVE  Knows(g)'
<1>1. /\ stack # <<>> /\ Top = stack[Len(stack)] /\ Len(stack) \in Nat
      /\ Len(stack) >= 1 /\ Top \in BlockFrames
    BY TopFrame, FrameFields DEF ShapeInv
<1>2. ~Returns
    BY <1>1 DEF Returns
<1>3. ASSUME NEW h, BlockBecomes(h) PROVE h = g /\ g.on = Top.on
    BY <1>1, <1>3, BlockBecomesMoves DEF BlockBecomes
<1>4. CASE UNCHANGED vars
    <2>1. g = Top /\ UNCHANGED <<runnables, session, blocked_sessions, done, unparked>>
        BY <1>1, <1>4 DEF vars, sched, tasks
    <2>2. candidate_indices(FALSE)' = candidate_indices(FALSE)
        BY <2>1, CandidatesUnchanged
    <2> QED BY <2>1, <2>2, Zenon DEF Knows
<1>5. CASE IoCompletes
    <2>1. Completes(Io) /\ complete(Io, stack) /\ Io \in Events
        BY <1>5, IoCompletesIo DEF Events
    <2>2. done' = done \union {Io}
        BY <2>1, CompletesDone
    <2>3. Woken(Top, g)
        <3>0. stack \in Seq(Frames)
            BY DEF TypeOK
        <3>1. stack \in Seq(Frames) /\ Len(stack) \in 1..Len(stack)
            BY <1>1, <3>0
        <3>2. \A n \in 1..Len(stack) : Woken(stack[n], stack'[n])
            BY <2>1, <3>1, CompleteStack
        <3> QED BY <1>1, <3>1, <3>2
    <2>4. /\ g.on = Top.on /\ g.phase = Top.phase /\ g.stepped = Top.stepped
          /\ (Top.awoken => g.awoken)
        BY <1>1, <2>3, TopFrame, WokenFrame DEF ShapeInv
    <2>5. Len(stack) \in Blocks
        BY <1>1 DEF Blocks
    <2>6. Top.phase # "poll" /\ Top.on = Io => g.awoken = TRUE /\ unparked' = TRUE
        BY <1>1, <2>1, <2>5, WaiterWoken
    <2>7. Top.on # Io => (Top.on \in done' => Top.on \in done)
        BY <2>2
    <2>8. g.phase = "coin" => g.stepped # "no"
        BY <2>4 DEF Knows
    <2>9. g.phase \in {"coin", "swap"} /\ g.on \in done' => g.awoken
        <3> SUFFICES ASSUME g.phase \in {"coin", "swap"}, g.on \in done' PROVE g.awoken
            OBVIOUS
        <3>1. CASE Top.on = Io
            <4>1. Top.phase # "poll"
                BY <2>4
            <4> QED BY <2>6, <3>1, <4>1, Zenon
        <3>2. CASE Top.on # Io
            BY <2>4, <2>7, <3>2, Zenon DEF Knows
        <3> QED BY <3>1, <3>2
    <2>10. g.phase \in {"idle", "park"} /\ g.on \in done' => g.on = Io /\ unparked'
        <3> SUFFICES ASSUME g.phase \in {"idle", "park"}, g.on \in done'
                     PROVE  g.on = Io /\ unparked'
            OBVIOUS
        <3>1. Top.phase # "poll"
            BY <2>4
        <3>2. Top.on # Io => FALSE
            BY <2>4, <2>7, Zenon DEF Knows
        <3> QED BY <2>4, <2>6, <3>1, <3>2, Zenon
    <2>11. Io \in done'
        BY <2>2
    <2> QED BY <2>8, <2>9, <2>10, <2>11, Zenon DEF Knows
<1>6. CASE BlockPoll
    <2>1. PICK h : /\ BlockBecomes(h) /\ Top.on \notin done
                   /\ h.phase = "coin" /\ h.stepped = "unset"
        BY <1>2, <1>6, BlockPollMoves
    <2>2. h = g /\ g.on = Top.on /\ done' = done
        BY <1>3, <1>6, <2>1 DEF BlockPoll, tasks
    <2> QED BY <2>1, <2>2 DEF Knows
<1>7. CASE BlockStep
    <2>1. g.phase = "coin" /\ g.stepped = "yes" /\ g.awoken = Top.awoken
        BY <1>7, BlockStepMoves
    <2>2. g.on = Top.on
        BY <1>1, <1>7, BlockStepMoves DEF Calls, Same
    <2>3. done' = done /\ Top.phase = "coin"
        BY <1>7 DEF BlockStep, UntouchedByStep, tasks, InBlock
    <2>4. g.on \in done' => g.awoken
        BY <2>1, <2>2, <2>3 DEF Knows
    <2> QED BY <2>1, <2>4 DEF Knows
<1>8. CASE BlockStepIdle \/ BlockCoinDown
    <2>1. PICK h : /\ BlockBecomes(h) /\ h.phase = "swap" /\ h.awoken = Top.awoken
                   /\ h.stepped = "no" =>
                         Top.stepped = "no" \/ (BlockStepIdle /\ Idle(FALSE))
        BY <1>8, BlockCoinMoves
    <2>2. h = g /\ g.on = Top.on
        BY <1>3, <2>1
    <2>3. Top.phase = "coin" /\ UNCHANGED <<runnables, session, blocked_sessions, done>>
        BY <1>8 DEF BlockStepIdle, BlockCoinDown, InBlock, sched, tasks
    <2>4. candidate_indices(FALSE)' = candidate_indices(FALSE)
        BY <2>3, CandidatesUnchanged
    <2>5. Top.stepped # "no" /\ (Top.on \in done => Top.awoken)
        BY <2>3 DEF Knows
    <2>6. g.stepped = "no" => candidate_indices(FALSE)' = {}
        BY <2>1, <2>2, <2>4, <2>5 DEF Idle
    <2>7. g.on \in done' => g.awoken
        BY <2>1, <2>2, <2>3, <2>5, Zenon
    <2> QED BY <2>1, <2>2, <2>6, <2>7 DEF Knows
<1>9. CASE BlockSwap
    <2>1. PICK h : /\ BlockBecomes(h)
                   /\ \/ h.phase = "poll"
                      \/ h.phase = "idle" /\ Top.stepped = "no" /\ ~Top.awoken
        BY <1>9, BlockSwapMoves
    <2>2. h = g /\ g.on = Top.on
        BY <1>3, <2>1
    <2>3. Top.phase = "swap" /\ UNCHANGED <<runnables, session, blocked_sessions, done>>
        BY <1>9 DEF BlockSwap, InBlock, sched, tasks
    <2>4. candidate_indices(FALSE)' = candidate_indices(FALSE)
        BY <2>3, CandidatesUnchanged
    <2>5. CASE g.phase = "poll"
        BY <2>5 DEF Knows
    <2>6. CASE g.phase = "idle" /\ Top.stepped = "no" /\ ~Top.awoken
        <3>1. Top.on \notin done /\ (Io \in done \/ candidate_indices(FALSE) = {})
            BY <2>3, <2>6, Zenon DEF Knows
        <3>2. g.on \notin done' /\ (Io \in done' \/ candidate_indices(FALSE)' = {})
            BY <2>2, <2>3, <2>4, <3>1, Zenon
        <3> QED BY <2>6, <3>2 DEF Knows
    <2> QED BY <2>1, <2>2, <2>5, <2>6
<1>10. CASE BlockIdle
    <2>1. /\ UNCHANGED <<runnables, session, unparked, done>>
          /\ \/ \E h : BlockBecomes(h) /\ h.phase \in {"poll", "park"}
             \/ UNCHANGED <<stack, blocked_sessions>>
        BY <1>2, <1>10, BlockIdleMoves
    <2>2. Top.phase = "idle"
        BY <1>10 DEF BlockIdle, InBlock
    <2>3. Top.on \in done => Top.on = Io /\ unparked
        BY <2>2 DEF Knows
    <2>4. ASSUME NEW h, BlockBecomes(h), h.phase \in {"poll", "park"} PROVE Knows(g)'
        <3>1. h = g /\ g.on = Top.on
            BY <1>3, <2>4
        <3>2. g.on \in done' => g.on = Io /\ unparked'
            BY <2>1, <2>3, <3>1, Zenon
        <3> QED BY <2>4, <3>1, <3>2 DEF Knows
    <2>5. CASE UNCHANGED <<stack, blocked_sessions>>
        <3>1. g = Top /\ candidate_indices(FALSE)' = candidate_indices(FALSE)
            BY <1>1, <2>1, <2>5, CandidatesUnchanged
        <3> QED BY <2>1, <3>1, Zenon DEF Knows
    <2> QED BY <2>1, <2>4, <2>5, Zenon
<1>11. CASE Park
    <2>1. /\ UNCHANGED <<runnables, session, done>>
          /\ \/ \E h : BlockBecomes(h) /\ h.phase = "poll"
             \/ UNCHANGED <<stack, blocked_sessions>> /\ ~unparked
        BY <1>11, ParkMoves
    <2>2. Top.phase = "park"
        BY <1>11 DEF Park, InBlock
    <2>3. ASSUME NEW h, BlockBecomes(h), h.phase = "poll" PROVE Knows(g)'
        <3>1. h = g
            BY <1>3, <2>3
        <3> QED BY <2>3, <3>1 DEF Knows
    <2>4. CASE UNCHANGED <<stack, blocked_sessions>> /\ ~unparked
        <3>1. g = Top
            BY <1>1, <2>4
        <3>2. Top.on \notin done
            BY <2>2, <2>4, Zenon DEF Knows
        <3>3. g.on \notin done'
            BY <2>1, <3>1, <3>2
        <3> QED BY <2>2, <3>1, <3>3 DEF Knows
    <2> QED BY <2>1, <2>3, <2>4, Zenon
<1>12. CASE ParkDeadline
    <2>1. UNCHANGED <<stack, blocked_sessions>>
        BY <1>2, <1>12, ParkDeadlineMoves
    <2>2. UNCHANGED <<runnables, session, done, unparked>>
        BY <1>12 DEF ParkDeadline, tasks
    <2>3. g = Top /\ candidate_indices(FALSE)' = candidate_indices(FALSE)
        BY <1>1, <2>1, <2>2, CandidatesUnchanged
    <2> QED BY <2>2, <2>3, Zenon DEF Knows
<1> QED BY <1>4, <1>5, <1>6, <1>7, <1>8, <1>9, <1>10, <1>11, <1>12, BlockActions

LEMMA WakeStep ==
    ASSUME TypeOK, ShapeInv, OneWaiter, WakeInv, Moves, [Next]_vars
    PROVE  WakeInv'
<1> SUFFICES ASSUME NEW n \in Blocks' PROVE Knows(stack[n])'
    BY Zenon DEF WakeInv
<1>1. Len(stack) \in Nat /\ Len(stack) >= 1 /\ Top = stack[Len(stack)]
    BY TopFrame DEF ShapeInv
<1>2. n \in 1..Len(stack') /\ stack'[n].kind = "block"
    BY DEF Blocks
<1>3. PICK g : g = stack'[n]
    OBVIOUS
<1>4. SUFFICES Knows(g)'
    BY <1>3 DEF Knows
<1>5. CASE n = Len(stack) + 1 /\ stack'[n].phase = "poll"
    BY <1>3, <1>5 DEF Knows
<1>6. CASE n \in Blocks
    <2>1. n \in 1..Len(stack) /\ stack[n].kind = "block" /\ Knows(stack[n])
        BY <1>6 DEF Blocks, WakeInv
    <2>2. CASE n = Len(stack)
        BY <1>1, <1>2, <1>3, <2>1, <2>2, TopKnows
    <2>3. CASE n # Len(stack)
        <3>1. n \in 1..(Len(stack) - 1)
            BY <1>1, <2>1, <2>3
        <3>2. Below
            BY Zenon DEF Moves, GoesOn, Calls, Returns
        <3>3. stack[n].phase = "coin"
            BY <2>1, <3>1 DEF ShapeInv, Loops
        <3>4. /\ g.phase = "coin" /\ g.stepped = stack[n].stepped
              /\ g.on = stack[n].on /\ (stack[n].awoken => g.awoken)
            BY <1>3, <2>1, <3>1, <3>2, <3>3, BelowKept DEF Same
        <3>5. g.on \in done' => g.awoken
            <4> SUFFICES ASSUME g.on \in done' PROVE g.awoken
                OBVIOUS
            <4>1. CASE g.on \in done
                BY <2>1, <3>3, <3>4, <4>1 DEF Knows
            <4>2. CASE g.on \notin done
                <5>1. DoneMoves
                    BY DoneStep
                <5>2. PICK e \in Events : done' = done \union {e} /\ Completes(e)
                    BY <4>2, <5>1 DEF DoneMoves
                <5>3. stack[n].on = e
                    BY <3>4, <4>2, <5>2
                <5>4. stack'[n].awoken = TRUE
                    BY <1>6, <3>3, <5>2, <5>3, WaiterWoken
                <5> QED BY <1>3, <5>4
            <4> QED BY <4>1, <4>2
        <3>6. g.stepped # "no"
            BY <2>1, <3>3, <3>4 DEF Knows
        <3> QED BY <3>4, <3>5, <3>6 DEF Knows
    <2> QED BY <2>2, <2>3
<1> QED BY <1>5, <1>6, BlocksAfter

\* Only BlockIdle panics with "Parking forbidden".
LEMMA PanicStep ==
    ASSUME TypeOK, ShapeInv, PanicInv, [Next]_vars
    PROVE  PanicInv'
<1>1. CASE UNCHANGED vars
    <2>1. UNCHANGED <<stack, timers, outcome>>
        BY <1>1 DEF vars, sched
    <2> QED BY <2>1 DEF PanicInv, InBlock, Top
<1>2. CASE outcome' # "parking forbidden"
    BY <1>2 DEF PanicInv
<1>3. ASSUME Running, ~UNCHANGED vars, outcome' = "parking forbidden" PROVE BlockIdle
    <2>0. outcome' # outcome
        BY <1>3 DEF Running
    <2>1. ~UserCall
        <3>1. ASSUME NEW f, Start(f) PROVE UNCHANGED outcome
            BY <3>1 DEF Start
        <3>2. (StartRun \/ StartDrain \/ \E d \in Durations : StartAdvance(d))
                  => \E f : Start(f)
            BY Zenon DEF StartRun, StartDrain, StartAdvance
        <3> QED BY <2>0, <3>1, <3>2, Zenon DEF UserCall, Spawn, timer, block, tick,
                UntouchedByStep, SetParking
    <2>2. ~TaskReturns /\ ~IoCompletes
        BY <2>0, Zenon DEF TaskReturns, YieldNow, Await, Finish, IoCompletes
    <2>3. ~end_test
        BY <1>3 DEF end_test
    <2>4. ~DropElapsed /\ ~LoopStep /\ ~LoopIdle /\ ~DrainTake /\ ~DrainDrop
          /\ ~BlockPoll /\ ~BlockStep /\ ~BlockStepIdle /\ ~BlockCoinDown
          /\ ~BlockSwap /\ ~Park
        BY <2>0, Zenon DEF DropElapsed, LoopStep, LoopIdle, DrainTake, DrainDrop,
           BlockPoll, BlockStep, BlockStepIdle, BlockCoinDown, BlockSwap, Park,
           UntouchedByStep
    <2>5. ~ParkDeadline
        BY <1>3, <2>0 DEF ParkDeadline
    <2> QED BY <1>3, <2>1, <2>2, <2>3, <2>4, <2>5, Zenon DEF Next, Terminated, SchedulerStep
<1>4. CASE BlockIdle /\ Running /\ outcome' = "parking forbidden"
    <2>1. timers = <<>> /\ UNCHANGED stack
        BY <1>4, BlockIdleMoves DEF Running
    <2>2. InBlock("idle") /\ UNCHANGED timers
        BY <1>4 DEF BlockIdle
    <2> QED BY <2>1, <2>2 DEF PanicInv, InBlock, Top
<1> QED BY <1>1, <1>2, <1>3, <1>4, Zenon DEF Next, Terminated

GivesUpInv == Base /\ OneWaiter /\ WakeInv /\ PanicInv

LEMMA GivesUpInit ==
    ASSUME Init
    PROVE  GivesUpInv
<1>1. Base
    BY BaseInit
<1>2. /\ stack = <<[kind |-> "test"]>> /\ waiting = [t \in Tasks |-> None]
      /\ outcome = "running"
    BY DEF Init
<1>3. Blocks = {}
    <2>1. Len(stack) = 1 /\ stack[1].kind = "test"
        BY <1>2
    <2> QED BY <2>1 DEF Blocks
<1>4. \A t \in Tasks : waiting[t] = None
    BY <1>2
<1>5. OneWaiter /\ WakeInv
    BY <1>3, <1>4, Zenon DEF OneWaiter, WakeInv
<1>6. PanicInv
    BY <1>2 DEF PanicInv
<1> QED BY <1>1, <1>5, <1>6 DEF GivesUpInv

LEMMA GivesUpStep ==
    ASSUME GivesUpInv, [Next]_vars
    PROVE  GivesUpInv'
<1>1. Base /\ OneWaiter /\ WakeInv /\ PanicInv /\ TypeOK /\ ShapeInv
    BY DEF GivesUpInv, Base
<1>2. Base' /\ Moves /\ WaitMoves
    BY <1>1, BaseStep
<1> QED BY <1>1, <1>2, OneWaiterStep, WakeStep, PanicStep DEF GivesUpInv

LEMMA GivesUpImplies ==
    ASSUME GivesUpInv
    PROVE  GivesUpOnlyWhenStuck
<1>1. TypeOK /\ ShapeInv /\ WakeInv /\ PanicInv
    BY DEF GivesUpInv, Base
<1>2. ASSUME NEW p, InBlock(p) PROVE Knows(Top) /\ Top.phase = p
    <2>1. /\ Len(stack) \in Nat /\ Len(stack) >= 1 /\ Top = stack[Len(stack)]
        BY <1>1, TopFrame DEF ShapeInv
    <2>2. Len(stack) \in Blocks /\ Top.phase = p
        BY <1>2, <2>1 DEF Blocks, InBlock
    <2> QED BY <1>1, <2>1, <2>2 DEF WakeInv
<1>3. ASSUME outcome = "parking forbidden", Io \notin done
      PROVE  candidate_indices(FALSE) = {} /\ timers = <<>> /\ Top.on \notin done
    <2>1. InBlock("idle") /\ timers = <<>>
        BY <1>1, <1>3 DEF PanicInv
    <2>2. Knows(Top) /\ Top.phase = "idle"
        BY <1>2, <2>1
    <2>3. candidate_indices(FALSE) = {}
        BY <1>3, <2>2 DEF Knows
    <2>4. Top.on \in done => Top.on = Io
        BY <2>2 DEF Knows
    <2> QED BY <1>3, <2>1, <2>3, <2>4
<1>4. ASSUME InBlock("park"), Top.on \in done PROVE unparked
    <2>1. Knows(Top) /\ Top.phase = "park"
        BY <1>2, <1>4
    <2> QED BY <1>4, <2>1 DEF Knows
<1> QED BY <1>3, <1>4, Zenon DEF GivesUpOnlyWhenStuck

\* block panics with "Parking forbidden" only when nothing is left that could
\* complete its future, and parks only when the completion of its future, if
\* there was one, is recorded: no wake-up between a poll, the steps after it
\* and the swap of awoken is lost, whatever runs inside of these steps.
THEOREM GivesUpCorrectly == Spec => []GivesUpOnlyWhenStuck
<1>1. Init => GivesUpInv
    BY GivesUpInit
<1>2. GivesUpInv /\ [Next]_vars => GivesUpInv'
    BY GivesUpStep
<1>3. GivesUpInv => GivesUpOnlyWhenStuck
    BY GivesUpImplies
<1> QED BY <1>1, <1>2, <1>3, PTL DEF Spec

-----------------------------------------------------------------------------
(* TimersOnTime: the pending timers are sorted.                             *)

\* The clock and the expirations of timers do not go back.
LEMMA TimeIsMonotone ==
    ASSUME TypeOK, TimeMoves
    PROVE  /\ now \in Nat /\ now' \in Nat /\ now <= now'
           /\ \A t \in Timers : expires[t] # None => expires'[t] = expires[t]
<1>1. now \in 0..MaxNow /\ MaxNow \in Nat
    BY SchedulerAssumption DEF TypeOK
<1>2. expires \in [Timers -> (0..MaxNow) \union {None}]
    BY DEF TypeOK
<1>3. UNCHANGED now \/ now' \in now..MaxNow
    BY Zenon DEF TimeMoves, Sets
<1>4. \/ UNCHANGED expires
      \/ \E t \in Timers : \E e : expires[t] = None /\ expires' = [expires EXCEPT ![t] = e]
    BY Zenon DEF TimeMoves, Sets
<1>5. \A t \in Timers : expires[t] # None => expires'[t] = expires[t]
    BY <1>2, <1>4
<1>6. now \in Nat /\ now' \in Nat /\ now <= now'
    BY <1>1, <1>3
<1> QED BY <1>5, <1>6

LEMMA SortedStep ==
    ASSUME TypeOK, SortedInv, TimeMoves
    PROVE  SortedInv'
<1> DEFINE R == [id: Timers, expiration: 0..MaxNow]
<1>1. timers \in Seq(R)
    BY DEF TypeOK
<1>2. PICK n \in Nat : n = Len(timers) /\ DOMAIN timers = 1..n
    BY <1>1
<1>3. \A i \in 1..n : timers[i].id \in Timers /\ timers[i].expiration \in 0..MaxNow
    BY <1>1, <1>2, TimerRecords
<1>4. /\ \A i \in 1..n : timers[i].expiration = expires[timers[i].id]
      /\ \A i, j \in 1..n : i < j => timers[i].expiration <= timers[j].expiration
    BY <1>2 DEF SortedInv
<1>5. None \notin 0..MaxNow
    BY SchedulerAssumption
<1>6. \A i \in 1..n : expires'[timers[i].id] = timers[i].expiration
    BY <1>3, <1>4, <1>5, TimeIsMonotone
<1>7. CASE UNCHANGED timers
    <2>1. Len(timers') = n
        BY <1>2, <1>7
    <2> QED BY <1>4, <1>6, <1>7, <2>1, Zenon DEF SortedInv
<1>8. CASE timers' = <<>>
    <2>1. Len(timers') = 0
        BY <1>8
    <2> QED BY <2>1 DEF SortedInv
<1>9. CASE timers' = SubSeq(timers, end_ix + 1, Len(timers))
    <2>1. PICK k \in Nat : k = end_ix /\ k <= n
        BY <1>2, ExpiredPrefix
    <2>2. PICK q : q = SubSeq(timers, k + 1, n)
        OBVIOUS
    <2>3. Len(q) = n - k /\ \A i \in 1..(n - k) : q[i] = timers[i + k]
        BY <1>1, <1>2, <2>1, <2>2
    <2>4. \A i \in 1..(n - k) : i + k \in 1..n
        BY <2>1
    <2>5. \A i, j \in 1..(n - k) : i < j => i + k < j + k
        BY <2>1
    <2>6. timers' = q
        BY <1>2, <1>9, <2>1, <2>2
    <2>7. \A i \in 1..(n - k) : q[i].expiration = expires'[q[i].id]
        BY <1>6, <2>3, <2>4
    <2>8. \A i, j \in 1..(n - k) : i < j => q[i].expiration <= q[j].expiration
        BY <1>4, <2>3, <2>4, <2>5
    <2> QED BY <2>3, <2>6, <2>7, <2>8, Zenon DEF SortedInv
<1>10. ASSUME NEW t \in Timers, NEW e \in now..MaxNow, Sets(t, e) PROVE SortedInv'
    <2>0. e \in Nat /\ e \in 0..MaxNow
        <3>1. now \in 0..MaxNow /\ MaxNow \in Nat
            BY SchedulerAssumption DEF TypeOK
        <3> QED BY <3>1
    <2>1. PICK E : E = {i \in DOMAIN timers : timers[i].expiration <= e}
        OBVIOUS
    <2>2. E \subseteq 1..n /\ \A i \in E : \A j \in 1..i : j \in E
        <3>1. E \subseteq 1..n
            BY <1>2, <2>1
        <3>2. ASSUME NEW i \in E, NEW j \in 1..i PROVE j \in E
            <4>1. i \in 1..n /\ j \in 1..n /\ timers[i].expiration <= e
                BY <1>2, <2>1
            <4>2. timers[j].expiration <= timers[i].expiration
                <5>1. CASE i = j
                    BY <1>3, <4>1, <5>1
                <5>2. CASE j < i
                    BY <1>4, <4>1, <5>2
                <5> QED BY <4>1, <5>1, <5>2
            <4>3. timers[j].expiration <= e
                BY <1>3, <2>0, <4>1, <4>2
            <4> QED BY <1>2, <2>1, <4>1, <4>3
        <3> QED BY <3>1, <3>2
    <2>3. Cardinality(E) \in 0..n /\ E = 1..Cardinality(E)
        BY <2>2, PrefixSize
    <2>4. PICK p \in Nat : p = Cardinality(E) /\ p <= n /\ E = 1..p
        BY <2>3
    <2>5. PICK r \in R : r = [id |-> t, expiration |-> e] /\ r.id = t /\ r.expiration = e
        <3>1. PICK f : f = [id |-> t, expiration |-> e]
            OBVIOUS
        <3>2. f \in R /\ f.id = t /\ f.expiration = e
            BY <2>0, <3>1
        <3> QED BY <3>1, <3>2, Zenon
    <2>6. timers' = InsertAt(timers, p + 1, r) /\ expires'[t] = e
        <3>1. Place(e) = p + 1
            BY <2>1, <2>4 DEF Place
        <3>2. timers' = InsertAt(timers, p + 1, r)
            BY <1>10, <2>5, <3>1 DEF Sets
        <3>3. expires \in [Timers -> (0..MaxNow) \union {None}]
            BY DEF TypeOK
        <3> QED BY <1>10, <3>2, <3>3 DEF Sets
    <2>7. PICK q : q = timers'
        OBVIOUS
    <2>8. /\ Len(q) = n + 1 /\ q[p + 1] = r
          /\ \A j \in 1..n : j < p + 1 => q[j] = timers[j]
          /\ \A j \in 1..n : j >= p + 1 => q[j + 1] = timers[j]
        <3>1. p + 1 \in 1..(Len(timers) + 1)
            BY <1>2, <2>4
        <3>2. PICK k \in 1..(Len(timers) + 1) : k = p + 1
            BY <3>1
        <3>3. q = InsertAt(timers, k, r)
            BY <2>6, <2>7, <3>2
        <3> HIDE DEF R
        <3>4. r \in R /\ timers \in Seq(R)
            BY <1>1
        <3>5. /\ Len(q) = Len(timers) + 1 /\ q[k] = r
              /\ \A j \in 1..Len(timers) : j < k => q[j] = timers[j]
              /\ \A j \in 1..Len(timers) : j >= k => q[j + 1] = timers[j]
            BY <3>3, <3>4, InsertAtProperties
        <3> QED BY <1>2, <3>2, <3>5, Zenon
    <2>9. \A i \in 1..(n + 1) :
              \/ i < p + 1 /\ i \in 1..n /\ q[i] = timers[i]
              \/ i = p + 1 /\ q[i] = r
              \/ i > p + 1 /\ i - 1 \in 1..n /\ q[i] = timers[i - 1]
        <3> SUFFICES ASSUME NEW i \in 1..(n + 1)
                     PROVE  \/ i < p + 1 /\ i \in 1..n /\ q[i] = timers[i]
                            \/ i = p + 1 /\ q[i] = r
                            \/ i > p + 1 /\ i - 1 \in 1..n /\ q[i] = timers[i - 1]
            OBVIOUS
        <3>1. CASE i < p + 1
            BY <2>4, <2>8, <3>1
        <3>2. CASE i > p + 1
            <4>1. PICK j \in 1..n : j = i - 1 /\ j >= p + 1 /\ i = j + 1
                BY <2>4, <3>2
            <4> QED BY <2>8, <3>2, <4>1
        <3> QED BY <2>4, <2>8, <3>1, <3>2
    <2>10. \A i \in 1..n : (i <= p => timers[i].expiration <= e)
                        /\ (i > p => timers[i].expiration > e)
        <3> SUFFICES ASSUME NEW i \in 1..n
                     PROVE  (i <= p => timers[i].expiration <= e)
                            /\ (i > p => timers[i].expiration > e)
            OBVIOUS
        <3>1. i \in E <=> i <= p
            <4>1. i \in 1..p <=> i <= p
                BY <2>4
            <4> QED BY <2>4, <4>1, Zenon
        <3>2. i \in E <=> timers[i].expiration <= e
            BY <1>2, <2>1
        <3> QED BY <1>3, <2>0, <2>4, <3>1, <3>2
    <2>11. \A i \in 1..(n + 1) : q[i].expiration = expires'[q[i].id]
        BY <1>6, <2>5, <2>6, <2>9
    <2>12. ASSUME NEW i \in 1..(n + 1), NEW j \in 1..(n + 1), i < j
           PROVE  q[i].expiration <= q[j].expiration
        <3>1. CASE i < p + 1
            <4>1. i \in 1..n /\ q[i] = timers[i]
                BY <2>9, <3>1, <2>4
            <4>2. CASE j < p + 1
                BY <1>4, <2>4, <2>9, <2>12, <4>1, <4>2
            <4>3. CASE j = p + 1
                <5>1. i <= p
                    BY <2>4, <3>1
                <5>2. timers[i].expiration <= e
                    BY <2>10, <4>1, <5>1
                <5>3. q[j].expiration = e
                    BY <2>5, <2>8, <4>3, Zenon
                <5> QED BY <4>1, <5>2, <5>3
            <4>4. CASE j > p + 1
                <5>1. j - 1 \in 1..n /\ q[j] = timers[j - 1] /\ i < j - 1
                    BY <2>4, <2>9, <3>1, <4>4
                <5> QED BY <1>4, <4>1, <5>1
            <4> QED BY <2>4, <4>2, <4>3, <4>4
        <3>2. CASE i = p + 1
            <4>0. j > p + 1 /\ j - 1 > p
                <5>1. \A a, b, c \in Nat : a = b + 1 /\ a < c => c > b + 1 /\ c - 1 > b
                    OBVIOUS
                <5>2. i \in Nat /\ j \in Nat /\ p \in Nat
                    BY <2>4
                <5> QED BY <2>12, <3>2, <5>1, <5>2, Zenon
            <4>1. j - 1 \in 1..n /\ q[j] = timers[j - 1] /\ j - 1 > p
                BY <2>4, <2>9, <4>0
            <4>2. timers[j - 1].expiration > e /\ timers[j - 1].expiration \in 0..MaxNow
                BY <1>3, <2>10, <4>1
            <4>3. q[i].expiration = e
                BY <2>5, <2>8, <3>2, Zenon
            <4>4. \A x \in 0..MaxNow : x > e => e <= x
                BY <2>0, SchedulerAssumption
            <4>5. e <= timers[j - 1].expiration
                BY <4>2, <4>4, Zenon
            <4> QED BY <4>1, <4>3, <4>5, Zenon
        <3>3. CASE i > p + 1
            <4>1. /\ i - 1 \in 1..n /\ q[i] = timers[i - 1]
                  /\ j - 1 \in 1..n /\ q[j] = timers[j - 1] /\ i - 1 < j - 1
                BY <2>4, <2>9, <2>12, <3>3
            <4> QED BY <1>4, <4>1
        <3> QED BY <2>4, <3>1, <3>2, <3>3
    <2> QED BY <2>7, <2>8, <2>11, <2>12, Zenon DEF SortedInv
<1> QED BY <1>7, <1>8, <1>9, <1>10, Zenon DEF TimeMoves

LEMMA ExpiredStays ==
    ASSUME TypeOK, TimeMoves, NEW t \in Timers, Expired(t)
    PROVE  Expired(t)'
<1>1. /\ now \in Nat /\ now' \in Nat /\ now <= now'
      /\ expires[t] # None => expires'[t] = expires[t]
    BY TimeIsMonotone
<1>2. expires[t] # None /\ expires[t] <= now
    BY DEF Expired
<1>3. expires[t] \in Nat
    <2>1. expires \in [Timers -> (0..MaxNow) \union {None}]
        BY DEF TypeOK
    <2> QED BY <1>2, <2>1
<1>4. expires'[t] = expires[t] /\ expires[t] <= now'
    BY <1>1, <1>2, <1>3
<1> QED BY <1>2, <1>4 DEF Expired

\* Only these take a step while timers elapse.
LEMMA ElapseActions ==
    ASSUME [Next]_vars, Top.kind = "elapse"
    PROVE  UNCHANGED vars \/ IoCompletes \/ DropElapsed
<1>1. Top.kind \notin {"test", "task", "drain_tasks", "block"} \union Loops
    BY DEF Loops
<1>2. ~InUserCode /\ ~Call
    BY <1>1 DEF InUserCode, Call
<1>3. ~UserCall
    BY <1>1, <1>2, Zenon DEF UserCall, Spawn, timer, block, tick, SetParking, StartRun,
       StartAdvance, StartDrain, Start
<1>4. ~TaskReturns
    BY <1>1, Zenon DEF TaskReturns, YieldNow, Await, Finish
<1>5. ~end_test /\ ~LoopStep /\ ~DrainTake /\ ~DrainDrop
    BY <1>1, Zenon DEF end_test, LoopStep, DrainTake, DrainDrop
<1>6. ~LoopIdle
    BY <1>1 DEF LoopIdle, Loops
<1>7. \A p : ~InBlock(p)
    BY <1>1, Zenon DEF InBlock
<1>8. /\ ~BlockPoll /\ ~BlockStep /\ ~BlockStepIdle /\ ~BlockCoinDown /\ ~BlockSwap
      /\ ~BlockIdle /\ ~Park /\ ~ParkDeadline
    BY <1>7, Zenon DEF BlockPoll, BlockStep, BlockStepIdle, BlockCoinDown, BlockSwap,
       BlockIdle, Park, ParkDeadline
<1> QED BY <1>3, <1>4, <1>5, <1>6, <1>8, Zenon DEF Next, Terminated, SchedulerStep

\* Only these take a step while advance_clock is at the top.
LEMMA AdvanceActions ==
    ASSUME [Next]_vars, Top.kind = "advance_clock"
    PROVE  UNCHANGED vars \/ IoCompletes \/ LoopStep \/ LoopIdle
<1>1. Top.kind \notin {"test", "task", "drain_tasks", "block", "elapse"}
    OBVIOUS
<1>2. ~InUserCode /\ ~Call
    BY <1>1 DEF InUserCode, Call
<1>3. ~UserCall
    BY <1>1, <1>2, Zenon DEF UserCall, Spawn, timer, block, tick, SetParking, StartRun,
       StartAdvance, StartDrain, Start
<1>4. ~TaskReturns
    BY <1>1, Zenon DEF TaskReturns, YieldNow, Await, Finish
<1>5. ~end_test /\ ~DropElapsed /\ ~DrainTake /\ ~DrainDrop
    BY <1>1, Zenon DEF end_test, DropElapsed, DrainTake, DrainDrop
<1>6. \A p : ~InBlock(p)
    BY <1>1, Zenon DEF InBlock
<1>7. /\ ~BlockPoll /\ ~BlockStep /\ ~BlockStepIdle /\ ~BlockCoinDown /\ ~BlockSwap
      /\ ~BlockIdle /\ ~Park /\ ~ParkDeadline
    BY <1>6, Zenon DEF BlockPoll, BlockStep, BlockStepIdle, BlockCoinDown, BlockSwap,
       BlockIdle, Park, ParkDeadline
<1> QED BY <1>3, <1>4, <1>5, <1>7, Zenon DEF Next, Terminated, SchedulerStep

\* What is left of an elapse frame.
LEMMA ElapseGoesOn ==
    ASSUME TypeOK, ShapeInv, [Next]_vars, Top.kind = "elapse",
           Len(stack) \in 1..Len(stack')
    PROVE  LET g == stack'[Len(stack)]
           IN  g = Top \/ g.elapsed = Tail(Top.elapsed)
<1>1. /\ Top = stack[Len(stack)] /\ Len(stack) \in Nat /\ Len(stack) >= 1
      /\ Top \in Frames
    BY TopFrame DEF ShapeInv
<1>2. CASE UNCHANGED vars
    BY <1>1, <1>2 DEF vars
<1>3. CASE IoCompletes
    <2>1. complete(Io, stack) /\ Io \in Events
        BY <1>3, IoCompletesIo DEF Events
    <2>2. stack \in Seq(Frames)
        BY DEF TypeOK
    <2>3. \A n \in 1..Len(stack) : Woken(stack[n], stack'[n])
        BY <2>1, <2>2, CompleteStack
    <2>4. Woken(Top, stack'[Len(stack)])
        BY <1>1, <2>3
    <2>5. Top.kind # "block"
        OBVIOUS
    <2> QED BY <1>1, <2>4, <2>5, WokenFrame
<1>4. CASE DropElapsed
    <2>1. ~Returns
        BY <1>1 DEF Returns
    <2> QED BY <1>4, <2>1, DropElapsedMoves
<1> QED BY <1>2, <1>3, <1>4, ElapseActions

LEMMA ElapsedStep ==
    ASSUME TypeOK, TypeOK', ShapeInv, SortedInv, ElapsedInv, Moves, TimeMoves, [Next]_vars
    PROVE  ElapsedInv'
<1> SUFFICES ASSUME NEW n \in 1..Len(stack'), stack'[n].kind = "elapse",
                    NEW i \in 1..Len(stack'[n].elapsed)
             PROVE  Expired(stack[n].elapsed[i])'
    BY Zenon DEF ElapsedInv
<1>1. Len(stack) \in Nat /\ Len(stack) >= 1 /\ Top = stack[Len(stack)] /\ Top \in Frames
    BY TopFrame DEF ShapeInv
<1>2. stack'[n].elapsed \in Seq(Timers)
    <2>1. stack' \in Seq(Frames)
        BY DEF TypeOK
    <2>2. stack'[n] \in Frames
        BY <2>1
    <2> QED BY <2>2, FrameFields
<1>3. PICK t \in Timers : t = stack'[n].elapsed[i]
    BY <1>2
<1>4. SUFFICES Expired(t)
    <2>1. Expired(t)'
        BY <1>4, ExpiredStays
    <2> QED BY <1>3, <2>1 DEF Expired
<1>5. CASE n \in 1..Len(stack) /\ Same(stack[n], stack'[n])
    <2>1. stack[n].kind = "elapse"
        BY <1>5 DEF Same
    <2>2. n = Len(stack)
        <3>1. n \notin 1..(Len(stack) - 1)
            BY <2>1 DEF ShapeInv, Loops
        <3> QED BY <1>1, <1>5, <3>1
    <2>3. Top.kind = "elapse" /\ Top.elapsed \in Seq(Timers) /\ Top.elapsed # <<>>
        BY <1>1, <2>1, <2>2, FrameFields
    <2>4. \A k \in 1..Len(Top.elapsed) : Expired(Top.elapsed[k])
        BY <1>1, <1>5, <2>1, <2>2 DEF ElapsedInv
    <2>5. stack'[n] = Top \/ stack'[n].elapsed = Tail(Top.elapsed)
        BY <2>2, <2>3, ElapseGoesOn
    <2>6. CASE stack'[n] = Top
        BY <1>3, <2>4, <2>6
    <2>7. CASE stack'[n].elapsed = Tail(Top.elapsed)
        <3>1. PICK l \in Seq(Timers) : l = Top.elapsed /\ l # <<>>
            BY <2>3
        <3>2. i \in 1..Len(Tail(l)) /\ t = Tail(l)[i]
            BY <1>3, <2>7, <3>1
        <3>3. i + 1 \in 1..Len(l) /\ Tail(l)[i] = l[i + 1]
            BY <3>1, <3>2
        <3> QED BY <2>4, <3>1, <3>2, <3>3
    <2> QED BY <2>5, <2>6, <2>7
<1>6. CASE n = Len(stack) + 1
    <2>1. Len(stack') # Len(stack) /\ Len(stack') # Len(stack) - 1
        BY <1>1, <1>6
    <2>2. PICK f \in Frames : Calls(f)
        BY <2>1 DEF Moves, GoesOn, Returns
    <2>3. stack'[n] = f /\ f.kind = "elapse" /\ Called(f)
        BY <1>6, <2>2 DEF Calls
    <2>4. Elapses(f)
        BY <2>3 DEF Called, Loops
    <2>5. i \in 1..end_ix /\ t = timers[i].id
        BY <1>3, <2>3, <2>4 DEF Elapses
    <2>6. end_ix \in 0..Len(timers) /\ timers[i].expiration <= now
        BY <2>5, ExpiredPrefix
    <2>7. i \in 1..Len(timers)
        <3>1. Len(timers) \in Nat
            <4>1. timers \in Seq([id: Timers, expiration: 0..MaxNow])
                BY DEF TypeOK
            <4> QED BY <4>1
        <3> QED BY <2>5, <2>6, <3>1
    <2>8. timers[i].expiration = expires[t] /\ timers[i].expiration \in 0..MaxNow
        <3>1. timers \in Seq([id: Timers, expiration: 0..MaxNow])
            BY DEF TypeOK
        <3> QED BY <2>5, <2>7, <3>1, TimerRecords DEF SortedInv
    <2>9. expires[t] # None
        BY <2>8, SchedulerAssumption
    <2> QED BY <2>6, <2>8, <2>9 DEF Expired
<1> QED BY <1>5, <1>6, KindsAfter

TimersInv == Base /\ SortedInv /\ ElapsedInv

LEMMA TimersInit ==
    ASSUME Init
    PROVE  TimersInv
<1>1. Base
    BY BaseInit
<1>2. stack = <<[kind |-> "test"]>> /\ timers = <<>>
    BY DEF Init
<1>3. Len(timers) = 0 /\ Len(stack) = 1 /\ stack[1].kind = "test"
    BY <1>2
<1>4. SortedInv
    BY <1>3 DEF SortedInv
<1>5. ElapsedInv
    BY <1>3 DEF ElapsedInv
<1> QED BY <1>1, <1>4, <1>5 DEF TimersInv

LEMMA TimersStep ==
    ASSUME TimersInv, [Next]_vars
    PROVE  TimersInv'
<1>1. Base /\ SortedInv /\ ElapsedInv /\ TypeOK /\ ShapeInv
    BY DEF TimersInv, Base
<1>2. Base' /\ Moves /\ TimeMoves
    BY <1>1, BaseStep
<1>3. TypeOK'
    BY <1>2 DEF Base
<1> QED BY <1>1, <1>2, <1>3, SortedStep, ElapsedStep DEF TimersInv

\* A timer completes when it has expired, or when drain_tasks drops it.
LEMMA NotEarly ==
    ASSUME TypeOK, ShapeInv, ElapsedInv, [Next]_vars, NEW t \in Timers, t \in done' \ done
    PROVE  Top.kind = "drain_tasks" \/ expires[t] <= now
<1>1. /\ Top = stack[Len(stack)] /\ Len(stack) \in Nat /\ Len(stack) >= 1
      /\ Top \in Frames
    BY TopFrame DEF ShapeInv
<1>2. CASE IoCompletes
    <2>1. done' = done \union {Io}
        BY <1>2, IoCompletesIo, CompletesDone
    <2> QED BY <2>1, NoneIsNoEvent
<1>3. CASE Finish
    <2>1. Top.task \in Tasks /\ done' = done \union {Top.task}
        BY <1>3, FinishCompletes, CompletesDone
    <2> QED BY <2>1, NoneIsNoEvent
<1>4. CASE DropElapsed
    <2>1. done' = done \union {Head(Top.elapsed)}
        BY <1>4, ElapsedCompletes, CompletesDone
    <2>2. Top.kind = "elapse" /\ Top.elapsed \in Seq(Timers) /\ Top.elapsed # <<>>
        BY <1>1, <1>4, FrameFields DEF DropElapsed
    <2>3. 1 \in 1..Len(Top.elapsed) /\ Head(Top.elapsed) = Top.elapsed[1]
        BY <2>2
    <2>4. Expired(Top.elapsed[1])
        BY <1>1, <2>2, <2>3 DEF ElapsedInv
    <2> QED BY <2>1, <2>3, <2>4 DEF Expired
<1>5. CASE DrainDrop
    BY <1>5 DEF DrainDrop
<1> QED BY <1>2, <1>3, <1>4, <1>5, DoneBy

\* advance_clock returns after its target, when nothing is left to do.
LEMMA NotLate ==
    ASSUME TypeOK, ShapeInv, SortedInv, [Next]_vars, Top.kind = "advance_clock",
           Len(stack') < Len(stack)
    PROVE  /\ now' >= Top.until
           /\ \A i \in DOMAIN timers' : timers'[i].expiration > now'
           /\ candidate_indices(FALSE)' = {}
<1>1. /\ Top = stack[Len(stack)] /\ Len(stack) \in Nat /\ Len(stack) >= 1
      /\ Top \in Frames
    BY TopFrame DEF ShapeInv
<1>2. ~GoesOn /\ \A f \in Frames : ~Calls(f)
    BY <1>1 DEF GoesOn, Calls
<1>3. LoopIdle
    <2>1. ~IoCompletes
        BY <1>2, IoMoves
    <2>2. ~LoopStep
        BY <1>2, LoopMoves
    <2>3. ~UNCHANGED vars
        BY <1>1 DEF vars
    <2> QED BY <2>1, <2>2, <2>3, AdvanceActions
<1>4. ~UNCHANGED stack
    BY <1>1
<1>5. ~due_by(Top.until) /\ now' = Max({now, Top.until})
    <2>1. Top.kind # "run" /\ Top.kind # "run_with_clock_advancement"
        OBVIOUS
    <2> QED BY <1>3, <1>4, <2>1, Zenon DEF LoopIdle
<1>6. /\ end_ix = 0 /\ candidate_indices(FALSE) = {}
      /\ UNCHANGED <<runnables, timers, blocked_sessions, session>>
    BY <1>3 DEF LoopIdle, Idle, tasks
<1>7. candidate_indices(FALSE)' = {}
    BY <1>6, CandidatesUnchanged
<1>8. now \in Nat /\ Top.until \in Nat /\ now \in 0..MaxNow
    <2>1. now \in 0..MaxNow /\ MaxNow \in Nat
        BY SchedulerAssumption DEF TypeOK
    <2>2. Top.until \in 0..MaxNow
        BY <1>1, FrameFields
    <2> QED BY <2>1, <2>2
<1>9. now' \in {now, Top.until} /\ now' >= now /\ now' >= Top.until
    BY <1>5, <1>8, MaxOfTwo
<1>10. ASSUME NEW i \in DOMAIN timers PROVE timers[i].expiration > now'
    <2>1. timers \in Seq([id: Timers, expiration: 0..MaxNow])
        BY DEF TypeOK
    <2>2. i \in 1..Len(timers) /\ 1 \in 1..Len(timers) /\ timers # <<>>
        BY <2>1
    <2>3. timers[1].expiration \in Nat /\ timers[i].expiration \in Nat
        <3>1. timers[1].expiration \in 0..MaxNow /\ timers[i].expiration \in 0..MaxNow
            BY <2>1, <2>2, TimerRecords
        <3> QED BY <3>1
    <2>4. ~(timers[1].expiration <= now)
        BY <1>6, <2>2, ExpiredPrefix
    <2>5. ~(timers[1].expiration <= Top.until)
        BY <1>5, <2>2, Zenon DEF due_by
    <2>6. timers[1].expiration <= timers[i].expiration
        <3>1. CASE i = 1
            BY <2>3, <3>1
        <3>2. CASE 1 < i
            BY <2>2, <3>2 DEF SortedInv
        <3> QED BY <2>2, <3>1, <3>2
    <2> QED BY <1>8, <1>9, <2>3, <2>4, <2>5, <2>6
<1>11. \A i \in DOMAIN timers' : timers'[i].expiration > now'
    BY <1>6, <1>10
<1> QED BY <1>7, <1>9, <1>11

OnTime ==
    /\ \A t \in Timers : t \in done' \ done =>
          Top.kind = "drain_tasks" \/ expires[t] <= now
    /\ Top.kind = "advance_clock" /\ Len(stack') < Len(stack) =>
          /\ now' >= Top.until
          /\ \A i \in DOMAIN timers' : timers'[i].expiration > now'
          /\ candidate_indices(FALSE)' = {}

LEMMA TimersHold == Spec => []TimersInv
<1>1. Init => TimersInv
    BY TimersInit
<1>2. TimersInv /\ [Next]_vars => TimersInv'
    BY TimersStep
<1> QED BY <1>1, <1>2, PTL DEF Spec

\* A timer fires when the clock has reached its expiration and not before
\* (except for what drain_tasks drops), and advance_clock returns when the
\* clock has reached its target with no expired timer and no runnable left -
\* also when the tasks that it ran created timers, advanced the clock or
\* blocked.
THEOREM TimersAreOnTime == Spec => TimersOnTime
<1>1. ASSUME TimersInv, [Next]_vars PROVE OnTime
    <2>1. TypeOK /\ ShapeInv /\ SortedInv /\ ElapsedInv
        BY <1>1 DEF TimersInv, Base
    <2>2. \A t \in Timers : t \in done' \ done =>
              Top.kind = "drain_tasks" \/ expires[t] <= now
        BY <1>1, <2>1, NotEarly
    <2>3. Top.kind = "advance_clock" /\ Len(stack') < Len(stack) =>
              /\ now' >= Top.until
              /\ \A i \in DOMAIN timers' : timers'[i].expiration > now'
              /\ candidate_indices(FALSE)' = {}
        BY <1>1, <2>1, NotLate
    <2> QED BY <2>2, <2>3 DEF OnTime
<1>2. TimersInv /\ [Next]_vars => [OnTime]_vars
    BY <1>1
<1>3. [OnTime]_vars <=>
        [/\ \A t \in Timers : t \in done' \ done =>
              Top.kind = "drain_tasks" \/ expires[t] <= now
         /\ Top.kind = "advance_clock" /\ Len(stack') < Len(stack) =>
              /\ now' >= Top.until
              /\ \A i \in DOMAIN timers' : timers'[i].expiration > now'
              /\ candidate_indices(FALSE)' = {}]_vars
    BY DEF OnTime
<1> QED BY <1>2, <1>3, TimersHold, PTL DEF Spec, TimersOnTime

=============================================================================
