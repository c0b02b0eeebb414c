-------------------------- MODULE AppEffectsProofs --------------------------
(***************************************************************************)
(* Proofs about AppEffects for any entities, globals, windows and bounds.  *)
(***************************************************************************)
EXTENDS AppEffects, FiniteSetTheorems, SequenceTheorems, WellFoundedInduction, TLAPS

\* The frame at depth d, the outermost at depth 1.
At(d) == stack[Len(stack) + 1 - d]

UpdateFlush == [k |-> "flush", by |-> "update"]

\* The depths of the frames that pending_updates counts.
Counted == {d \in 1..Len(stack) : At(d).k = "update" \/ At(d) = UpdateFlush}

\* The flags of App describe the stack: pending_updates counts the updates that
\* have not finished, the one that flushes included, and flushing_effects is set
\* while there is such a flush.  Callbacks are never outermost, quit observers are.
StackInv ==
    /\ panicked => stack = <<>>
    /\ ~panicked =>
         /\ stack # <<>> => At(1).k \in {"update", "flush", "quit"}
         /\ \A d \in 2..Len(stack) : At(d).k # "quit"
         /\ flushingEffects <=> \E d \in 1..Len(stack) : At(d) = UpdateFlush
         /\ \A c, d \in 1..Len(stack) : At(c) = UpdateFlush /\ At(d) = UpdateFlush => c = d
         /\ pendingUpdates = Cardinality(Counted)

\* Without a shutdown: updates only, or a flush with one delivery, release or
\* effect on it, whose callbacks and their updates come above.
Shape ==
    ~panicked =>
        /\ ~flushingEffects => \A d \in 1..Len(stack) : At(d).k = "update"
        /\ flushingEffects =>
             /\ stack # <<>> /\ At(1).k = "flush"
             /\ \A d \in 2..Len(stack) : At(d).k # "flush" /\ At(d).k # "quit"
             /\ \A d \in 3..Len(stack) : At(d).k \in {"call", "update"}

\* Until its EntityCreated is applied the effect is in the queue, with a handle.
CreatedInv ==
    panicked \/ \A e \in Entities : life[e] # "none" =>
        \/ e \in announced
        \/ \E i \in DOMAIN pendingEffects :
              pendingEffects[i].k = "created" /\ pendingEffects[i].key = e

\* Observers that are owed a call are active observers.
OwedInv ==
    \A s \in owed : subs[s].kind = "observer" /\ subs[s].st = "active"

\* The activation of an inert subscriber is queued.
InertInv ==
    \A s \in DOMAIN subs : subs[s].st = "inactive" =>
        \E i \in DOMAIN pendingEffects :
            pendingEffects[i].k = "activate" /\ pendingEffects[i].sub = s

\* The event is queued, and before it the activation of an inert listener s.
Promised(s, event) ==
    \E i \in DOMAIN pendingEffects :
        /\ pendingEffects[i].k = "emit" /\ pendingEffects[i].event = event
        /\ pendingEffects[i].key = subs[s].key
        /\ subs[s].st = "inactive" =>
             \E j \in DOMAIN pendingEffects :
                j < i /\ pendingEffects[j].k = "activate" /\ pendingEffects[j].sub = s

\* A listener is owed events that are queued, or being delivered to it.
EventKept(s, event) ==
    /\ subs[s].kind = "listener" /\ subs[s].st # "gone"
    /\ Promised(s, event) \/ (ToVisit(s, event) /\ subs[s].st = "active")

EventInv == \A x \in eventsOwed : EventKept(x[1], x[2])

FramesOf(s) == {s[i] : i \in DOMAIN s}

\* Queued events are in order, and later than the one that is delivered.
OrderInv ==
    /\ \A i \in DOMAIN pendingEffects : pendingEffects[i].k = "emit" =>
         /\ pendingEffects[i].event <= events
         /\ \A j \in DOMAIN pendingEffects :
               pendingEffects[j].k = "emit" /\ i < j =>
                   pendingEffects[i].event < pendingEffects[j].event
    /\ \A f \in FramesOf(stack) : f.k = "deliver" =>
         /\ f.event <= events
         /\ \A i \in DOMAIN pendingEffects : pendingEffects[i].k = "emit" =>
               f.event < pendingEffects[i].event

-----------------------------------------------------------------------------
(* Frames and effects.                                                      *)

\* The fields that a frame has.
LEMMA FrameFields ==
    ASSUME NEW f \in Frame
    PROVE  /\ f.k \in {"update", "call", "quit", "deliver", "release", "flush"}
           /\ f.k \in {"update", "call"} => f.key \in Entities \union {None}
           /\ f.k = "update" => f.window \in Windows \union {None}
           /\ f.k = "deliver" => /\ f.key \in Keys /\ f.event \in 0..MaxEvents
                                 /\ f.taken \subseteq 1..MaxSubs
                                 /\ f.rest \subseteq 1..MaxSubs
           /\ f.k = "release" => f.rest \subseteq Entities
           /\ f.k = "flush" => f.by \in {"update", "shutdown"}
BY DEF Frame

\* The frames that the actions push.
LEMMA FramesMade ==
    /\ \A key \in Entities \union {None}, w \in Windows \union {None} :
          [k |-> "update", key |-> key, window |-> w] \in Frame
    /\ \A key \in Entities \union {None} : [k |-> "call", key |-> key] \in Frame
    /\ [k |-> "quit"] \in Frame
    /\ \A key \in Keys, event \in 0..MaxEvents, taken, rest \in SUBSET (1..MaxSubs) :
          [k |-> "deliver", key |-> key, event |-> event, taken |-> taken, rest |-> rest] \in Frame
    /\ \A rest \in SUBSET Entities : [k |-> "release", rest |-> rest] \in Frame
    /\ \A by \in {"update", "shutdown"} : [k |-> "flush", by |-> by] \in Frame
BY DEF Frame

\* The frames that the actions change in place.
LEMMA FramesChanged ==
    ASSUME NEW f \in Frame
    PROVE  /\ f.k = "update" => /\ [f EXCEPT !.window = None] \in Frame
                                /\ [f EXCEPT !.window = None].k = "update"
                                /\ [f EXCEPT !.window = None].key = f.key
           /\ \A s : f.k = "deliver" => /\ [f EXCEPT !.rest = @ \ {s}] \in Frame
                                        /\ [f EXCEPT !.rest = @ \ {s}].k = "deliver"
                                        /\ [f EXCEPT !.rest = @ \ {s}].rest = f.rest \ {s}
                                        /\ [f EXCEPT !.rest = @ \ {s}].key = f.key
                                        /\ [f EXCEPT !.rest = @ \ {s}].event = f.event
                                        /\ [f EXCEPT !.rest = @ \ {s}].taken = f.taken
BY DEF Frame

\* The fields that an effect has.
LEMMA EffectFields ==
    ASSUME NEW f \in Effect
    PROVE  /\ f.k \in {"notify", "emit", "activate", "defer", "created"}
           /\ f.k = "notify" => f.key \in Keys
           /\ f.k = "emit" => f.key \in Entities /\ f.event \in 1..MaxEvents
           /\ f.k = "activate" => f.sub \in 1..MaxSubs
           /\ f.k = "created" => f.key \in Entities /\ f.window \in Windows \union {None}
BY DEF Effect

\* The effects that user code queues.
LEMMA EffectsMade ==
    /\ \A key \in Keys : [k |-> "notify", key |-> key] \in Effect
    /\ \A key \in Entities, event \in 1..MaxEvents :
          [k |-> "emit", key |-> key, event |-> event] \in Effect
    /\ \A s \in 1..MaxSubs : [k |-> "activate", sub |-> s] \in Effect
    /\ [k |-> "defer"] \in Effect
    /\ \A key \in Entities, w \in Windows \union {None} :
          [k |-> "created", key |-> key, window |-> w] \in Effect
BY DEF Effect

-----------------------------------------------------------------------------
(* The stack, by depth.                                                     *)

\* The frame below which there are d - 1 others.
LEMMA AtProperties ==
    ASSUME stack \in Seq(Frame)
    PROVE  /\ Len(stack) \in Nat
           /\ \A d \in 1..Len(stack) : At(d) \in Frame
           /\ stack # <<>> => Len(stack) > 0 /\ Head(stack) \in Frame /\ Head(stack) = stack[1]
           /\ \A d : d = Len(stack) /\ stack # <<>> => At(d) = Head(stack)
<1>1. Len(stack) \in Nat /\ (stack # <<>> => Len(stack) > 0)
    BY LenProperties, EmptySeq
<1>2. \A d \in 1..Len(stack) : At(d) \in Frame
  <2> SUFFICES ASSUME NEW d \in 1..Len(stack) PROVE At(d) \in Frame
      OBVIOUS
  <2>1. Len(stack) + 1 - d \in 1..Len(stack)
      BY <1>1
  <2>2. QED
      BY <2>1, ElementOfSeq DEF At
<1>3. stack # <<>> => Head(stack) \in Frame /\ Head(stack) = stack[1]
    BY HeadTailProperties
<1>4. \A d : d = Len(stack) /\ stack # <<>> => At(d) = Head(stack)
    BY <1>1, <1>3 DEF At
<1>5. QED
    BY <1>1, <1>2, <1>3, <1>4

\* A frame is pushed.
LEMMA PushFrame ==
    ASSUME stack \in Seq(Frame), NEW f \in Frame, stack' = <<f>> \o stack
    PROVE  /\ stack' \in Seq(Frame) /\ stack' # <<>> /\ Len(stack') = Len(stack) + 1
           /\ \A d \in 1..Len(stack) : At(d)' = At(d)
           /\ \A d : d = Len(stack) + 1 => At(d)' = f
<1>1. <<f>> \in Seq(Frame) /\ Len(<<f>>) = 1 /\ <<f>>[1] = f
    OBVIOUS
<1>2. Len(stack) \in Nat
    BY LenProperties
<1>3. /\ stack' \in Seq(Frame) /\ Len(stack') = Len(stack) + 1
      /\ \A i \in 1..Len(stack) + 1 : stack'[i] = IF i <= 1 THEN f ELSE stack[i - 1]
  <2>1. Len(<<f>> \o stack) = 1 + Len(stack) /\ <<f>> \o stack \in Seq(Frame)
      BY <1>1, ConcatProperties
  <2>2. \A i \in 1..1 + Len(stack) :
           (<<f>> \o stack)[i] = IF i <= 1 THEN <<f>>[i] ELSE stack[i - 1]
      BY <1>1, ConcatProperties
  <2>3. QED
      BY <1>1, <1>2, <2>1, <2>2
<1>4. \A d \in 1..Len(stack) : At(d)' = At(d)
  <2> SUFFICES ASSUME NEW d \in 1..Len(stack) PROVE At(d)' = At(d)
      OBVIOUS
  <2>1. At(d)' = stack'[Len(stack) + 2 - d]
      BY <1>2, <1>3 DEF At
  <2>2. stack'[Len(stack) + 2 - d] = stack[Len(stack) + 1 - d]
      BY <1>2, <1>3
  <2>3. QED
      BY <2>1, <2>2 DEF At
<1>5. \A d : d = Len(stack) + 1 => At(d)' = f
    BY <1>2, <1>3 DEF At
<1>6. QED
    BY <1>2, <1>3, <1>4, <1>5, EmptySeq

\* The top frame returns.
LEMMA PopFrame ==
    ASSUME stack \in Seq(Frame), stack # <<>>, stack' = Tail(stack)
    PROVE  /\ stack' \in Seq(Frame) /\ Len(stack') = Len(stack) - 1
           /\ \A d \in 1..Len(stack) - 1 : At(d)' = At(d)
<1>1. /\ stack' \in Seq(Frame) /\ Len(stack') = Len(stack) - 1 /\ Len(stack) \in Nat
      /\ \A i \in 1..Len(stack') : stack'[i] = stack[i + 1]
    BY HeadTailProperties, LenProperties
<1>2. ASSUME NEW d \in 1..Len(stack) - 1 PROVE At(d)' = At(d)
  <2>1. At(d)' = stack'[Len(stack) - d]
      BY <1>1 DEF At
  <2>2. Len(stack) - d \in 1..Len(stack') /\ (Len(stack) - d) + 1 = Len(stack) + 1 - d
      BY <1>1
  <2>3. stack'[Len(stack) - d] = stack[(Len(stack) - d) + 1]
      BY <1>1, <2>2
  <2>4. QED
      BY <2>1, <2>2, <2>3 DEF At
<1>3. QED
    BY <1>1, <1>2

\* The top frame is replaced.
LEMMA ReplaceFrame ==
    ASSUME stack \in Seq(Frame), stack # <<>>, NEW f \in Frame, stack' = <<f>> \o Tail(stack)
    PROVE  /\ stack' \in Seq(Frame) /\ stack' # <<>> /\ Len(stack') = Len(stack)
           /\ \A d \in 1..Len(stack) - 1 : At(d)' = At(d)
           /\ \A d : d = Len(stack) => At(d)' = f
<1>1. /\ Tail(stack) \in Seq(Frame) /\ Len(Tail(stack)) = Len(stack) - 1
      /\ Len(stack) \in Nat /\ Len(stack) > 0
      /\ \A i \in 1..Len(stack) - 1 : Tail(stack)[i] = stack[i + 1]
    BY HeadTailProperties, LenProperties, EmptySeq
<1>2. /\ stack' \in Seq(Frame) /\ Len(stack') = Len(stack)
      /\ \A i \in 1..Len(stack) : stack'[i] = IF i <= 1 THEN f ELSE stack[i]
  <2>1. <<f>> \in Seq(Frame) /\ Len(<<f>>) = 1 /\ <<f>>[1] = f
      OBVIOUS
  <2>2. /\ stack' \in Seq(Frame) /\ Len(stack') = 1 + (Len(stack) - 1)
        /\ \A i \in 1..1 + (Len(stack) - 1) :
               stack'[i] = IF i <= 1 THEN <<f>>[i] ELSE Tail(stack)[i - 1]
      BY <1>1, <2>1, ConcatProperties
  <2>3. QED
      BY <1>1, <2>1, <2>2
<1>3. ASSUME NEW d \in 1..Len(stack) - 1 PROVE At(d)' = At(d)
    BY <1>1, <1>2 DEF At
<1>4. \A d : d = Len(stack) => At(d)' = f
    BY <1>1, <1>2 DEF At
<1>5. QED
    BY <1>1, <1>2, <1>3, <1>4, EmptySeq

\* The top frame is replaced, and it calls.
LEMMA CallFrame ==
    ASSUME stack \in Seq(Frame), stack # <<>>, NEW f \in Frame, NEW g \in Frame,
           \/ stack' = <<f>> \o (<<g>> \o Tail(stack))
           \/ stack' = <<f, g>> \o Tail(stack)
    PROVE  /\ stack' \in Seq(Frame) /\ stack' # <<>> /\ Len(stack') = Len(stack) + 1
           /\ \A d \in 1..Len(stack) - 1 : At(d)' = At(d)
           /\ \A d : d = Len(stack) => At(d)' = g
           /\ \A d : d = Len(stack) + 1 => At(d)' = f
<1>1. /\ Tail(stack) \in Seq(Frame) /\ Len(Tail(stack)) = Len(stack) - 1
      /\ Len(stack) \in Nat /\ Len(stack) > 0
      /\ \A i \in 1..Len(stack) - 1 : Tail(stack)[i] = stack[i + 1]
    BY HeadTailProperties, LenProperties, EmptySeq
<1>2. /\ stack' \in Seq(Frame) /\ Len(stack') = Len(stack) + 1
      /\ \A i \in 1..Len(stack) + 1 :
             stack'[i] = IF i = 1 THEN f ELSE IF i = 2 THEN g ELSE stack[i - 1]
  <2>1. <<f>> \in Seq(Frame) /\ Len(<<f>>) = 1 /\ <<f>>[1] = f
      OBVIOUS
  <2>2. <<g>> \in Seq(Frame) /\ Len(<<g>>) = 1 /\ <<g>>[1] = g
      OBVIOUS
  <2>3. <<f, g>> \in Seq(Frame) /\ Len(<<f, g>>) = 2 /\ <<f, g>>[1] = f /\ <<f, g>>[2] = g
      OBVIOUS
  <2>4. CASE stack' = <<f, g>> \o Tail(stack)
    <3>1. /\ stack' \in Seq(Frame) /\ Len(stack') = 2 + (Len(stack) - 1)
          /\ \A i \in 1..2 + (Len(stack) - 1) :
                 stack'[i] = IF i <= 2 THEN <<f, g>>[i] ELSE Tail(stack)[i - 2]
        BY <1>1, <2>3, <2>4, ConcatProperties
    <3>2. QED
        BY <1>1, <2>3, <3>1
  <2>5. CASE stack' = <<f>> \o (<<g>> \o Tail(stack))
    <3>1. PICK t \in Seq(Frame) : t = <<g>> \o Tail(stack)
        BY <1>1, <2>2, ConcatProperties
    <3>2. /\ Len(t) = 1 + (Len(stack) - 1)
          /\ \A i \in 1..1 + (Len(stack) - 1) :
                 t[i] = IF i <= 1 THEN <<g>>[i] ELSE Tail(stack)[i - 1]
        BY <1>1, <2>2, <3>1, ConcatProperties
    <3>3. /\ stack' \in Seq(Frame) /\ Len(stack') = 1 + Len(t)
          /\ \A i \in 1..1 + Len(t) : stack'[i] = IF i <= 1 THEN <<f>>[i] ELSE t[i - 1]
        BY <2>1, <2>5, <3>1, ConcatProperties
    <3>4. QED
        BY <1>1, <2>1, <2>2, <3>2, <3>3
  <2>6. QED
      BY <2>4, <2>5
<1>3. ASSUME NEW d \in 1..Len(stack) - 1 PROVE At(d)' = At(d)
    BY <1>1, <1>2 DEF At
<1>4. \A d : d = Len(stack) => At(d)' = g
    BY <1>1, <1>2 DEF At
<1>5. \A d : d = Len(stack) + 1 => At(d)' = f
    BY <1>1, <1>2 DEF At
<1>6. QED
    BY <1>1, <1>2, <1>3, <1>4, <1>5, EmptySeq

\* The queue of effects, when one is queued.
LEMMA QueueEffect ==
    ASSUME pendingEffects \in Seq(Effect), NEW f \in Effect, Push(f)
    PROVE  /\ pendingEffects' \in Seq(Effect)
           /\ Len(pendingEffects') = Len(pendingEffects) + 1 /\ Len(pendingEffects) \in Nat
           /\ DOMAIN pendingEffects = 1..Len(pendingEffects)
           /\ DOMAIN pendingEffects' = 1..Len(pendingEffects) + 1
           /\ \A i \in 1..Len(pendingEffects) : pendingEffects'[i] = pendingEffects[i]
           /\ pendingEffects'[Len(pendingEffects) + 1] = f
BY AppendProperties, LenProperties DEF Push

\* The queue of effects, when one is applied.
LEMMA ApplyEffect ==
    ASSUME pendingEffects \in Seq(Effect), NEW k, Pop(k)
    PROVE  /\ pendingEffects' \in Seq(Effect)
           /\ Len(pendingEffects') = Len(pendingEffects) - 1 /\ Len(pendingEffects) \in Nat
           /\ DOMAIN pendingEffects = 1..Len(pendingEffects) /\ Len(pendingEffects) > 0
           /\ DOMAIN pendingEffects' = 1..Len(pendingEffects) - 1
           /\ \A i \in 1..Len(pendingEffects) - 1 : pendingEffects'[i] = pendingEffects[i + 1]
           /\ Head(pendingEffects) = pendingEffects[1] /\ Head(pendingEffects) \in Effect
           /\ pendingEffects[1].k = k
<1>1. pendingEffects # <<>> /\ pendingEffects' = Tail(pendingEffects)
    BY DEF Pop
<1>2. Head(pendingEffects) = pendingEffects[1] /\ Head(pendingEffects) \in Effect
    BY <1>1, HeadTailProperties
<1>3. Len(pendingEffects) \in Nat /\ Len(pendingEffects) > 0
    BY <1>1, LenProperties, EmptySeq
<1>4. /\ pendingEffects' \in Seq(Effect) /\ Len(pendingEffects') = Len(pendingEffects) - 1
      /\ \A i \in 1..Len(pendingEffects') : pendingEffects'[i] = pendingEffects[i + 1]
    BY <1>1, HeadTailProperties
<1>5. /\ DOMAIN pendingEffects = 1..Len(pendingEffects)
      /\ DOMAIN pendingEffects' = 1..Len(pendingEffects')
    BY <1>4, LenProperties
<1>6. QED
    BY <1>2, <1>3, <1>4, <1>5 DEF Pop

-----------------------------------------------------------------------------
(* The subscribers.                                                         *)

\* Subscribers are numbered by age.
LEMMA SubFields ==
    ASSUME TypeOK
    PROVE  /\ Len(subs) \in Nat /\ DOMAIN subs = 1..Len(subs) /\ DOMAIN subs \subseteq 1..MaxSubs
           /\ \A s \in DOMAIN subs : subs[s] \in Sub
           /\ \A s \in DOMAIN subs : /\ subs[s].kind \in {"observer", "listener"}
                                     /\ subs[s].key \in Keys
                                     /\ subs[s].st \in {"inactive", "active", "gone"}
<1>1. Len(subs) \in Nat /\ DOMAIN subs = 1..Len(subs)
    BY LenProperties DEF TypeOK
<1>2. DOMAIN subs \subseteq 1..MaxSubs
    BY <1>1, BoundsAssumption DEF TypeOK
<1>3. \A s \in DOMAIN subs : subs[s] \in Sub
    BY <1>1, ElementOfSeq DEF TypeOK
<1>4. \A x \in Sub : /\ x.kind \in {"observer", "listener"} /\ x.key \in Keys
                     /\ x.st \in {"inactive", "active", "gone"}
    BY DEF Sub
<1>5. QED
    BY <1>1, <1>2, <1>3, <1>4

\* Subscribers that go keep their number.
LEMMA SubsGone ==
    ASSUME TypeOK, NEW S, Gone(S)
    PROVE  /\ subs' \in Seq(Sub) /\ Len(subs') = Len(subs) /\ DOMAIN subs' = DOMAIN subs
           /\ \A s \in DOMAIN subs : /\ subs'[s].kind = subs[s].kind /\ subs'[s].key = subs[s].key
                                     /\ subs'[s].st = IF s \in S THEN "gone" ELSE subs[s].st
<1>1. /\ Len(subs) \in Nat /\ DOMAIN subs = 1..Len(subs)
      /\ \A s \in DOMAIN subs : subs[s] \in Sub
    BY SubFields
<1>2. \A x \in Sub : /\ [x EXCEPT !.st = "gone"] \in Sub
                     /\ [x EXCEPT !.st = "gone"].kind = x.kind
                     /\ [x EXCEPT !.st = "gone"].key = x.key
                     /\ [x EXCEPT !.st = "gone"].st = "gone"
    BY DEF Sub
<1>3. subs' = [s \in DOMAIN subs |-> IF s \in S THEN [subs[s] EXCEPT !.st = "gone"] ELSE subs[s]]
    BY DEF Gone
<1>4. subs' \in [1..Len(subs) -> Sub]
    BY <1>1, <1>2, <1>3
<1>5. subs' \in Seq(Sub) /\ Len(subs') = Len(subs)
    BY <1>1, <1>4, SeqDef, LenProperties
<1>6. QED
    BY <1>1, <1>2, <1>3, <1>5

\* A new subscriber is inert.
LEMMA SubsAppend ==
    ASSUME TypeOK, NEW kind \in {"observer", "listener"}, NEW key \in Keys,
           subs' = Append(subs, [kind |-> kind, key |-> key, st |-> "inactive"])
    PROVE  /\ subs' \in Seq(Sub) /\ Len(subs') = Len(subs) + 1
           /\ DOMAIN subs' = DOMAIN subs \union {NextSub}
           /\ \A s \in DOMAIN subs : subs'[s] = subs[s]
           /\ subs'[NextSub] = [kind |-> kind, key |-> key, st |-> "inactive"]
<1>1. [kind |-> kind, key |-> key, st |-> "inactive"] \in Sub
    BY DEF Sub
<1>2. /\ subs' \in Seq(Sub) /\ Len(subs') = Len(subs) + 1 /\ subs \in Seq(Sub)
      /\ \A s \in 1..Len(subs) : subs'[s] = subs[s]
      /\ subs'[Len(subs) + 1] = [kind |-> kind, key |-> key, st |-> "inactive"]
    BY <1>1, AppendProperties DEF TypeOK
<1>3. Len(subs) \in Nat /\ DOMAIN subs = 1..Len(subs) /\ DOMAIN subs' = 1..Len(subs')
    BY <1>2, LenProperties
<1>4. QED
    BY <1>2, <1>3 DEF NextSub

\* The activation of a subscriber that is not gone.
LEMMA SubsActivate ==
    ASSUME TypeOK, NEW n, 
           subs' = [subs EXCEPT ![n].st = IF @ = "inactive" THEN "active" ELSE @]
    PROVE  /\ subs' \in Seq(Sub) /\ Len(subs') = Len(subs) /\ DOMAIN subs' = DOMAIN subs
           /\ \A s \in DOMAIN subs :
                 /\ subs'[s].kind = subs[s].kind /\ subs'[s].key = subs[s].key
                 /\ subs'[s].st = IF s = n /\ subs[s].st = "inactive" THEN "active" ELSE subs[s].st
<1>1. /\ Len(subs) \in Nat /\ DOMAIN subs = 1..Len(subs)
      /\ \A s \in DOMAIN subs : subs[s] \in Sub
    BY SubFields
<1>2. \A x \in Sub, st \in {"inactive", "active", "gone"} : \A y :
         y = [x EXCEPT !.st = st] =>
             y \in Sub /\ y.kind = x.kind /\ y.key = x.key /\ y.st = st
    BY DEF Sub
<1>3. \A s \in DOMAIN subs : subs'[s] =
         IF s = n THEN [subs[s] EXCEPT !.st = IF subs[s].st = "inactive" THEN "active" ELSE subs[s].st]
         ELSE subs[s]
    OBVIOUS
<1>4. DOMAIN subs' = DOMAIN subs
    OBVIOUS
<1>5. \A s \in DOMAIN subs :
         /\ subs'[s] \in Sub
         /\ subs'[s].kind = subs[s].kind /\ subs'[s].key = subs[s].key
         /\ subs'[s].st = IF s = n /\ subs[s].st = "inactive" THEN "active" ELSE subs[s].st
  <2> SUFFICES ASSUME NEW s \in DOMAIN subs
               PROVE  /\ subs'[s] \in Sub
                      /\ subs'[s].kind = subs[s].kind /\ subs'[s].key = subs[s].key
                      /\ subs'[s].st = IF s = n /\ subs[s].st = "inactive" THEN "active"
                                       ELSE subs[s].st
      OBVIOUS
  <2>1. CASE s = n /\ subs[s].st = "inactive"
    <3>1. subs'[s] = [subs[s] EXCEPT !.st = "active"]
        BY <1>3, <2>1
    <3>2. subs[s] \in Sub
        BY <1>1
    <3>3. QED
        BY <1>2, <2>1, <3>1, <3>2
  <2>2. CASE s = n /\ subs[s].st # "inactive"
    <3>1. subs'[s] = [subs[s] EXCEPT !.st = subs[s].st]
        BY <1>3, <2>2
    <3>2. subs[s] \in Sub /\ subs[s].st \in {"inactive", "active", "gone"}
        BY SubFields
    <3>3. QED
        BY <1>2, <2>2, <3>1, <3>2
  <2>3. CASE s # n
      BY <1>1, <1>3, <2>3
  <2>4. QED
      BY <2>1, <2>2, <2>3
<1>6. subs' \in [1..Len(subs) -> Sub]
    BY <1>1, <1>4, <1>5
<1>7. subs' \in Seq(Sub) /\ Len(subs') = Len(subs)
    BY <1>1, <1>6, SeqDef, LenProperties
<1>8. QED
    BY <1>4, <1>5, <1>7

-----------------------------------------------------------------------------
(* Types.                                                                   *)

\* A set of numbers that is not empty has a least element.
LEMMA LeastElement ==
    ASSUME NEW T, T \subseteq Nat, T # {}
    PROVE  \E x \in T : \A y \in T : x <= y
<1> DEFINE R == OpToRel(<, Nat)
<1>1. IsWellFoundedOn(R, Nat)
    BY NatLessThanWellFounded
<1>2. PICK x \in T : \A y \in T : ~ (<<y, x>> \in R)
    BY <1>1, WFMin
<1>3. \A y \in T : ~ (y < x)
    BY <1>2 DEF OpToRel
<1>4. QED
    BY <1>3

\* The window that a new entity remembers is a window or none.
LEMMA CurrentWindowType ==
    ASSUME TypeOK
    PROVE  CurrentWindow \in Windows \union {None}
<1> DEFINE held == {i \in DOMAIN stack : stack[i].k = "update" /\ stack[i].window # None}
<1>1. \A i \in held : stack[i].window \in Windows \union {None}
    BY FrameFields, LenProperties, ElementOfSeq DEF TypeOK
<1>2. CASE held = {}
    BY <1>2 DEF CurrentWindow
<1>3. CASE held # {}
  <2>1. \E i \in held : \A j \in held : i <= j
    <3>1. held \subseteq Nat
        BY LenProperties DEF TypeOK
    <3>2. QED
        BY <1>3, <3>1, LeastElement
  <2>2. QED
      BY <1>1, <1>3, <2>1 DEF CurrentWindow
<1>4. QED
    BY <1>2, <1>3

\* A notification of a key is queued at most once more.
LEMMA NotifyTyped ==
    ASSUME TypeOK, NEW key \in Keys, PushNotify(key)
    PROVE  pendingEffects' \in Seq(Effect) /\ pendingNotifications' \subseteq Keys
<1>1. CASE key \in pendingNotifications
    BY <1>1 DEF TypeOK, PushNotify
<1>2. CASE key \notin pendingNotifications
  <2>1. [k |-> "notify", key |-> key] \in Effect
      BY EffectsMade
  <2>2. Push([k |-> "notify", key |-> key])
      BY <1>2 DEF PushNotify
  <2>3. pendingEffects' \in Seq(Effect)
      BY <2>1, <2>2, QueueEffect DEF TypeOK
  <2>4. pendingNotifications' = pendingNotifications \union {key}
      BY <1>2 DEF PushNotify
  <2>5. QED
      BY <2>3, <2>4 DEF TypeOK
<1>3. QED
    BY <1>1, <1>2

\* A call by user code is counted.
LEMMA CallTyped == ASSUME TypeOK, Call PROVE ops' \in 0..MaxOps
BY BoundsAssumption DEF TypeOK, Call

\* A notification is owed to subscribers.
LEMMA NotifiedTyped ==
    ASSUME TypeOK, NEW key, Notified(key), subs' = subs
    PROVE  owed' \subseteq DOMAIN subs'
BY DEF TypeOK, Notified, Subscribed

\* What a subscriber that goes was owed is forgotten.
LEMMA ForgetTyped ==
    ASSUME TypeOK, NEW S, Forget(S), DOMAIN subs' = DOMAIN subs
    PROVE  owed' \subseteq DOMAIN subs' /\ eventsOwed' \subseteq (DOMAIN subs') \X (1..MaxEvents)
BY DEF TypeOK, Forget

\* Dropping handles changes live entities to dropped ones.
LEMMA CountHandlesTyped ==
    ASSUME TypeOK, CountHandles
    PROVE  life' \in [Entities -> {"none", "live", "dropped", "released"}]
BY DEF TypeOK, CountHandles

\* Calls of user code keep the types.
LEMMA UserCallTyped == TypeOK /\ UserCall => TypeOK'
<1> SUFFICES ASSUME TypeOK, UserCall PROVE TypeOK'
    OBVIOUS
<1>1. ASSUME NEW e \in Entities, notify(e) PROVE TypeOK'
  <2>1. pendingEffects' \in Seq(Effect) /\ pendingNotifications' \subseteq Keys
      BY <1>1, NotifyTyped DEF notify, Keys
  <2>2. ops' \in 0..MaxOps
      BY <1>1, CallTyped DEF notify
  <2>3. owed' \subseteq DOMAIN subs'
      BY <1>1, NotifiedTyped DEF notify, world
  <2>4. QED
      BY <1>1, <2>1, <2>2, <2>3 DEF TypeOK, notify, world
<1>2. ASSUME NEW e \in Entities, emit(e) PROVE TypeOK'
  <2>1. events' \in 0..MaxEvents /\ events + 1 \in 1..MaxEvents
      BY <1>2, BoundsAssumption DEF emit, TypeOK
  <2>2. [k |-> "emit", key |-> e, event |-> events + 1] \in Effect
      BY <2>1, EffectsMade
  <2>3. pendingEffects' \in Seq(Effect)
      BY <1>2, <2>2, QueueEffect DEF TypeOK, emit, PushEvent
  <2>4. ops' \in 0..MaxOps
      BY <1>2, CallTyped DEF emit
  <2>5. eventsOwed' \subseteq (DOMAIN subs) \X (1..MaxEvents)
      BY <1>2, <2>1 DEF TypeOK, emit, Subscribed
  <2>6. QED
      BY <1>2, <2>1, <2>3, <2>4, <2>5 DEF TypeOK, emit
<1>3. ASSUME NEW e \in Entities, new(e) PROVE TypeOK'
  <2>1. [k |-> "created", key |-> e, window |-> CurrentWindow] \in Effect
      BY EffectsMade, CurrentWindowType
  <2>2. pendingEffects' \in Seq(Effect)
      BY <1>3, <2>1, QueueEffect DEF TypeOK, new
  <2>3. ops' \in 0..MaxOps
      BY <1>3, CallTyped DEF new
  <2>4. QED
      BY <1>3, <2>2, <2>3 DEF TypeOK, new, ghosts
<1>4. ASSUME NEW e \in Entities, dropHandle(e) PROVE TypeOK'
  <2>1. ops' \in 0..MaxOps
      BY <1>4, CallTyped DEF dropHandle
  <2>2. life' \in [Entities -> {"none", "live", "dropped", "released"}]
      BY <1>4, CountHandlesTyped DEF dropHandle
  <2>3. QED
      BY <1>4, <2>1, <2>2 DEF TypeOK, dropHandle, app, ghosts
<1>5. ASSUME NEW e \in Entities, keepHandle(e) PROVE TypeOK'
  <2>1. ops' \in 0..MaxOps
      BY <1>5, CallTyped DEF keepHandle
  <2>2. QED
      BY <1>5, <2>1 DEF TypeOK, keepHandle, app, ghosts
<1>6. ASSUME NEW kind \in {"observer", "listener"}, NEW key \in Keys, NewSubscription(kind, key)
      PROVE  TypeOK'
  <2>1. NextSub \in 1..MaxSubs
      BY <1>6, SubFields, BoundsAssumption DEF NewSubscription, NextSub
  <2>2. pendingEffects' \in Seq(Effect)
      BY <1>6, <2>1, EffectsMade, QueueEffect DEF TypeOK, NewSubscription
  <2>3. subs' \in Seq(Sub) /\ Len(subs') = Len(subs) + 1 /\ DOMAIN subs \subseteq DOMAIN subs'
      BY <1>6, SubsAppend DEF NewSubscription
  <2>4. ops' \in 0..MaxOps
      BY <1>6, CallTyped DEF NewSubscription
  <2>5. Len(subs') <= MaxSubs
      BY <2>1, <2>3 DEF NextSub
  <2>6. owed' \subseteq DOMAIN subs' /\ eventsOwed' \subseteq (DOMAIN subs') \X (1..MaxEvents)
      BY <1>6, <2>3 DEF TypeOK, NewSubscription, ghosts
  <2>7. QED
      BY <1>6, <2>2, <2>3, <2>4, <2>5, <2>6 DEF TypeOK, NewSubscription, ghosts
<1>7. ASSUME NEW s \in DOMAIN subs, unsubscribe(s) PROVE TypeOK'
  <2>1. subs' \in Seq(Sub) /\ Len(subs') = Len(subs) /\ DOMAIN subs' = DOMAIN subs
      BY <1>7, SubsGone DEF unsubscribe
  <2>2. owed' \subseteq DOMAIN subs' /\ eventsOwed' \subseteq (DOMAIN subs') \X (1..MaxEvents)
      BY <1>7, <2>1, ForgetTyped DEF unsubscribe
  <2>3. ops' \in 0..MaxOps
      BY <1>7, CallTyped DEF unsubscribe
  <2>4. QED
      BY <1>7, <2>1, <2>2, <2>3 DEF TypeOK, unsubscribe, app
<1>8. ASSUME defer PROVE TypeOK'
  <2>1. pendingEffects' \in Seq(Effect)
      BY <1>8, EffectsMade, QueueEffect DEF TypeOK, defer
  <2>2. ops' \in 0..MaxOps
      BY <1>8, CallTyped DEF defer
  <2>3. QED
      BY <1>8, <2>1, <2>2 DEF TypeOK, defer, world, ghosts
<1>9. ASSUME NEW g \in Globals, set_global(g) \/ remove_global(g) PROVE TypeOK'
  <2>1. pendingEffects' \in Seq(Effect) /\ pendingNotifications' \subseteq Keys
      BY <1>9, NotifyTyped DEF set_global, remove_global, Keys
  <2>2. ops' \in 0..MaxOps
      BY <1>9, CallTyped DEF set_global, remove_global
  <2>3. owed' \subseteq DOMAIN subs'
      BY <1>9, NotifiedTyped DEF set_global, remove_global
  <2>4. QED
      BY <1>9, <2>1, <2>2, <2>3 DEF TypeOK, set_global, remove_global
<1>10. ASSUME NEW w \in Windows, remove_window(w) PROVE TypeOK'
  <2>1. ops' \in 0..MaxOps
      BY <1>10, CallTyped DEF remove_window
  <2>2. QED
      BY <1>10, <2>1 DEF TypeOK, remove_window, app, ghosts
<1>11. QED
    BY <1>1, <1>2, <1>3, <1>4, <1>5, <1>6, <1>7, <1>8, <1>9, <1>10
       DEF UserCall, observe, subscribe, observe_global, Keys

\* The top frame is one of the frames.
LEMMA HeadFrame ==
    ASSUME TypeOK, NEW k, Running(k)
    PROVE  /\ stack # <<>> /\ stack \in Seq(Frame)
           /\ Head(stack) \in Frame /\ Head(stack).k = k /\ Len(stack) \in Nat /\ Len(stack) > 0
BY AtProperties DEF TypeOK, Running

\* The depths are finitely many.
LEMMA CountedFinite ==
    ASSUME TypeOK
    PROVE  /\ IsFiniteSet(Counted) /\ Cardinality(Counted) \in Nat
           /\ Counted # {} => Cardinality(Counted) > 0
<1>1. Len(stack) \in Nat
    BY LenProperties DEF TypeOK
<1>2. IsFiniteSet(1..Len(stack))
    BY <1>1, FS_Interval
<1>3. IsFiniteSet(Counted)
    BY <1>2, FS_Subset DEF Counted
<1>4. QED
    BY <1>3, FS_CardinalityType, FS_EmptySet

\* An update that finishes, and a flush that ends, was counted.
LEMMA TopCounted ==
    ASSUME TypeOK, StackInv, stack # <<>>,
           Head(stack).k = "update" \/ Head(stack) = UpdateFlush
    PROVE  Len(stack) \in Counted /\ pendingUpdates = Cardinality(Counted) /\ pendingUpdates > 0
<1>1. Len(stack) \in 1..Len(stack) /\ \A d : d = Len(stack) => At(d) = Head(stack)
    BY AtProperties DEF TypeOK
<1>2. Len(stack) \in Counted
    BY <1>1 DEF Counted
<1>3. QED
    BY <1>2, CountedFinite DEF StackInv

\* A flush frame is the one of an update or the one of shutdown.
LEMMA FlushFrame ==
    ASSUME NEW f \in Frame, f.k = "flush"
    PROVE  f = UpdateFlush <=> f.by = "update"
BY DEF Frame, UpdateFlush

\* Starts and ends of updates keep the types.
LEMMA UpdatesTyped ==
    TypeOK /\ StackInv /\ (Updates \/ shutdown \/ shutdownFlush) => TypeOK'
<1> SUFFICES ASSUME TypeOK, StackInv, Updates \/ shutdown \/ shutdownFlush PROVE TypeOK'
    OBVIOUS
<1>1. ASSUME start_update PROVE TypeOK'
  <2>1. ops' \in 0..MaxOps
      BY <1>1, BoundsAssumption DEF start_update, TypeOK
  <2>2. stack' \in Seq(Frame)
      BY <1>1, FramesMade, PushFrame DEF start_update, TypeOK
  <2>3. QED
      BY <1>1, <2>1, <2>2 DEF TypeOK, start_update, world, ghosts
<1>2. ASSUME NEW w \in Windows, update_window(w) PROVE TypeOK'
  <2>1. ops' \in 0..MaxOps
      BY <1>2, BoundsAssumption DEF update_window, TypeOK
  <2>2. stack' \in Seq(Frame)
      BY <1>2, FramesMade, PushFrame DEF update_window, TypeOK
  <2>3. QED
      BY <1>2, <2>1, <2>2 DEF TypeOK, update_window, world, ghosts
<1>3. ASSUME NEW w \in Windows, trail(w) PROVE TypeOK'
  <2>1. [Head(stack) EXCEPT !.window = None] \in Frame
      BY <1>3, HeadFrame, FramesChanged DEF trail
  <2>2. stack' \in Seq(Frame)
      BY <1>3, <2>1, HeadFrame, ReplaceFrame DEF trail
  <2>3. QED
      BY <1>3, <2>2 DEF TypeOK, trail, app, ghosts
<1>4. ASSUME finish_update PROVE TypeOK'
  <2>1. stack # <<>> /\ stack \in Seq(Frame) /\ Head(stack).k = "update"
      BY <1>4, HeadFrame DEF finish_update
  <2>2. life' \in [Entities -> {"none", "live", "dropped", "released"}]
      BY <1>4, CountHandlesTyped DEF finish_update
  <2>3. pendingUpdates > 0
      BY <2>1, TopCounted
  <2>4. stack' \in Seq(Frame)
      BY <1>4, <2>1, FramesMade, PopFrame, ReplaceFrame DEF finish_update
  <2>5. flushingEffects' \in BOOLEAN
      BY <1>4 DEF TypeOK, finish_update
  <2>6. pendingUpdates' \in Nat
      BY <1>4, <2>3 DEF TypeOK, finish_update
  <2>7. QED
      BY <1>4, <2>2, <2>4, <2>5, <2>6 DEF TypeOK, finish_update, ghosts
<1>5. ASSUME shutdown PROVE TypeOK'
  <2>1. ops' \in 0..MaxOps
      BY <1>5, BoundsAssumption DEF shutdown, TypeOK
  <2>2. stack' \in Seq(Frame)
      BY <1>5, FramesMade DEF shutdown
  <2>3. QED
      BY <1>5, <2>1, <2>2 DEF TypeOK, shutdown, app, world, ghosts
<1>6. ASSUME shutdownFlush PROVE TypeOK'
  <2>1. stack' \in Seq(Frame)
      BY <1>6, FramesMade DEF shutdownFlush
  <2>2. QED
      BY <1>6, <2>1 DEF TypeOK, shutdownFlush, app, ghosts
<1>7. QED
    BY <1>1, <1>2, <1>3, <1>4, <1>5, <1>6 DEF Updates

\* A delivery has the subscribers of its key.
LEMMA RetainTyped ==
    ASSUME TypeOK, NEW kind, NEW key \in Keys, NEW event \in 0..MaxEvents
    PROVE  Retain(kind, key, event) \in Frame /\ Retain(kind, key, event).k = "deliver"
<1>1. Subscribed(kind, key) \ Taken \in SUBSET (1..MaxSubs)
    BY SubFields DEF Subscribed
<1>2. QED
    BY <1>1, FramesMade DEF Retain

\* The next subscriber of a delivery was visited.
LEMMA VisitedTyped ==
    ASSUME TypeOK, NEW s, IsNext(s)
    PROVE  /\ [Head(stack) EXCEPT !.rest = @ \ {s}] \in Frame
           /\ stack # <<>> /\ stack \in Seq(Frame)
           /\ Head(stack) \in Frame /\ Head(stack).k = "deliver"
BY HeadFrame, FramesChanged DEF IsNext

\* The steps of a flush keep the types.
LEMMA FlushTyped == TypeOK /\ StackInv /\ Flush => TypeOK'
<1> SUFFICES ASSUME TypeOK, StackInv, Flush PROVE TypeOK'
    OBVIOUS
<1>1. ASSUME take_dropped PROVE TypeOK'
  <2>1. Dropped \in SUBSET Entities
      BY DEF Dropped
  <2>2. stack' \in Seq(Frame)
      BY <1>1, <2>1, FramesMade, PushFrame DEF take_dropped, TypeOK
  <2>3. life' \in [Entities -> {"none", "live", "dropped", "released"}]
      BY <1>1 DEF take_dropped, TypeOK
  <2>4. QED
      BY <1>1, <2>2, <2>3 DEF TypeOK, take_dropped, app, ghosts
<1>2. ASSUME NEW e \in Entities, release(e) PROVE TypeOK'
  <2>1. /\ stack # <<>> /\ stack \in Seq(Frame)
        /\ [k |-> "release", rest |-> Head(stack).rest \ {e}] \in Frame
        /\ [k |-> "call", key |-> None] \in Frame
    <3>1. stack # <<>> /\ stack \in Seq(Frame) /\ Head(stack).rest \subseteq Entities
        BY <1>2, HeadFrame, FrameFields DEF release
    <3>2. QED
        BY <3>1, FramesMade
  <2>2. stack' \in Seq(Frame)
      BY <1>2, <2>1, CallFrame DEF release
  <2>3. PICK lost : Gone(lost) /\ Forget(lost)
      BY <1>2 DEF release
  <2>4. subs' \in Seq(Sub) /\ Len(subs') = Len(subs) /\ DOMAIN subs' = DOMAIN subs
      BY <2>3, SubsGone
  <2>5. owed' \subseteq DOMAIN subs' /\ eventsOwed' \subseteq (DOMAIN subs') \X (1..MaxEvents)
      BY <2>3, <2>4, ForgetTyped
  <2>6. QED
      BY <1>2, <2>2, <2>4, <2>5 DEF TypeOK, release, app
<1>3. ASSUME released \/ delivered PROVE TypeOK'
  <2>1. stack' \in Seq(Frame)
      BY <1>3, HeadFrame, PopFrame DEF released, delivered
  <2>2. QED
      BY <1>3, <2>1 DEF TypeOK, released, delivered, app, world, ghosts
<1>4. ASSUME return PROVE TypeOK'
  <2>1. stack' \in Seq(Frame)
      BY <1>4, HeadFrame, PopFrame DEF return
  <2>2. life' \in [Entities -> {"none", "live", "dropped", "released"}]
      BY <1>4, CountHandlesTyped DEF return
  <2>3. QED
      BY <1>4, <2>1, <2>2 DEF TypeOK, return, app, ghosts
<1>5. ASSUME apply_notify_effect PROVE TypeOK'
  <2>1. /\ pendingEffects' \in Seq(Effect) /\ Head(pendingEffects) \in Effect
        /\ Head(pendingEffects).k = "notify"
      BY <1>5, ApplyEffect DEF TypeOK, apply_notify_effect, Pop
  <2>2. Retain("observer", Head(pendingEffects).key, 0) \in Frame
      BY <2>1, EffectFields, RetainTyped, BoundsAssumption
  <2>3. stack' \in Seq(Frame)
      BY <1>5, <2>2, PushFrame DEF TypeOK, apply_notify_effect
  <2>4. pendingNotifications' \subseteq Keys
      BY <1>5 DEF TypeOK, apply_notify_effect, ClearPending
  <2>5. QED
      BY <1>5, <2>1, <2>3, <2>4 DEF TypeOK, apply_notify_effect, world, ghosts
<1>6. ASSUME apply_emit_effect PROVE TypeOK'
  <2>1. /\ pendingEffects' \in Seq(Effect) /\ Head(pendingEffects) \in Effect
        /\ Head(pendingEffects).k = "emit"
      BY <1>6, ApplyEffect DEF TypeOK, apply_emit_effect, Pop
  <2>2. Head(pendingEffects).key \in Keys /\ Head(pendingEffects).event \in 0..MaxEvents
      BY <2>1, EffectFields DEF Keys
  <2>3. Retain("listener", Head(pendingEffects).key, Head(pendingEffects).event) \in Frame
      BY <2>2, RetainTyped
  <2>4. stack' \in Seq(Frame)
      BY <1>6, <2>3, PushFrame DEF TypeOK, apply_emit_effect
  <2>5. QED
      BY <1>6, <2>1, <2>4 DEF TypeOK, apply_emit_effect, world, ghosts
<1>7. ASSUME activate PROVE TypeOK'
  <2>1. pendingEffects' \in Seq(Effect)
      BY <1>7, ApplyEffect DEF TypeOK, activate
  <2>2. subs' \in Seq(Sub) /\ Len(subs') = Len(subs) /\ DOMAIN subs' = DOMAIN subs
      BY <1>7, SubsActivate DEF activate
  <2>3. QED
      BY <1>7, <2>1, <2>2 DEF TypeOK, activate, ghosts
<1>8. ASSUME apply_defer_effect PROVE TypeOK'
  <2>1. pendingEffects' \in Seq(Effect)
      BY <1>8, ApplyEffect DEF TypeOK, apply_defer_effect
  <2>2. stack' \in Seq(Frame)
      BY <1>8, FramesMade, PushFrame DEF TypeOK, apply_defer_effect
  <2>3. QED
      BY <1>8, <2>1, <2>2 DEF TypeOK, apply_defer_effect, world, ghosts
<1>9. ASSUME apply_entity_created_effect PROVE TypeOK'
  <2>1. /\ pendingEffects' \in Seq(Effect) /\ Head(pendingEffects) \in Effect
        /\ Head(pendingEffects).k = "created"
      BY <1>9, ApplyEffect DEF TypeOK, apply_entity_created_effect, Pop
  <2>2. /\ Head(pendingEffects).key \in Entities
        /\ Head(pendingEffects).window \in Windows \union {None}
      BY <2>1, EffectFields
  <2>3. life' \in [Entities -> {"none", "live", "dropped", "released"}]
      BY <1>9, CountHandlesTyped DEF apply_entity_created_effect
  <2>4. /\ stack' \in Seq(Frame) /\ announced' \subseteq Entities
        /\ pendingUpdates' \in Nat /\ panicked' \in BOOLEAN
    <3>1. [k |-> "call", key |-> Head(pendingEffects).key] \in Frame
        BY <2>2, FramesMade
    <3>2. [k |-> "update", key |-> Head(pendingEffects).key,
           window |-> Head(pendingEffects).window] \in Frame
        BY <2>2, FramesMade
    <3>3. /\ stack' \in {<<[k |-> "call", key |-> Head(pendingEffects).key]>> \o stack,
                         <<[k |-> "update", key |-> Head(pendingEffects).key,
                            window |-> Head(pendingEffects).window]>> \o stack, <<>>}
          /\ announced' \in {announced, announced \union {Head(pendingEffects).key}}
          /\ pendingUpdates' \in {pendingUpdates, pendingUpdates + 1}
        BY <1>9 DEF apply_entity_created_effect
    <3>4. panicked' \in BOOLEAN
      <4>1. panicked' = panicked \/ panicked' = TRUE
          BY <1>9 DEF apply_entity_created_effect
      <4>2. panicked \in BOOLEAN
          BY DEF TypeOK
      <4>3. QED
          BY <4>1, <4>2, Zenon
    <3>5. stack' \in Seq(Frame)
      <4>1. stack \in Seq(Frame) /\ <<>> \in Seq(Frame)
          BY DEF TypeOK
      <4>2. CASE stack' = <<[k |-> "call", key |-> Head(pendingEffects).key]>> \o stack
          BY <3>1, <4>1, <4>2, PushFrame
      <4>3. CASE stack' = <<[k |-> "update", key |-> Head(pendingEffects).key,
                             window |-> Head(pendingEffects).window]>> \o stack
          BY <3>2, <4>1, <4>3, PushFrame
      <4>4. CASE stack' = <<>>
          BY <4>1, <4>4
      <4>5. QED
          BY <3>3, <4>2, <4>3, <4>4
    <3>6. announced' \subseteq Entities /\ pendingUpdates' \in Nat
        BY <2>2, <3>3 DEF TypeOK
    <3>7. QED
        BY <3>4, <3>5, <3>6
  <2>5. QED
      BY <1>9, <2>1, <2>3, <2>4 DEF TypeOK, apply_entity_created_effect
<1>10. ASSUME flushed PROVE TypeOK'
  <2>1. /\ stack # <<>> /\ stack \in Seq(Frame)
        /\ Head(stack) \in Frame /\ Head(stack).k = "flush"
      BY <1>10, HeadFrame DEF flushed
  <2>2. stack' \in Seq(Frame)
      BY <1>10, <2>1, PopFrame DEF flushed
  <2>3. Head(stack).by = "update" => pendingUpdates > 0
      BY <2>1, FlushFrame, TopCounted
  <2>4. pendingUpdates' \in Nat
      BY <1>10, <2>3 DEF TypeOK, flushed
  <2>5. flushingEffects' \in BOOLEAN
      BY <1>10 DEF TypeOK, flushed
  <2>6. QED
      BY <1>10, <2>2, <2>4, <2>5 DEF TypeOK, flushed, world, ghosts
<1>11. ASSUME NEW s \in DOMAIN subs, callSubscriber(s) PROVE TypeOK'
  <2>1. PICK key \in Entities \union {None} :
            stack' = <<[k |-> "call", key |-> key]>> \o WithoutNext(s)
      BY <1>11 DEF callSubscriber
  <2>2. stack' \in Seq(Frame)
      BY <1>11, <2>1, VisitedTyped, FramesMade, CallFrame DEF callSubscriber, WithoutNext
  <2>3. owed' \subseteq owed /\ eventsOwed' \subseteq eventsOwed
      BY <1>11 DEF callSubscriber
  <2>4. QED
      BY <1>11, <2>2, <2>3 DEF TypeOK, callSubscriber, app, world
<1>12. ASSUME NEW s \in DOMAIN subs, expireSubscriber(s) PROVE TypeOK'
  <2>1. stack' \in Seq(Frame)
      BY <1>12, VisitedTyped, ReplaceFrame DEF expireSubscriber, WithoutNext
  <2>2. subs' \in Seq(Sub) /\ Len(subs') = Len(subs) /\ DOMAIN subs' = DOMAIN subs
      BY <1>12, SubsGone DEF expireSubscriber
  <2>3. owed' \subseteq DOMAIN subs' /\ eventsOwed' \subseteq (DOMAIN subs') \X (1..MaxEvents)
      BY <1>12, <2>2, ForgetTyped DEF expireSubscriber
  <2>4. QED
      BY <1>12, <2>1, <2>2, <2>3 DEF TypeOK, expireSubscriber, app
<1>13. ASSUME NEW s \in DOMAIN subs, skipSubscriber(s) PROVE TypeOK'
  <2>1. stack' \in Seq(Frame)
      BY <1>13, VisitedTyped, ReplaceFrame DEF skipSubscriber, WithoutNext
  <2>2. QED
      BY <1>13, <2>1 DEF TypeOK, skipSubscriber, app, world, ghosts
<1>14. QED
    BY <1>1, <1>2, <1>3, <1>4, <1>5, <1>6, <1>7, <1>8, <1>9, <1>10, <1>11, <1>12, <1>13
       DEF Flush

-----------------------------------------------------------------------------
(* pending_updates and flushing_effects.                                    *)

\* While code runs, nothing has panicked.
LEMMA RunningNotPanicked ==
    ASSUME TypeOK, StackInv, stack # <<>>
    PROVE  /\ ~panicked
           /\ At(1).k \in {"update", "flush", "quit"}
           /\ \A d \in 2..Len(stack) : At(d).k # "quit"
           /\ flushingEffects <=> \E d \in 1..Len(stack) : At(d) = UpdateFlush
           /\ \A c, d \in 1..Len(stack) : At(c) = UpdateFlush /\ At(d) = UpdateFlush => c = d
           /\ pendingUpdates = Cardinality(Counted)
BY DEF StackInv

\* A frame is pushed that is no flush of an update.
LEMMA StackPush ==
    ASSUME TypeOK, StackInv, ~panicked, ~panicked', NEW f \in Frame, stack' = <<f>> \o stack,
           f # UpdateFlush, stack = <<>> => f.k \in {"update", "flush", "quit"},
           stack # <<>> => f.k # "quit",
           flushingEffects' = flushingEffects,
           pendingUpdates' = IF f.k = "update" THEN pendingUpdates + 1 ELSE pendingUpdates
    PROVE  StackInv'
<1>1. /\ stack' # <<>> /\ Len(stack') = Len(stack) + 1 /\ Len(stack) \in Nat
      /\ \A d \in 1..Len(stack) : At(d)' = At(d)
      /\ \A d : d = Len(stack) + 1 => At(d)' = f
    BY PushFrame, AtProperties DEF TypeOK
<1>2. \A d \in 1..Len(stack') : d \in 1..Len(stack) \/ d = Len(stack) + 1
    BY <1>1
<1>3. At(1)'.k \in {"update", "flush", "quit"}
  <2>1. CASE stack = <<>>
      BY <1>1, <2>1, EmptySeq
  <2>2. CASE stack # <<>>
    <3>1. 1 \in 1..Len(stack)
        BY <1>1, <2>2, AtProperties DEF TypeOK
    <3>2. QED
        BY <1>1, <2>2, <3>1 DEF StackInv
  <2>3. QED
      BY <2>1, <2>2
<1>4. \A d \in 2..Len(stack') : At(d)'.k # "quit"
  <2>1. \A d \in 2..Len(stack') : d \in 2..Len(stack) \/ (d = Len(stack) + 1 /\ stack # <<>>)
      BY <1>1, EmptySeq
  <2>2. QED
      BY <1>1, <2>1 DEF StackInv
<1>5. flushingEffects' <=> \E d \in 1..Len(stack') : At(d)' = UpdateFlush
  <2>1. (\E d \in 1..Len(stack') : At(d)' = UpdateFlush)
            <=> \E d \in 1..Len(stack) : At(d) = UpdateFlush
      BY <1>1, <1>2
  <2>2. QED
      BY <2>1 DEF StackInv
<1>6. \A c, d \in 1..Len(stack') : At(c)' = UpdateFlush /\ At(d)' = UpdateFlush => c = d
    BY <1>1, <1>2 DEF StackInv
<1>7. pendingUpdates' = Cardinality(Counted')
  <2>1. CASE f.k = "update"
    <3>1. Counted' = Counted \union {Len(stack) + 1}
        BY <1>1, <1>2, <2>1 DEF Counted
    <3>2. Len(stack) + 1 \notin Counted
        BY <1>1 DEF Counted
    <3>3. Cardinality(Counted') = Cardinality(Counted) + 1
        BY <3>1, <3>2, CountedFinite, FS_AddElement
    <3>4. QED
        BY <2>1, <3>3 DEF StackInv
  <2>2. CASE f.k # "update"
    <3>1. Counted' = Counted
        BY <1>1, <1>2, <2>2 DEF Counted
    <3>2. QED
        BY <2>2, <3>1 DEF StackInv
  <2>3. QED
      BY <2>1, <2>2
<1>8. QED
    BY <1>1, <1>3, <1>4, <1>5, <1>6, <1>7 DEF StackInv

\* The top frame returns.
LEMMA StackPop ==
    ASSUME TypeOK, StackInv, stack # <<>>, ~panicked', stack' = Tail(stack),
           flushingEffects' = (flushingEffects /\ Head(stack) # UpdateFlush),
           pendingUpdates' = IF Head(stack).k = "update" \/ Head(stack) = UpdateFlush
                             THEN pendingUpdates - 1 ELSE pendingUpdates
    PROVE  StackInv'
<1>1. /\ Len(stack') = Len(stack) - 1 /\ Len(stack) \in Nat /\ Len(stack) > 0
      /\ \A d \in 1..Len(stack) - 1 : At(d)' = At(d)
      /\ \A d : d = Len(stack) => At(d) = Head(stack)
    BY PopFrame, AtProperties DEF TypeOK
<1>2. /\ \A d \in 1..Len(stack) : d \in 1..Len(stack') \/ d = Len(stack)
      /\ \A d \in 1..Len(stack') : d \in 1..Len(stack) /\ d # Len(stack)
  <2>1. \A n \in Nat : \A m : m = n - 1 => /\ \A d \in 1..n : d \in 1..m \/ d = n
                                       /\ \A d \in 1..m : d \in 1..n /\ d # n
      OBVIOUS
  <2>2. QED
      BY <1>1, <2>1, Zenon
<1>3. stack' # <<>> => At(1)'.k \in {"update", "flush", "quit"}
  <2>1. stack' # <<>> => Len(stack') > 0
      BY PopFrame, EmptySeq DEF TypeOK
  <2>2. QED
      BY <1>1, <2>1, RunningNotPanicked
<1>4. \A d \in 2..Len(stack') : At(d)'.k # "quit"
    BY <1>1, RunningNotPanicked
<1>5. flushingEffects' <=> \E d \in 1..Len(stack') : At(d)' = UpdateFlush
  <2>1. CASE Head(stack) = UpdateFlush
    <3>1. Len(stack) \in 1..Len(stack) /\ At(Len(stack)) = UpdateFlush
        BY <1>1, <2>1
    <3>2. \A d \in 1..Len(stack') : At(d)' # UpdateFlush
        BY <1>1, <1>2, <3>1, RunningNotPanicked
    <3>3. QED
        BY <2>1, <3>2
  <2>2. CASE Head(stack) # UpdateFlush
      BY <1>1, <1>2, <2>2, RunningNotPanicked
  <2>3. QED
      BY <2>1, <2>2
<1>6. \A c, d \in 1..Len(stack') : At(c)' = UpdateFlush /\ At(d)' = UpdateFlush => c = d
    BY <1>1, <1>2, RunningNotPanicked
<1>7. pendingUpdates' = Cardinality(Counted')
  <2>1. CASE Head(stack).k = "update" \/ Head(stack) = UpdateFlush
    <3>1. Counted' = Counted \ {Len(stack)}
        BY <1>1, <1>2 DEF Counted
    <3>2. Len(stack) \in Counted
        BY <2>1, TopCounted
    <3>3. Cardinality(Counted') = Cardinality(Counted) - 1
        BY <3>1, <3>2, CountedFinite, FS_RemoveElement
    <3>4. QED
        BY <2>1, <3>3, RunningNotPanicked
  <2>2. CASE ~(Head(stack).k = "update" \/ Head(stack) = UpdateFlush)
    <3>1. Counted' = Counted
        BY <1>1, <1>2, <2>2 DEF Counted
    <3>2. QED
        BY <2>2, <3>1, RunningNotPanicked
  <2>3. QED
      BY <2>1, <2>2
<1>8. QED
    BY <1>3, <1>4, <1>5, <1>6, <1>7 DEF StackInv

\* The top frame is replaced by one of its kind, which may call.
LEMMA StackSwap ==
    ASSUME TypeOK, StackInv, stack # <<>>, ~panicked', NEW f \in Frame, NEW g \in Frame,
           f.k = "call", g.k = Head(stack).k, g.k # "flush", g.k # "quit",
           \/ stack' = <<g>> \o Tail(stack)
           \/ stack' = <<f>> \o (<<g>> \o Tail(stack))
           \/ stack' = <<f, g>> \o Tail(stack),
           UNCHANGED <<flushingEffects, pendingUpdates>>
    PROVE  StackInv'
<1>1. /\ stack' # <<>> /\ Len(stack') \in {Len(stack), Len(stack) + 1}
      /\ Len(stack) \in Nat /\ Len(stack) > 0
      /\ \A d \in 1..Len(stack) - 1 : At(d)' = At(d)
      /\ \A d : d = Len(stack) => At(d)' = g /\ At(d) = Head(stack)
      /\ \A d : d = Len(stack) + 1 /\ d \in 1..Len(stack') => At(d)' = f
  <2>1. Len(stack) \in Nat /\ Len(stack) > 0 /\ \A d : d = Len(stack) => At(d) = Head(stack)
      BY AtProperties DEF TypeOK
  <2>2. CASE stack' = <<g>> \o Tail(stack)
    <3>1. /\ stack' # <<>> /\ Len(stack') = Len(stack)
          /\ \A d \in 1..Len(stack) - 1 : At(d)' = At(d)
          /\ \A d : d = Len(stack) => At(d)' = g
        BY <2>2, ReplaceFrame DEF TypeOK
    <3>2. QED
        BY <2>1, <3>1
  <2>3. CASE \/ stack' = <<f>> \o (<<g>> \o Tail(stack))
             \/ stack' = <<f, g>> \o Tail(stack)
    <3>1. /\ stack' # <<>> /\ Len(stack') = Len(stack) + 1
          /\ \A d \in 1..Len(stack) - 1 : At(d)' = At(d)
          /\ \A d : d = Len(stack) => At(d)' = g
          /\ \A d : d = Len(stack) + 1 => At(d)' = f
        BY <2>3, CallFrame DEF TypeOK
    <3>2. QED
        BY <2>1, <3>1
  <2>4. QED
      BY <2>2, <2>3
<1>2. \A n \in Nat : \A m : m \in {n, n + 1} =>
         /\ \A d \in 1..m : d \in 1..n - 1 \/ d = n \/ (d = n + 1 /\ d \notin 1..n)
         /\ \A d \in 1..n : d \in 1..m /\ (d \in 1..n - 1 \/ d = n)
    OBVIOUS
<1>3. /\ \A d \in 1..Len(stack') : \/ d \in 1..Len(stack) - 1 \/ d = Len(stack)
                                   \/ d = Len(stack) + 1 /\ d \notin 1..Len(stack)
      /\ \A d \in 1..Len(stack) : /\ d \in 1..Len(stack')
                                  /\ d \in 1..Len(stack) - 1 \/ d = Len(stack)
    BY <1>1, <1>2, Zenon
<1>4. f # UpdateFlush /\ g # UpdateFlush /\ Head(stack) # UpdateFlush
    BY DEF UpdateFlush
<1>5. \A d \in 1..Len(stack) : /\ At(d)'.k = At(d).k
                               /\ At(d)' = UpdateFlush <=> At(d) = UpdateFlush
    BY <1>1, <1>3, <1>4
<1>6. \A d \in 1..Len(stack') : d \in 1..Len(stack) \/ At(d)' = f
    BY <1>1, <1>3
<1>7. Counted' = Counted
    BY <1>3, <1>4, <1>5, <1>6 DEF Counted
<1>8. At(1)'.k \in {"update", "flush", "quit"}
  <2>1. 1 \in 1..Len(stack)
      BY <1>1
  <2>2. QED
      BY <1>5, <2>1, RunningNotPanicked
<1>9. \A d \in 2..Len(stack') : At(d)'.k # "quit"
  <2>1. \A d \in 2..Len(stack') : d \in 1..Len(stack') /\ (d \in 1..Len(stack) => d \in 2..Len(stack))
      BY <1>1
  <2>2. QED
      BY <1>5, <1>6, <2>1, RunningNotPanicked
<1>10. flushingEffects' <=> \E d \in 1..Len(stack') : At(d)' = UpdateFlush
    BY <1>3, <1>4, <1>5, <1>6, RunningNotPanicked
<1>11. \A c, d \in 1..Len(stack') : At(c)' = UpdateFlush /\ At(d)' = UpdateFlush => c = d
    BY <1>4, <1>5, <1>6, RunningNotPanicked
<1>12. QED
    BY <1>7, <1>8, <1>9, <1>10, <1>11, RunningNotPanicked DEF StackInv

\* The outermost update becomes a flush.
LEMMA StackFlush ==
    ASSUME TypeOK, StackInv, stack # <<>>, ~panicked', Head(stack).k = "update",
           ~flushingEffects, flushingEffects' = TRUE, pendingUpdates' = pendingUpdates,
           stack' = <<UpdateFlush>> \o Tail(stack)
    PROVE  StackInv'
<1>1. UpdateFlush \in Frame /\ UpdateFlush.k = "flush"
    BY FramesMade DEF UpdateFlush
<1>2. /\ stack' # <<>> /\ Len(stack') = Len(stack) /\ Len(stack) \in Nat /\ Len(stack) > 0
      /\ \A d \in 1..Len(stack) - 1 : At(d)' = At(d)
      /\ \A d : d = Len(stack) => At(d)' = UpdateFlush /\ At(d) = Head(stack)
  <2>1. Len(stack) \in Nat /\ Len(stack) > 0 /\ \A d : d = Len(stack) => At(d) = Head(stack)
      BY AtProperties DEF TypeOK
  <2>2. /\ stack' # <<>> /\ Len(stack') = Len(stack)
        /\ \A d \in 1..Len(stack) - 1 : At(d)' = At(d)
        /\ \A d : d = Len(stack) => At(d)' = UpdateFlush
      BY <1>1, ReplaceFrame DEF TypeOK
  <2>3. QED
      BY <2>1, <2>2
<1>3. \A n \in Nat : \A d \in 1..n : d \in 1..n - 1 \/ d = n
    OBVIOUS
<1>4. \A d \in 1..Len(stack) : d \in 1..Len(stack) - 1 \/ d = Len(stack)
    BY <1>2, <1>3, Zenon
<1>5. \A d \in 1..Len(stack) : At(d) # UpdateFlush
    BY RunningNotPanicked
<1>6. Counted' = Counted
    BY <1>2, <1>4 DEF Counted
<1>7. At(1)'.k \in {"update", "flush", "quit"}
  <2>1. 1 \in 1..Len(stack)
      BY <1>2
  <2>2. QED
      BY <1>1, <1>2, <1>4, <2>1, RunningNotPanicked
<1>8. \A d \in 2..Len(stack') : At(d)'.k # "quit"
  <2>1. \A d \in 2..Len(stack) : d \in 1..Len(stack)
      BY <1>2
  <2>2. QED
      BY <1>1, <1>2, <1>4, <2>1, RunningNotPanicked
<1>9. \E d \in 1..Len(stack') : At(d)' = UpdateFlush
    BY <1>2
<1>10. \A c, d \in 1..Len(stack') : At(c)' = UpdateFlush /\ At(d)' = UpdateFlush => c = d
    BY <1>2, <1>4, <1>5
<1>11. QED
    BY <1>2, <1>6, <1>7, <1>8, <1>9, <1>10, RunningNotPanicked DEF StackInv

\* Calls of user code leave the stack alone.
LEMMA UserCallFrame ==
    ASSUME UserCall
    PROVE  /\ UNCHANGED <<stack, flushingEffects, pendingUpdates, panicked, announced>>
           /\ stack # <<>>
<1>1. InUserCode => stack # <<>>
    BY DEF InUserCode, Running
<1>2. ASSUME NEW e \in Entities, notify(e) \/ emit(e) \/ new(e) \/ dropHandle(e) \/ keepHandle(e)
      PROVE  /\ UNCHANGED <<stack, flushingEffects, pendingUpdates, panicked, announced>>
             /\ stack # <<>>
    BY <1>1, <1>2 DEF notify, emit, new, dropHandle, keepHandle, Call, app, ghosts
<1>3. ASSUME NEW kind, NEW key, NewSubscription(kind, key)
      PROVE  /\ UNCHANGED <<stack, flushingEffects, pendingUpdates, panicked, announced>>
             /\ stack # <<>>
    BY <1>1, <1>3 DEF NewSubscription, Call, ghosts
<1>4. ASSUME NEW s \in DOMAIN subs, unsubscribe(s)
      PROVE  /\ UNCHANGED <<stack, flushingEffects, pendingUpdates, panicked, announced>>
             /\ stack # <<>>
    BY <1>1, <1>4 DEF unsubscribe, Call, app
<1>5. ASSUME defer
      PROVE  /\ UNCHANGED <<stack, flushingEffects, pendingUpdates, panicked, announced>>
             /\ stack # <<>>
    BY <1>1, <1>5 DEF defer, Call, ghosts
<1>6. ASSUME NEW g \in Globals, set_global(g) \/ remove_global(g)
      PROVE  /\ UNCHANGED <<stack, flushingEffects, pendingUpdates, panicked, announced>>
             /\ stack # <<>>
    BY <1>1, <1>6 DEF set_global, remove_global, Call
<1>7. ASSUME NEW w \in Windows, remove_window(w)
      PROVE  /\ UNCHANGED <<stack, flushingEffects, pendingUpdates, panicked, announced>>
             /\ stack # <<>>
    BY <1>1, <1>7 DEF remove_window, Call, app, ghosts
<1>8. QED
    BY <1>2, <1>3, <1>4, <1>5, <1>6, <1>7 DEF UserCall, observe, subscribe, observe_global

\* Steps of updates and of shutdown.
LEMMA UpdatesStack ==
    TypeOK /\ StackInv /\ (Updates \/ shutdown \/ shutdownFlush) => StackInv'
<1> SUFFICES ASSUME TypeOK, StackInv, Updates \/ shutdown \/ shutdownFlush PROVE StackInv'
    OBVIOUS
<1>1. ASSUME NEW w \in Windows \union {None}, start_update \/ update_window(w),
             stack' = <<[k |-> "update", key |-> None, window |-> w]>> \o stack
      PROVE  StackInv'
  <2>1. [k |-> "update", key |-> None, window |-> w] \in Frame
      BY FramesMade
  <2>2. /\ ~panicked /\ ~panicked' /\ flushingEffects' = flushingEffects
        /\ pendingUpdates' = pendingUpdates + 1
      BY <1>1 DEF start_update, update_window
  <2>3. QED
      BY <1>1, <2>1, <2>2, StackPush DEF UpdateFlush
<1>2. ASSUME NEW w \in Windows, trail(w) PROVE StackInv'
  <2>1. /\ stack # <<>> /\ Head(stack) \in Frame /\ Head(stack).k = "update"
        /\ [Head(stack) EXCEPT !.window = None] \in Frame
        /\ [Head(stack) EXCEPT !.window = None].k = "update"
      BY <1>2, HeadFrame, FramesChanged DEF trail
  <2>2. PICK g \in Frame : g.k = "update" /\ stack' = <<g>> \o Tail(stack)
      BY <1>2, <2>1 DEF trail
  <2>3. ~panicked' /\ UNCHANGED <<flushingEffects, pendingUpdates>>
      BY <1>2, <2>1, RunningNotPanicked DEF trail, app
  <2>4. [k |-> "call", key |-> None] \in Frame /\ [k |-> "call", key |-> None].k = "call"
      BY FramesMade
  <2>5. QED
      BY <2>1, <2>2, <2>3, <2>4, StackSwap
<1>3. ASSUME finish_update PROVE StackInv'
  <2>1. stack # <<>> /\ Head(stack).k = "update" /\ Head(stack) # UpdateFlush
      BY <1>3, HeadFrame DEF finish_update, UpdateFlush
  <2>2. ~panicked'
      BY <1>3, <2>1, RunningNotPanicked DEF finish_update
  <2>3. CASE Outermost
    <3>1. /\ ~flushingEffects /\ flushingEffects' = TRUE /\ pendingUpdates' = pendingUpdates
          /\ stack' = <<UpdateFlush>> \o Tail(stack)
        BY <1>3, <2>3 DEF finish_update, Outermost, UpdateFlush
    <3>2. QED
        BY <2>1, <2>2, <3>1, StackFlush
  <2>4. CASE ~Outermost
    <3>1. /\ flushingEffects' = flushingEffects /\ pendingUpdates' = pendingUpdates - 1
          /\ stack' = Tail(stack)
        BY <1>3, <2>4 DEF finish_update
    <3>2. flushingEffects' = (flushingEffects /\ Head(stack) # UpdateFlush)
        BY <2>1, <3>1 DEF TypeOK
    <3>3. QED
        BY <2>1, <2>2, <3>1, <3>2, StackPop
  <2>5. QED
      BY <2>3, <2>4
<1>4. ASSUME shutdown PROVE StackInv'
  <2>1. [k |-> "quit"] \in Frame /\ [k |-> "quit"].k = "quit" /\ [k |-> "quit"] # UpdateFlush
      BY FramesMade DEF UpdateFlush
  <2>2. /\ ~panicked /\ ~panicked' /\ stack = <<>> /\ stack' = <<[k |-> "quit"]>> \o stack
        /\ flushingEffects' = flushingEffects /\ pendingUpdates' = pendingUpdates
      BY <1>4 DEF shutdown, app
  <2>3. QED
      BY <2>1, <2>2, StackPush
<1>5. ASSUME shutdownFlush PROVE StackInv'
  <2>1. /\ stack # <<>> /\ Head(stack).k = "quit" /\ Len(stack) \in Nat /\ Len(stack) > 0
        /\ stack \in Seq(Frame)
      BY <1>5, HeadFrame DEF shutdownFlush
  <2>2. Len(stack) = 1 /\ At(1) = Head(stack)
    <3>1. \A d : d = Len(stack) => At(d) = Head(stack)
        BY <2>1, AtProperties
    <3>2. ASSUME Len(stack) > 1 PROVE FALSE
      <4>1. Len(stack) \in 2..Len(stack)
          BY <2>1, <3>2
      <4>2. QED
          BY <2>1, <3>1, <4>1, RunningNotPanicked
    <3>3. Len(stack) = 1
      <4>1. \A n \in Nat : n > 0 /\ ~(n > 1) => n = 1
          OBVIOUS
      <4>2. QED
          BY <2>1, <3>2, <4>1, Zenon
    <3>4. QED
        BY <3>1, <3>3
  <2>3. Counted = {} /\ ~flushingEffects
      BY <2>1, <2>2, RunningNotPanicked DEF Counted, UpdateFlush
  <2>4. /\ stack' = <<[k |-> "flush", by |-> "shutdown"]>>
        /\ UNCHANGED <<flushingEffects, pendingUpdates, panicked>>
      BY <1>5 DEF shutdownFlush, app
  <2>5. /\ Len(stack') = 1 /\ At(1)' = [k |-> "flush", by |-> "shutdown"]
        /\ [k |-> "flush", by |-> "shutdown"] # UpdateFlush
      BY <2>4 DEF At, UpdateFlush
  <2>6. Counted' = {}
      BY <2>5 DEF Counted
  <2>7. stack' # <<>>
      BY <2>4
  <2>8. QED
      BY <2>1, <2>3, <2>4, <2>5, <2>6, <2>7, RunningNotPanicked DEF StackInv
<1>6. QED
    BY <1>1, <1>2, <1>3, <1>4, <1>5 DEF Updates, start_update, update_window

\* Applying a notification or an event starts a delivery.
LEMMA DeliveryPushed ==
    ASSUME TypeOK, apply_notify_effect \/ apply_emit_effect
    PROVE  \E f \in Frame : f.k = "deliver" /\ stack' = <<f>> \o stack
<1>1. CASE apply_notify_effect
  <2>1. Head(pendingEffects) \in Effect /\ Head(pendingEffects).k = "notify"
      BY <1>1, ApplyEffect DEF TypeOK, apply_notify_effect, Pop
  <2>2. Head(pendingEffects).key \in Keys /\ 0 \in 0..MaxEvents
      BY <2>1, EffectFields, BoundsAssumption
  <2>3. stack' = <<Retain("observer", Head(pendingEffects).key, 0)>> \o stack
      BY <1>1 DEF apply_notify_effect
  <2>4. QED
      BY <2>2, <2>3, RetainTyped
<1>2. CASE apply_emit_effect
  <2>1. Head(pendingEffects) \in Effect /\ Head(pendingEffects).k = "emit"
      BY <1>2, ApplyEffect DEF TypeOK, apply_emit_effect, Pop
  <2>2. Head(pendingEffects).key \in Keys /\ Head(pendingEffects).event \in 0..MaxEvents
      BY <2>1, EffectFields DEF Keys
  <2>3. stack' = <<Retain("listener", Head(pendingEffects).key,
                          Head(pendingEffects).event)>> \o stack
      BY <1>2 DEF apply_emit_effect
  <2>4. QED
      BY <2>2, <2>3, RetainTyped
<1>3. QED
    BY <1>1, <1>2

\* An EntityCreated effect calls the observer of the type, or panics.
LEMMA CreatedPushed ==
    ASSUME TypeOK, apply_entity_created_effect
    PROVE  \/ \E f \in Frame : f.k \in {"call", "update"} /\ stack' = <<f>> \o stack
           \/ panicked' /\ stack' = <<>>
<1>1. Head(pendingEffects) \in Effect /\ Head(pendingEffects).k = "created"
    BY ApplyEffect DEF TypeOK, apply_entity_created_effect, Pop
<1>2. /\ [k |-> "call", key |-> Head(pendingEffects).key] \in Frame
      /\ [k |-> "update", key |-> Head(pendingEffects).key,
          window |-> Head(pendingEffects).window] \in Frame
    BY <1>1, EffectFields, FramesMade
<1>3. QED
    BY <1>2 DEF apply_entity_created_effect

\* Steps of a flush.
LEMMA FlushStack == TypeOK /\ StackInv /\ Flush => StackInv'
<1> SUFFICES ASSUME TypeOK, StackInv, Flush PROVE StackInv'
    OBVIOUS
<1>1. ASSUME NEW f \in Frame, f.k \in {"release", "call", "deliver"},
             NEW k, Running(k), stack' = <<f>> \o stack,
             UNCHANGED <<flushingEffects, pendingUpdates, panicked>>
      PROVE  StackInv'
  <2>1. stack # <<>> /\ ~panicked /\ ~panicked' /\ f # UpdateFlush
      BY <1>1, RunningNotPanicked DEF Running, UpdateFlush
  <2>2. QED
      BY <1>1, <2>1, StackPush
<1>2. ASSUME take_dropped PROVE StackInv'
  <2>1. Dropped \in SUBSET Entities
      BY DEF Dropped
  <2>2. [k |-> "release", rest |-> Dropped] \in Frame
      BY <2>1, FramesMade
  <2>3. QED
      BY <1>1, <1>2, <2>2 DEF take_dropped, app
<1>3. ASSUME NEW e \in Entities, release(e) PROVE StackInv'
  <2>1. /\ stack # <<>> /\ stack \in Seq(Frame) /\ Head(stack).k = "release"
        /\ Head(stack).rest \subseteq Entities
      BY <1>3, HeadFrame, FrameFields DEF release
  <2>2. /\ [k |-> "release", rest |-> Head(stack).rest \ {e}] \in Frame
        /\ [k |-> "call", key |-> None] \in Frame
      BY <2>1, FramesMade
  <2>3. ~panicked' /\ UNCHANGED <<flushingEffects, pendingUpdates>>
      BY <1>3, <2>1, RunningNotPanicked DEF release, app
  <2>4. stack' = <<[k |-> "call", key |-> None],
                   [k |-> "release", rest |-> Head(stack).rest \ {e}]>> \o Tail(stack)
      BY <1>3 DEF release
  <2>5. QED
      BY <2>1, <2>2, <2>3, <2>4, StackSwap
<1>4. ASSUME NEW k \in {"release", "deliver", "call"}, Running(k), stack' = Tail(stack),
             UNCHANGED <<flushingEffects, pendingUpdates, panicked>>
      PROVE  StackInv'
  <2>1. /\ stack # <<>> /\ Head(stack).k \in {"release", "deliver", "call"}
        /\ Head(stack) # UpdateFlush
      BY <1>4 DEF Running, UpdateFlush
  <2>2. ~panicked'
      BY <1>4, <2>1, RunningNotPanicked
  <2>3. flushingEffects' = (flushingEffects /\ Head(stack) # UpdateFlush)
      BY <1>4, <2>1 DEF TypeOK
  <2>4. QED
      BY <1>4, <2>1, <2>2, <2>3, StackPop
<1>5. ASSUME apply_notify_effect \/ apply_emit_effect PROVE StackInv'
  <2>1. PICK f \in Frame : f.k = "deliver" /\ stack' = <<f>> \o stack
      BY <1>5, DeliveryPushed
  <2>2. Running("flush") /\ UNCHANGED <<flushingEffects, pendingUpdates, panicked>>
      BY <1>5 DEF apply_notify_effect, apply_emit_effect, Pop
  <2>3. QED
      BY <1>1, <2>1, <2>2
<1>6. ASSUME activate PROVE StackInv'
    BY <1>6 DEF activate, StackInv, At, Counted
<1>7. ASSUME apply_defer_effect PROVE StackInv'
  <2>1. /\ [k |-> "call", key |-> None] \in Frame /\ Running("flush")
        /\ stack' = <<[k |-> "call", key |-> None]>> \o stack
        /\ UNCHANGED <<flushingEffects, pendingUpdates, panicked>>
      BY <1>7, FramesMade DEF apply_defer_effect, Pop
  <2>2. QED
      BY <1>1, <2>1
<1>8. ASSUME apply_entity_created_effect PROVE StackInv'
  <2>1. Head(pendingEffects) \in Effect /\ Head(pendingEffects).k = "created" /\ Running("flush")
      BY <1>8, ApplyEffect DEF TypeOK, apply_entity_created_effect, Pop
  <2>2. /\ Head(pendingEffects).key \in Entities
        /\ Head(pendingEffects).window \in Windows \union {None}
      BY <2>1, EffectFields
  <2>3. CASE /\ stack' = <<[k |-> "call", key |-> Head(pendingEffects).key]>> \o stack
             /\ UNCHANGED <<flushingEffects, pendingUpdates, panicked>>
    <3>1. [k |-> "call", key |-> Head(pendingEffects).key] \in Frame
        BY <2>2, FramesMade
    <3>2. QED
        BY <1>1, <2>1, <2>3, <3>1
  <2>4. CASE /\ stack' = <<[k |-> "update", key |-> Head(pendingEffects).key,
                            window |-> Head(pendingEffects).window]>> \o stack
             /\ pendingUpdates' = pendingUpdates + 1
             /\ UNCHANGED <<flushingEffects, panicked>>
    <3>1. /\ [k |-> "update", key |-> Head(pendingEffects).key,
              window |-> Head(pendingEffects).window] \in Frame
          /\ [k |-> "update", key |-> Head(pendingEffects).key,
              window |-> Head(pendingEffects).window].k = "update"
        BY <2>2, FramesMade
    <3>2. stack # <<>> /\ ~panicked /\ ~panicked'
        BY <2>1, <2>4, RunningNotPanicked DEF Running
    <3>3. QED
        BY <2>4, <3>1, <3>2, StackPush DEF UpdateFlush
  <2>5. CASE panicked' = TRUE /\ stack' = <<>>
      BY <2>5 DEF StackInv
  <2>6. QED
      BY <1>8, <2>3, <2>4, <2>5 DEF apply_entity_created_effect
<1>9. ASSUME flushed PROVE StackInv'
  <2>1. /\ stack # <<>> /\ Head(stack) \in Frame /\ Head(stack).k = "flush"
        /\ stack' = Tail(stack)
      BY <1>9, HeadFrame DEF flushed
  <2>2. ~panicked'
      BY <1>9, <2>1, RunningNotPanicked DEF flushed
  <2>3. Head(stack) = UpdateFlush <=> Head(stack).by = "update"
      BY <2>1, FlushFrame
  <2>4. flushingEffects' = (flushingEffects /\ Head(stack) # UpdateFlush)
    <3>1. CASE Head(stack) = UpdateFlush
        BY <1>9, <2>3, <3>1 DEF flushed
    <3>2. CASE Head(stack) # UpdateFlush
        BY <1>9, <2>3, <3>2 DEF flushed, TypeOK
    <3>3. QED
        BY <3>1, <3>2
  <2>5. pendingUpdates' = IF Head(stack).k = "update" \/ Head(stack) = UpdateFlush
                          THEN pendingUpdates - 1 ELSE pendingUpdates
      BY <1>9, <2>1, <2>3 DEF flushed
  <2>6. QED
      BY <2>1, <2>2, <2>4, <2>5, StackPop
<1>10. ASSUME NEW s \in DOMAIN subs,
              callSubscriber(s) \/ expireSubscriber(s) \/ skipSubscriber(s)
       PROVE  StackInv'
  <2>1. IsNext(s) /\ UNCHANGED <<flushingEffects, pendingUpdates, panicked>>
      BY <1>10 DEF callSubscriber, expireSubscriber, skipSubscriber, app
  <2>2. /\ [Head(stack) EXCEPT !.rest = @ \ {s}] \in Frame
        /\ [Head(stack) EXCEPT !.rest = @ \ {s}].k = "deliver"
        /\ stack # <<>> /\ Head(stack).k = "deliver"
      BY <2>1, VisitedTyped, FramesChanged
  <2>3. PICK key \in Entities \union {None} :
            \/ stack' = WithoutNext(s)
            \/ stack' = <<[k |-> "call", key |-> key]>> \o WithoutNext(s)
      BY <1>10 DEF callSubscriber, expireSubscriber, skipSubscriber
  <2>4. [k |-> "call", key |-> key] \in Frame /\ [k |-> "call", key |-> key].k = "call"
      BY FramesMade
  <2>5. ~panicked'
      BY <2>1, <2>2, RunningNotPanicked
  <2>6. PICK g \in Frame : /\ g.k = "deliver"
                           /\ \/ stack' = <<g>> \o Tail(stack)
                              \/ stack' = <<[k |-> "call", key |-> key]>> \o (<<g>> \o Tail(stack))
      BY <2>2, <2>3 DEF WithoutNext
  <2>7. QED
      BY <2>1, <2>2, <2>4, <2>5, <2>6, StackSwap
<1>11. ASSUME released \/ delivered \/ return PROVE StackInv'
    BY <1>4, <1>11 DEF released, delivered, return, app
<1>12. QED
    BY <1>2, <1>3, <1>5, <1>6, <1>7, <1>8, <1>9, <1>10, <1>11 DEF Flush

\* The initial state: nothing runs.
LEMMA InitStack == Init => TypeOK /\ StackInv
<1> SUFFICES ASSUME Init PROVE TypeOK /\ StackInv
    OBVIOUS
<1>1. TypeOK
  <2>1. flushingEffects \in BOOLEAN /\ panicked \in BOOLEAN
      BY Zenon DEF Init
  <2>2. QED
      BY <2>1, BoundsAssumption DEF Init, TypeOK
<1>2. Len(stack) = 0 /\ 1..Len(stack) = {} /\ 2..Len(stack) = {}
    BY EmptySeq DEF Init
<1>3. Counted = {}
    BY <1>2 DEF Counted
<1>4. QED
    BY <1>1, <1>2, <1>3, FS_EmptySet DEF Init, StackInv

\* Every step, with or without a shutdown, keeps the types and the flags.
LEMMA StackStep == TypeOK /\ StackInv /\ [ShutdownNext]_vars => TypeOK' /\ StackInv'
<1> SUFFICES ASSUME TypeOK, StackInv, [ShutdownNext]_vars PROVE TypeOK' /\ StackInv'
    OBVIOUS
<1>1. CASE UNCHANGED vars
    BY <1>1 DEF vars, app, world, ghosts, TypeOK, StackInv, At, Counted
<1>2. CASE UserCall
  <2>1. UNCHANGED <<stack, flushingEffects, pendingUpdates, panicked>>
      BY <1>2, UserCallFrame
  <2>2. StackInv'
      BY <2>1 DEF StackInv, At, Counted
  <2>3. QED
      BY <1>2, <2>2, UserCallTyped
<1>3. QED
    BY <1>1, <1>2, UpdatesTyped, FlushTyped, UpdatesStack, FlushStack DEF ShutdownNext, Next, Rest

\* The state of the App keeps its types and its flags describe the call stack,
\* through nested updates, panics and a shutdown.
THEOREM FlagsDescribeStack == ShutdownSpec => [](TypeOK /\ StackInv)
BY InitStack, StackStep, PTL DEF ShutdownSpec

\* Without a shutdown the same holds, as every behaviour is one of ShutdownSpec.
THEOREM SpecImpliesShutdownSpec == Spec => ShutdownSpec
<1>1. [Next]_vars => [ShutdownNext]_vars
    BY DEF ShutdownNext
<1>2. QED
    BY <1>1, PTL DEF Spec, ShutdownSpec

-----------------------------------------------------------------------------
(* Rest.                                                                    *)

\* The stack becomes empty when its outermost frame returns.
LEMMA LastFrame ==
    ASSUME TypeOK, StackInv, stack # <<>>, stack' = Tail(stack), stack' = <<>>
    PROVE  Len(stack) = 1 /\ At(1) = Head(stack) /\ Head(stack).k \in {"update", "flush", "quit"}
<1>1. /\ Len(stack') = Len(stack) - 1 /\ Len(stack') = 0 /\ Len(stack) \in Nat
      /\ \A d : d = Len(stack) => At(d) = Head(stack)
    BY PopFrame, AtProperties, EmptySeq DEF TypeOK
<1>2. Len(stack) = 1
  <2>1. \A m, n \in Nat : m = n - 1 /\ m = 0 => n = 1
      OBVIOUS
  <2>2. QED
      BY <1>1, <2>1
<1>3. QED
    BY <1>1, <1>2, RunningNotPanicked

\* A step to the empty stack leaves nothing to do.
LEMMA SettledStep ==
    ASSUME TypeOK, StackInv, StackInv', SettledAtRest, [ShutdownNext]_vars
    PROVE  SettledAtRest'
<1> SUFFICES ASSUME stack' = <<>>, ~panicked'
             PROVE  /\ pendingEffects' = <<>> /\ Dropped' = {}
                    /\ pendingUpdates' = 0 /\ ~flushingEffects'
    BY DEF SettledAtRest
<1>1. pendingUpdates' = 0 /\ ~flushingEffects'
  <2>1. 1..Len(stack') = {}
      BY EmptySeq
  <2>2. Counted' = {}
      BY <2>1 DEF Counted
  <2>3. QED
      BY <2>1, <2>2, FS_EmptySet DEF StackInv
<1>2. pendingEffects' = <<>> /\ Dropped' = {}
  <2>1. CASE UNCHANGED vars
      BY <2>1 DEF SettledAtRest, vars, app, world, Dropped
  <2>2. CASE UserCall
      BY <2>2, UserCallFrame
  <2>3. CASE stack' # <<>>
      BY <2>3
  <2>4. CASE finish_update
    <3>1. stack # <<>> /\ Head(stack).k = "update"
        BY <2>4, HeadFrame DEF finish_update
    <3>2. CASE Outermost
      <4>1. stack' = <<UpdateFlush>> \o Tail(stack) /\ UpdateFlush \in Frame
          BY <2>4, <3>2, FramesMade DEF finish_update, UpdateFlush
      <4>2. QED
          BY <3>1, <4>1, ReplaceFrame DEF TypeOK
    <3>3. CASE ~Outermost
      <4>1. stack' = Tail(stack)
          BY <2>4, <3>3 DEF finish_update
      <4>2. Len(stack) = 1 /\ At(1) = Head(stack)
          BY <3>1, <4>1, LastFrame
      <4>3. 1..Len(stack) = {1} /\ Head(stack) # UpdateFlush
          BY <3>1, <4>2 DEF UpdateFlush
      <4>4. Counted = {1} /\ ~flushingEffects
          BY <3>1, <4>2, <4>3, RunningNotPanicked DEF Counted
      <4>5. pendingUpdates = 1
          BY <3>1, <4>4, FS_Singleton, RunningNotPanicked
      <4>6. QED
          BY <3>3, <4>4, <4>5 DEF Outermost
    <3>4. QED
        BY <3>2, <3>3
  <2>5. CASE released \/ delivered \/ return
    <3>1. stack # <<>> /\ Head(stack).k \in {"release", "deliver", "call"} /\ stack' = Tail(stack)
        BY <2>5, HeadFrame DEF released, delivered, return
    <3>2. QED
        BY <3>1, LastFrame
  <2>6. CASE flushed
      BY <2>6 DEF flushed, Dropped, world
  <2>7. ASSUME NEW f \in Frame, stack' = <<f>> \o stack PROVE FALSE
      BY <2>7, PushFrame DEF TypeOK
  <2>8. CASE Updates /\ ~finish_update
    <3>1. ASSUME NEW w \in Windows, trail(w) PROVE FALSE
      <4>1. /\ stack # <<>> /\ [Head(stack) EXCEPT !.window = None] \in Frame
            /\ stack' = <<[Head(stack) EXCEPT !.window = None]>> \o Tail(stack)
          BY <3>1, HeadFrame, FramesChanged DEF trail
      <4>2. QED
          BY <4>1, ReplaceFrame DEF TypeOK
    <3>2. QED
        BY <2>7, <2>8, <3>1, FramesMade DEF Updates, start_update, update_window
  <2>9. CASE shutdown \/ shutdownFlush
    <3>1. PICK f : stack' = <<f>>
        BY <2>9 DEF shutdown, shutdownFlush
    <3>2. QED
        BY <3>1
  <2>10. CASE take_dropped \/ apply_defer_effect
    <3>1. Dropped \in SUBSET Entities
        BY DEF Dropped
    <3>2. PICK f \in Frame : stack' = <<f>> \o stack
        BY <2>10, <3>1, FramesMade DEF take_dropped, apply_defer_effect
    <3>3. QED
        BY <2>7, <3>2
  <2>11. ASSUME NEW e \in Entities, release(e) PROVE FALSE
    <3>1. stack # <<>> /\ stack \in Seq(Frame) /\ Head(stack).rest \subseteq Entities
        BY <2>11, HeadFrame, FrameFields DEF release
    <3>2. /\ [k |-> "release", rest |-> Head(stack).rest \ {e}] \in Frame
          /\ [k |-> "call", key |-> None] \in Frame
        BY <3>1, FramesMade
    <3>3. QED
        BY <2>11, <3>1, <3>2, CallFrame DEF release
  <2>12. CASE apply_notify_effect \/ apply_emit_effect
      BY <2>7, <2>12, DeliveryPushed
  <2>13. CASE activate
      BY <2>13 DEF activate, Pop, Running
  <2>14. CASE apply_entity_created_effect
      BY <2>7, <2>14, CreatedPushed
  <2>15. ASSUME NEW s \in DOMAIN subs,
                callSubscriber(s) \/ expireSubscriber(s) \/ skipSubscriber(s)
         PROVE  FALSE
    <3>1. IsNext(s)
        BY <2>15 DEF callSubscriber, expireSubscriber, skipSubscriber
    <3>2. /\ [Head(stack) EXCEPT !.rest = @ \ {s}] \in Frame
          /\ stack # <<>> /\ stack \in Seq(Frame)
        BY <3>1, VisitedTyped
    <3>3. PICK key \in Entities \union {None} :
              \/ stack' = WithoutNext(s)
              \/ stack' = <<[k |-> "call", key |-> key]>> \o WithoutNext(s)
        BY <2>15 DEF callSubscriber, expireSubscriber, skipSubscriber
    <3>4. [k |-> "call", key |-> key] \in Frame
        BY FramesMade
    <3>5. QED
        BY <3>2, <3>3, <3>4, CallFrame, ReplaceFrame DEF WithoutNext
  <2>16. QED
      BY <2>1, <2>2, <2>4, <2>5, <2>6, <2>8, <2>9, <2>10, <2>11, <2>12, <2>13, <2>14, <2>15
         DEF ShutdownNext, Next, Flush, Rest
<1>3. QED
    BY <1>1, <1>2

\* When the outermost update, or shutdown, has returned, every effect was applied
\* and every dropped entity released: finish_update leaves nothing behind.
THEOREM NothingLeftAtRest == ShutdownSpec => []SettledAtRest
<1>1. Init => SettledAtRest
    BY DEF Init, SettledAtRest, Dropped
<1>2. TypeOK /\ StackInv /\ SettledAtRest /\ [ShutdownNext]_vars => SettledAtRest'
    BY StackStep, SettledStep
<1>3. QED
    BY FlagsDescribeStack, <1>1, <1>2, PTL DEF ShutdownSpec

-----------------------------------------------------------------------------
(* Pending notifications.                                                   *)

\* A notification of key is queued.
NotifyQueued(key) ==
    \E i \in DOMAIN pendingEffects : pendingEffects[i].k = "notify" /\ pendingEffects[i].key = key

\* PendingExact, key by key.
PendingInv ==
    /\ \A key : key \in pendingNotifications <=> NotifyQueued(key)
    /\ \A i, j \in DOMAIN pendingEffects :
          /\ pendingEffects[i].k = "notify" /\ pendingEffects[j].k = "notify"
          /\ pendingEffects[i].key = pendingEffects[j].key
          => i = j

\* Another kind of effect is queued.
LEMMA PendingPush ==
    ASSUME TypeOK, PendingInv, NEW f \in Effect, f.k # "notify", Push(f),
           pendingNotifications' = pendingNotifications
    PROVE  PendingInv'
<1>1. /\ Len(pendingEffects) \in Nat
      /\ DOMAIN pendingEffects = 1..Len(pendingEffects)
      /\ DOMAIN pendingEffects' = 1..Len(pendingEffects) + 1
      /\ \A i \in 1..Len(pendingEffects) : pendingEffects'[i] = pendingEffects[i]
      /\ pendingEffects'[Len(pendingEffects) + 1] = f
    BY QueueEffect DEF TypeOK
<1>2. /\ DOMAIN pendingEffects \subseteq DOMAIN pendingEffects'
      /\ \A i \in DOMAIN pendingEffects' :
            pendingEffects'[i].k = "notify" =>
                i \in DOMAIN pendingEffects /\ pendingEffects'[i] = pendingEffects[i]
    BY <1>1
<1>3. \A key : NotifyQueued(key)' <=> NotifyQueued(key)
    BY <1>1, <1>2 DEF NotifyQueued
<1>4. QED
    BY <1>2, <1>3 DEF PendingInv

\* A notification is queued, if it is not pending.
LEMMA PendingNotify ==
    ASSUME TypeOK, PendingInv, NEW key \in Keys, PushNotify(key)
    PROVE  PendingInv' /\ NotifyQueued(key)' /\ \A x : NotifyQueued(x) => NotifyQueued(x)'
<1>1. CASE key \in pendingNotifications
  <2>1. UNCHANGED <<pendingNotifications, pendingEffects>>
      BY <1>1 DEF PushNotify
  <2>2. QED
      BY <1>1, <2>1 DEF PendingInv, NotifyQueued
<1>2. CASE key \notin pendingNotifications
  <2>1. PICK f \in Effect : f.k = "notify" /\ f.key = key /\ Push(f)
      BY <1>2, EffectsMade DEF PushNotify
  <2>2. pendingNotifications' = pendingNotifications \union {key}
      BY <1>2 DEF PushNotify
  <2>3. /\ Len(pendingEffects) \in Nat
        /\ DOMAIN pendingEffects = 1..Len(pendingEffects)
        /\ DOMAIN pendingEffects' = 1..Len(pendingEffects) + 1
        /\ \A i \in 1..Len(pendingEffects) : pendingEffects'[i] = pendingEffects[i]
        /\ pendingEffects'[Len(pendingEffects) + 1] = f
      BY <2>1, QueueEffect DEF TypeOK
  <2>4. \A x : NotifyQueued(x)' <=> NotifyQueued(x) \/ x = key
    <3>1. ASSUME NEW x, NotifyQueued(x)' PROVE NotifyQueued(x) \/ x = key
        BY <2>1, <2>3, <3>1 DEF NotifyQueued
    <3>2. ASSUME NEW x, NotifyQueued(x) PROVE NotifyQueued(x)'
        BY <2>3, <3>2 DEF NotifyQueued
    <3>3. NotifyQueued(key)'
      <4>1. Len(pendingEffects) + 1 \in DOMAIN pendingEffects'
          BY <2>3
      <4>2. QED
          BY <2>1, <2>3, <4>1 DEF NotifyQueued
    <3>4. QED
        BY <3>1, <3>2, <3>3
  <2>5. \A i \in DOMAIN pendingEffects :
            ~(pendingEffects[i].k = "notify" /\ pendingEffects[i].key = key)
      BY <1>2 DEF PendingInv, NotifyQueued
  <2>6. \A i \in DOMAIN pendingEffects' :
            \/ i \in DOMAIN pendingEffects /\ pendingEffects'[i] = pendingEffects[i]
            \/ i = Len(pendingEffects) + 1 /\ pendingEffects'[i] = f
      BY <2>3
  <2>7. \A i, j \in DOMAIN pendingEffects' :
            /\ pendingEffects'[i].k = "notify" /\ pendingEffects'[j].k = "notify"
            /\ pendingEffects'[i].key = pendingEffects'[j].key
            => i = j
      BY <2>1, <2>5, <2>6 DEF PendingInv
  <2>8. QED
      BY <2>2, <2>4, <2>7 DEF PendingInv
<1>3. QED
    BY <1>1, <1>2

\* An effect is applied; a notification is no longer pending.
LEMMA PendingPop ==
    ASSUME TypeOK, PendingInv, NEW k, Pop(k),
           IF k = "notify" THEN ClearPending(Head(pendingEffects).key)
                           ELSE pendingNotifications' = pendingNotifications
    PROVE  PendingInv'
<1>1. /\ Len(pendingEffects) \in Nat /\ Len(pendingEffects) > 0
      /\ DOMAIN pendingEffects = 1..Len(pendingEffects)
      /\ DOMAIN pendingEffects' = 1..Len(pendingEffects) - 1
      /\ \A i \in 1..Len(pendingEffects) - 1 : pendingEffects'[i] = pendingEffects[i + 1]
      /\ Head(pendingEffects) = pendingEffects[1] /\ pendingEffects[1].k = k
    BY ApplyEffect DEF TypeOK
<1>2. /\ \A i \in DOMAIN pendingEffects' :
            i + 1 \in DOMAIN pendingEffects /\ pendingEffects'[i] = pendingEffects[i + 1]
      /\ \A i \in DOMAIN pendingEffects : i # 1 =>
            i - 1 \in DOMAIN pendingEffects' /\ pendingEffects'[i - 1] = pendingEffects[i]
    BY <1>1
<1>3. \A i, j \in DOMAIN pendingEffects' :
          /\ pendingEffects'[i].k = "notify" /\ pendingEffects'[j].k = "notify"
          /\ pendingEffects'[i].key = pendingEffects'[j].key
          => i = j
  <2>1. \A i, j \in DOMAIN pendingEffects' : i + 1 = j + 1 => i = j
      BY <1>1
  <2>2. QED
      BY <1>2, <2>1 DEF PendingInv
<1>4. ASSUME NEW x, NotifyQueued(x)' PROVE NotifyQueued(x) /\ x \in pendingNotifications'
  <2>1. PICK i \in DOMAIN pendingEffects' :
            pendingEffects'[i].k = "notify" /\ pendingEffects'[i].key = x
      BY <1>4 DEF NotifyQueued
  <2>2. /\ i + 1 \in DOMAIN pendingEffects /\ i + 1 # 1
        /\ pendingEffects[i + 1].k = "notify" /\ pendingEffects[i + 1].key = x
      BY <1>1, <1>2, <2>1
  <2>3. NotifyQueued(x) /\ x \in pendingNotifications
      BY <2>2 DEF NotifyQueued, PendingInv
  <2>4. k = "notify" => Head(pendingEffects).key # x
      BY <1>1, <2>2 DEF PendingInv
  <2>5. QED
      BY <2>3, <2>4 DEF ClearPending
<1>5. ASSUME NEW x, x \in pendingNotifications' PROVE NotifyQueued(x)'
  <2>1. x \in pendingNotifications /\ (k = "notify" => x # Head(pendingEffects).key)
      BY <1>5 DEF ClearPending
  <2>2. PICK i \in DOMAIN pendingEffects :
            pendingEffects[i].k = "notify" /\ pendingEffects[i].key = x
      BY <2>1 DEF PendingInv, NotifyQueued
  <2>3. i # 1
      BY <1>1, <2>1, <2>2
  <2>4. QED
      BY <1>2, <2>2, <2>3 DEF NotifyQueued
<1>6. QED
    BY <1>3, <1>4, <1>5 DEF PendingInv

\* Steps that leave the queue alone.
LEMMA PendingSame ==
    ASSUME PendingInv, UNCHANGED <<pendingEffects, pendingNotifications>>
    PROVE  PendingInv'
BY DEF PendingInv, NotifyQueued

\* Every step keeps the set of pending notifications exact.
LEMMA PendingStep == TypeOK /\ PendingInv /\ [ShutdownNext]_vars => PendingInv'
<1> SUFFICES ASSUME TypeOK, PendingInv, [ShutdownNext]_vars PROVE PendingInv'
    OBVIOUS
<1>1. CASE UserCall
  <2>1. ASSUME NEW e \in Entities, notify(e) PROVE PendingInv'
      BY <2>1, PendingNotify DEF notify, Keys
  <2>2. ASSUME NEW e \in Entities, emit(e) PROVE PendingInv'
    <3>1. events + 1 \in 1..MaxEvents
        BY <2>2, BoundsAssumption DEF emit, TypeOK
    <3>2. QED
        BY <2>2, <3>1, EffectsMade, PendingPush DEF emit, PushEvent
  <2>3. ASSUME NEW e \in Entities, new(e) PROVE PendingInv'
      BY <2>3, EffectsMade, CurrentWindowType, PendingPush DEF new
  <2>4. ASSUME NEW e \in Entities, dropHandle(e) \/ keepHandle(e) PROVE PendingInv'
      BY <2>4, PendingSame DEF dropHandle, keepHandle, app
  <2>5. ASSUME NEW kind, NEW key, NewSubscription(kind, key) PROVE PendingInv'
    <3>1. NextSub \in 1..MaxSubs
        BY <2>5, SubFields, BoundsAssumption DEF NewSubscription, NextSub
    <3>2. QED
        BY <2>5, <3>1, EffectsMade, PendingPush DEF NewSubscription
  <2>6. ASSUME NEW s \in DOMAIN subs, unsubscribe(s) PROVE PendingInv'
      BY <2>6, PendingSame DEF unsubscribe, app
  <2>7. ASSUME defer PROVE PendingInv'
      BY <2>7, EffectsMade, PendingPush DEF defer
  <2>8. ASSUME NEW g \in Globals, set_global(g) \/ remove_global(g) PROVE PendingInv'
      BY <2>8, PendingNotify DEF set_global, remove_global, Keys
  <2>9. ASSUME NEW w \in Windows, remove_window(w) PROVE PendingInv'
      BY <2>9, PendingSame DEF remove_window, app
  <2>10. QED
      BY <1>1, <2>1, <2>2, <2>3, <2>4, <2>5, <2>6, <2>7, <2>8, <2>9
         DEF UserCall, observe, subscribe, observe_global
<1>2. CASE Updates \/ shutdown \/ shutdownFlush \/ Rest \/ UNCHANGED vars
    BY <1>2, PendingSame
       DEF Updates, start_update, update_window, trail, finish_update, shutdown, shutdownFlush,
           Rest, vars, app
<1>3. CASE Flush
  <2>1. CASE apply_notify_effect
      BY <2>1, PendingPop DEF apply_notify_effect
  <2>2. CASE apply_emit_effect
      BY <2>2, PendingPop DEF apply_emit_effect
  <2>3. CASE activate
      BY <2>3, PendingPop DEF activate
  <2>4. CASE apply_defer_effect
      BY <2>4, PendingPop DEF apply_defer_effect
  <2>5. CASE apply_entity_created_effect
      BY <2>5, PendingPop DEF apply_entity_created_effect
  <2>6. CASE UNCHANGED <<pendingEffects, pendingNotifications>>
      BY <2>6, PendingSame
  <2>7. QED
      BY <1>3, <2>1, <2>2, <2>3, <2>4, <2>5, <2>6
         DEF Flush, take_dropped, release, released, flushed, callSubscriber, expireSubscriber,
             skipSubscriber, delivered, return, app
<1>4. QED
    BY <1>1, <1>2, <1>3 DEF ShutdownNext, Next

\* The pending notifications, key by key, in every behaviour.
LEMMA PendingHolds == ShutdownSpec => []PendingInv
<1>1. Init => PendingInv
    BY DEF Init, PendingInv, NotifyQueued
<1>2. QED
    BY FlagsDescribeStack, PendingStep, <1>1, PTL DEF ShutdownSpec

\* push_effect and the application of effects keep pending_notifications equal
\* to the keys of the queued notifications, none of them queued twice.
THEOREM NotificationsExact == ShutdownSpec => []PendingExact
<1>1. PendingInv => PendingExact
    BY DEF PendingInv, NotifyQueued, PendingExact
<1>2. QED
    BY PendingHolds, <1>1, PTL

-----------------------------------------------------------------------------
(* The announcement of new entities.                                        *)

\* The EntityCreated of e is queued.
CreatedQueued(e) ==
    \E i \in DOMAIN pendingEffects : pendingEffects[i].k = "created" /\ pendingEffects[i].key = e

\* The effect at the front is applied.
Applied(effect) ==
    \/ effect.k = "notify" /\ apply_notify_effect
    \/ effect.k = "emit" /\ apply_emit_effect
    \/ effect.k = "activate" /\ activate
    \/ effect.k = "defer" /\ apply_defer_effect
    \/ effect.k = "created" /\ apply_entity_created_effect

\* Effects are queued at the end and applied from the front.
LEMMA QueueShape ==
    ASSUME TypeOK, [ShutdownNext]_vars
    PROVE  \/ pendingEffects' = pendingEffects
           \/ \E f \in Effect : Push(f) /\ (f.k = "emit" => f.event = events + 1 /\ events' = events + 1)
           \/ /\ Applied(Head(pendingEffects))
              /\ \E k \in {"notify", "emit", "activate", "defer", "created"} : Pop(k)
<1>1. ASSUME NEW key \in Keys, PushNotify(key)
      PROVE  pendingEffects' = pendingEffects \/ \E f \in Effect : f.k # "emit" /\ Push(f)
  <2>1. [k |-> "notify", key |-> key] \in Effect /\ [k |-> "notify", key |-> key].k # "emit"
      BY EffectsMade
  <2>2. QED
      BY <1>1, <2>1 DEF PushNotify
<1>2. CASE UserCall
  <2>1. ASSUME NEW e \in Entities, emit(e)
        PROVE  \E f \in Effect : Push(f) /\ f.event = events + 1 /\ events' = events + 1
    <3>1. events + 1 \in 1..MaxEvents
        BY <2>1, BoundsAssumption DEF emit, TypeOK
    <3>2. [k |-> "emit", key |-> e, event |-> events + 1] \in Effect
        BY <3>1, EffectsMade
    <3>3. QED
        BY <2>1, <3>2 DEF emit, PushEvent
  <2>2. ASSUME NEW e \in Entities, new(e) PROVE \E f \in Effect : f.k # "emit" /\ Push(f)
    <3>1. [k |-> "created", key |-> e, window |-> CurrentWindow] \in Effect
        BY EffectsMade, CurrentWindowType
    <3>2. QED
        BY <2>2, <3>1 DEF new
  <2>3. ASSUME NEW kind, NEW key, NewSubscription(kind, key)
        PROVE  \E f \in Effect : f.k # "emit" /\ Push(f)
    <3>1. NextSub \in 1..MaxSubs
        BY <2>3, SubFields, BoundsAssumption DEF NewSubscription, NextSub
    <3>2. [k |-> "activate", sub |-> NextSub] \in Effect
        BY <3>1, EffectsMade
    <3>3. QED
        BY <2>3, <3>2 DEF NewSubscription
  <2>4. ASSUME defer PROVE \E f \in Effect : f.k # "emit" /\ Push(f)
    <3>1. [k |-> "defer"] \in Effect /\ [k |-> "defer"].k # "emit"
        BY EffectsMade
    <3>2. QED
        BY <2>4, <3>1 DEF defer
  <2>5. ASSUME NEW e \in Entities, notify(e) PROVE PushNotify(e) /\ e \in Keys
      BY <2>5 DEF notify, Keys
  <2>6. ASSUME NEW g \in Globals, set_global(g) \/ remove_global(g) PROVE PushNotify(g) /\ g \in Keys
      BY <2>6 DEF set_global, remove_global, Keys
  <2>7. ASSUME \/ \E e \in Entities : dropHandle(e) \/ keepHandle(e)
               \/ \E s \in DOMAIN subs : unsubscribe(s)
               \/ \E w \in Windows : remove_window(w)
        PROVE  pendingEffects' = pendingEffects
      BY <2>7 DEF dropHandle, keepHandle, unsubscribe, remove_window, app
  <2>8. QED
      BY <1>1, <1>2, <2>1, <2>2, <2>3, <2>4, <2>5, <2>6, <2>7
         DEF UserCall, observe, subscribe, observe_global
<1>3. CASE Updates \/ shutdown \/ shutdownFlush \/ Rest \/ UNCHANGED vars
    BY <1>3
       DEF Updates, start_update, update_window, trail, finish_update, shutdown, shutdownFlush,
           Rest, vars, app
<1>4. CASE Flush
  <2>1. CASE apply_notify_effect
      BY <2>1 DEF apply_notify_effect, Pop, Applied
  <2>2. CASE apply_emit_effect
      BY <2>2 DEF apply_emit_effect, Pop, Applied
  <2>3. CASE activate
      BY <2>3 DEF activate, Pop, Applied
  <2>4. CASE apply_defer_effect
      BY <2>4 DEF apply_defer_effect, Pop, Applied
  <2>5. CASE apply_entity_created_effect
      BY <2>5 DEF apply_entity_created_effect, Pop, Applied
  <2>6. CASE pendingEffects' = pendingEffects
      BY <2>6
  <2>7. QED
      BY <1>4, <2>1, <2>2, <2>3, <2>4, <2>5, <2>6
         DEF Flush, take_dropped, release, released, flushed, callSubscriber, expireSubscriber,
             skipSubscriber, delivered, return, app
<1>5. QED
    BY <1>2, <1>3, <1>4 DEF ShutdownNext, Next

\* The same, by the place in the queue.
LEMMA QueueMoves ==
    ASSUME TypeOK, [ShutdownNext]_vars
    PROVE  \/ /\ \A i \in DOMAIN pendingEffects :
                    i \in DOMAIN pendingEffects' /\ pendingEffects'[i] = pendingEffects[i]
              /\ \A i \in DOMAIN pendingEffects' :
                    \/ i \in DOMAIN pendingEffects
                    \/ /\ \A j \in DOMAIN pendingEffects : j < i
                       /\ \A j \in DOMAIN pendingEffects' : j <= i
                       /\ pendingEffects'[i].k = "emit" =>
                             pendingEffects'[i].event = events + 1 /\ events' = events + 1
           \/ /\ 1 \in DOMAIN pendingEffects /\ pendingEffects[1] = Head(pendingEffects)
              /\ Applied(Head(pendingEffects))
              /\ \A i \in DOMAIN pendingEffects :
                    i = 1 \/ (i - 1 \in DOMAIN pendingEffects' /\ pendingEffects'[i - 1] = pendingEffects[i])
              /\ \A i \in DOMAIN pendingEffects' :
                    i + 1 \in DOMAIN pendingEffects /\ pendingEffects'[i] = pendingEffects[i + 1]
<1>1. CASE pendingEffects' = pendingEffects
    BY <1>1
<1>2. ASSUME NEW f \in Effect, Push(f), f.k = "emit" => f.event = events + 1 /\ events' = events + 1
      PROVE  /\ \A i \in DOMAIN pendingEffects :
                    i \in DOMAIN pendingEffects' /\ pendingEffects'[i] = pendingEffects[i]
             /\ \A i \in DOMAIN pendingEffects' :
                    \/ i \in DOMAIN pendingEffects
                    \/ /\ \A j \in DOMAIN pendingEffects : j < i
                       /\ \A j \in DOMAIN pendingEffects' : j <= i
                       /\ pendingEffects'[i] = f
  <2>1. /\ Len(pendingEffects) \in Nat
        /\ DOMAIN pendingEffects = 1..Len(pendingEffects)
        /\ DOMAIN pendingEffects' = 1..Len(pendingEffects) + 1
        /\ \A i \in 1..Len(pendingEffects) : pendingEffects'[i] = pendingEffects[i]
        /\ pendingEffects'[Len(pendingEffects) + 1] = f
      BY <1>2, QueueEffect DEF TypeOK
  <2>2. \A n \in Nat : \A i \in 1..n + 1 :
           i \in 1..n \/ (i = n + 1 /\ (\A j \in 1..n : j < i) /\ (\A j \in 1..n + 1 : j <= i))
      OBVIOUS
  <2>3. \A i \in 1..Len(pendingEffects) + 1 :
           \/ i \in 1..Len(pendingEffects)
           \/ /\ i = Len(pendingEffects) + 1 /\ \A j \in 1..Len(pendingEffects) : j < i
              /\ \A j \in 1..Len(pendingEffects) + 1 : j <= i
      BY <2>1, <2>2, Zenon
  <2>4. \A i \in 1..Len(pendingEffects) : i \in 1..Len(pendingEffects) + 1
      BY <2>1
  <2>5. QED
      BY <2>1, <2>3, <2>4
<1>3. ASSUME NEW k, Pop(k)
      PROVE  /\ 1 \in DOMAIN pendingEffects /\ pendingEffects[1] = Head(pendingEffects)
             /\ \A i \in DOMAIN pendingEffects :
                    i = 1 \/ (i - 1 \in DOMAIN pendingEffects' /\ pendingEffects'[i - 1] = pendingEffects[i])
             /\ \A i \in DOMAIN pendingEffects' :
                    i + 1 \in DOMAIN pendingEffects /\ pendingEffects'[i] = pendingEffects[i + 1]
  <2>1. /\ Len(pendingEffects) \in Nat /\ Len(pendingEffects) > 0
        /\ DOMAIN pendingEffects = 1..Len(pendingEffects)
        /\ DOMAIN pendingEffects' = 1..Len(pendingEffects) - 1
        /\ \A i \in 1..Len(pendingEffects) - 1 : pendingEffects'[i] = pendingEffects[i + 1]
        /\ Head(pendingEffects) = pendingEffects[1]
      BY <1>3, ApplyEffect DEF TypeOK
  <2>2. 1 \in DOMAIN pendingEffects /\ pendingEffects[1] = Head(pendingEffects)
      BY <2>1
  <2>3. ASSUME NEW i \in DOMAIN pendingEffects, i # 1
        PROVE  i - 1 \in DOMAIN pendingEffects' /\ pendingEffects'[i - 1] = pendingEffects[i]
    <3>1. i - 1 \in 1..Len(pendingEffects) - 1 /\ (i - 1) + 1 = i
        BY <2>1, <2>3
    <3>2. QED
        BY <2>1, <3>1
  <2>4. ASSUME NEW i \in DOMAIN pendingEffects'
        PROVE  i + 1 \in DOMAIN pendingEffects /\ pendingEffects'[i] = pendingEffects[i + 1]
      BY <2>1, <2>4
  <2>5. QED
      BY <2>2, <2>3, <2>4
<1>4. QED
    BY <1>1, <1>2, <1>3, QueueShape

\* An announcement stays in the queue until it is applied.
LEMMA CreatedKept ==
    ASSUME TypeOK, [ShutdownNext]_vars, NEW e, CreatedQueued(e)
    PROVE  \/ CreatedQueued(e)'
           \/ apply_entity_created_effect /\ Head(pendingEffects).key = e
<1>1. PICK i \in DOMAIN pendingEffects : pendingEffects[i].k = "created" /\ pendingEffects[i].key = e
    BY DEF CreatedQueued
<1>2. CASE i \in DOMAIN pendingEffects' /\ pendingEffects'[i] = pendingEffects[i]
    BY <1>1, <1>2 DEF CreatedQueued
<1>3. CASE i - 1 \in DOMAIN pendingEffects' /\ pendingEffects'[i - 1] = pendingEffects[i]
    BY <1>1, <1>3 DEF CreatedQueued
<1>4. CASE i = 1 /\ pendingEffects[1] = Head(pendingEffects) /\ Applied(Head(pendingEffects))
    BY <1>1, <1>4 DEF Applied
<1>5. QED
    BY <1>2, <1>3, <1>4, QueueMoves

\* The life of an entity: it is created with an announcement, dropped without
\* handles, and released after that.
LEMMA LifeShape ==
    ASSUME TypeOK, [ShutdownNext]_vars
    PROVE  /\ panicked => panicked'
           /\ announced \subseteq announced'
           /\ \A e \in Entities :
                 /\ life[e] = "none" /\ life'[e] # "none" => CreatedQueued(e)' /\ life'[e] = "live"
                 /\ life[e] # "dropped" /\ life'[e] = "dropped" => ~Held(e)' /\ life[e] = "live"
                 /\ life'[e] = "released" => life[e] \in {"dropped", "released"}
<1> DEFINE Fine == \A e \in Entities :
              /\ life[e] = "none" /\ life'[e] # "none" => CreatedQueued(e)' /\ life'[e] = "live"
              /\ life[e] # "dropped" /\ life'[e] = "dropped" => ~Held(e)' /\ life[e] = "live"
              /\ life'[e] = "released" => life[e] \in {"dropped", "released"}
<1>1. ASSUME life' = life PROVE Fine
    BY <1>1
<1>2. ASSUME CountHandles PROVE Fine
  <2>1. \A e \in Entities : life'[e] = IF life[e] = "live" /\ ~Held(e)' THEN "dropped" ELSE life[e]
      BY <1>2 DEF CountHandles
  <2>2. QED
      BY <2>1
<1>3. CASE UserCall
  <2>1. UNCHANGED <<panicked, announced>>
      BY <1>3, UserCallFrame
  <2>2. ASSUME NEW e \in Entities, new(e) PROVE Fine
    <3>1. [k |-> "created", key |-> e, window |-> CurrentWindow] \in Effect
        BY EffectsMade, CurrentWindowType
    <3>2. PICK f \in Effect : f.k = "created" /\ f.key = e /\ Push(f)
        BY <2>2, <3>1 DEF new
    <3>3. /\ Len(pendingEffects) + 1 \in DOMAIN pendingEffects'
          /\ pendingEffects'[Len(pendingEffects) + 1] = f
        BY <3>2, QueueEffect DEF TypeOK
    <3>4. CreatedQueued(e)'
        BY <3>2, <3>3 DEF CreatedQueued
    <3>5. \A x \in Entities : life'[x] = IF x = e THEN "live" ELSE life[x]
        BY <2>2 DEF new, TypeOK
    <3>6. QED
        BY <2>2, <3>4, <3>5 DEF new
  <2>3. CASE \E e \in Entities : dropHandle(e)
      BY <1>2, <2>1, <2>3 DEF dropHandle
  <2>4. CASE life' = life
      BY <1>1, <2>1, <2>4
  <2>5. QED
      BY <1>3, <2>1, <2>2, <2>3, <2>4
         DEF UserCall, notify, emit, keepHandle, observe, subscribe, unsubscribe, defer,
             observe_global, set_global, remove_global, remove_window, NewSubscription, world
<1>4. CASE Updates \/ shutdown \/ shutdownFlush \/ Rest \/ UNCHANGED vars
  <2>1. CASE finish_update
      BY <1>2, <2>1 DEF finish_update, ghosts
  <2>2. CASE UNCHANGED <<life, panicked, announced>>
      BY <1>1, <2>2
  <2>3. QED
      BY <1>4, <2>1, <2>2
         DEF Updates, start_update, update_window, trail, shutdown, shutdownFlush, Rest, vars,
             world, ghosts
<1>5. CASE Flush
  <2>1. CASE take_dropped
    <3>1. \A e \in Entities : life'[e] = IF life[e] = "dropped" THEN "released" ELSE life[e]
        BY <2>1 DEF take_dropped
    <3>2. QED
        BY <2>1, <3>1 DEF take_dropped, ghosts
  <2>2. CASE return
      BY <1>2, <2>2 DEF return, ghosts
  <2>3. CASE apply_entity_created_effect
    <3>1. Fine
        BY <1>2, <2>3 DEF apply_entity_created_effect
    <3>2. (panicked => panicked') /\ announced \subseteq announced'
        BY <2>3 DEF apply_entity_created_effect
    <3>3. QED
        BY <3>1, <3>2
  <2>4. CASE UNCHANGED <<life, panicked, announced>>
      BY <1>1, <2>4
  <2>5. QED
      BY <1>5, <2>1, <2>2, <2>3, <2>4
         DEF Flush, release, released, apply_notify_effect, apply_emit_effect, activate,
             apply_defer_effect, flushed, callSubscriber, expireSubscriber, skipSubscriber,
             delivered, world, ghosts
<1>6. QED
    BY <1>3, <1>4, <1>5 DEF ShutdownNext, Next

\* A step keeps the announcements.
LEMMA CreatedStep ==
    TypeOK /\ CreatedInv /\ AnnouncedBeforeReleased /\ [ShutdownNext]_vars
        => CreatedInv' /\ AnnouncedBeforeReleased'
<1> SUFFICES ASSUME TypeOK, CreatedInv, AnnouncedBeforeReleased, [ShutdownNext]_vars, ~panicked'
             PROVE  CreatedInv' /\ AnnouncedBeforeReleased'
    BY DEF CreatedInv, AnnouncedBeforeReleased
<1>1. ~panicked
    BY LifeShape
<1>2. ASSUME NEW e \in Entities, life'[e] # "none" PROVE e \in announced' \/ CreatedQueued(e)'
  <2>1. CASE life[e] = "none"
      BY <1>2, <2>1, LifeShape
  <2>2. CASE life[e] # "none"
    <3>1. e \in announced \/ CreatedQueued(e)
        BY <1>1, <2>2 DEF CreatedInv, CreatedQueued
    <3>2. CASE apply_entity_created_effect /\ Head(pendingEffects).key = e
        BY <3>2 DEF apply_entity_created_effect
    <3>3. QED
        BY <3>1, <3>2, CreatedKept, LifeShape
  <2>3. QED
      BY <2>1, <2>2
<1>3. ASSUME NEW e \in Entities, life'[e] \in {"dropped", "released"} PROVE e \in announced'
  <2>1. CASE life[e] \in {"dropped", "released"}
      BY <1>1, <2>1, LifeShape DEF AnnouncedBeforeReleased
  <2>2. CASE life[e] \notin {"dropped", "released"}
    <3>1. ~Held(e)'
        BY <1>3, <2>2, LifeShape
    <3>2. ~CreatedQueued(e)'
        BY <3>1 DEF Held, CreatedQueued
    <3>3. QED
        BY <1>2, <1>3, <3>2
  <2>3. QED
      BY <2>1, <2>2
<1>4. QED
    BY <1>2, <1>3 DEF CreatedInv, CreatedQueued, AnnouncedBeforeReleased

\* The observers of new entities see an entity before it is released, even when
\* it is dropped in the update that creates it or during a shutdown.
THEOREM AnnouncedFirst == ShutdownSpec => []AnnouncedBeforeReleased
<1>1. Init => CreatedInv /\ AnnouncedBeforeReleased
    BY DEF Init, CreatedInv, AnnouncedBeforeReleased
<1>2. QED
    BY FlagsDescribeStack, CreatedStep, <1>1, PTL DEF ShutdownSpec

-----------------------------------------------------------------------------
(* The shape of the stack without a shutdown.                               *)

\* What may call what.
MayCall(f) ==
    \/ f.k = "update" /\ (stack = <<>> \/ InUserCode)
    \/ f.k \in {"release", "deliver", "call", "update"} /\ Running("flush")

\* A retain visits s, and g is the rest of it.
Visit(s, g) ==
    /\ IsNext(s) /\ g = [Head(stack) EXCEPT !.rest = @ \ {s}]
    /\ callSubscriber(s) \/ expireSubscriber(s) \/ skipSubscriber(s)

\* What a step does to the stack: nothing, a call, a return, a change of the top
\* frame that may call, the start of a flush or a panic.
LEMMA StackMoves ==
    ASSUME TypeOK, [Next]_vars
    PROVE  \/ UNCHANGED <<stack, flushingEffects>>
           \/ /\ UNCHANGED flushingEffects
              /\ \E f \in Frame : /\ MayCall(f) /\ stack' = <<f>> \o stack
                                  /\ f.k = "deliver" => apply_notify_effect \/ apply_emit_effect
           \/ /\ UNCHANGED flushingEffects
              /\ stack # <<>> /\ Head(stack).k # "flush" /\ stack' = Tail(stack)
              /\ Head(stack).k = "deliver" => Head(stack).rest = {}
           \/ flushed
           \/ /\ UNCHANGED flushingEffects /\ stack # <<>>
              /\ Head(stack).k \in {"update", "release", "deliver"}
              /\ \E g \in Frame : /\ g.k = Head(stack).k /\ stack' = <<g>> \o Tail(stack)
                                  /\ g.k = "deliver" => \E s \in DOMAIN subs : Visit(s, g)
           \/ /\ UNCHANGED flushingEffects /\ stack # <<>> /\ Head(stack).k \in {"release", "deliver"}
              /\ \E f, g \in Frame : /\ f.k = "call" /\ g.k = Head(stack).k
                                     /\ g.k = "deliver" => \E s \in DOMAIN subs : Visit(s, g)
                                     /\ \/ stack' = <<f, g>> \o Tail(stack)
                                        \/ stack' = <<f>> \o (<<g>> \o Tail(stack))
           \/ /\ finish_update /\ Outermost
           \/ panicked' /\ stack' = <<>> /\ Running("flush")
<1>1. CASE UserCall
    BY <1>1, UserCallFrame
<1>2. CASE Rest \/ UNCHANGED vars \/ activate
    BY <1>2 DEF Rest, vars, app, activate
<1>3. ASSUME NEW w \in Windows, start_update \/ update_window(w)
      PROVE  /\ UNCHANGED flushingEffects
             /\ \E f \in Frame : f.k = "update" /\ MayCall(f) /\ stack' = <<f>> \o stack
  <2>1. \A v \in Windows \union {None} : /\ [k |-> "update", key |-> None, window |-> v] \in Frame
                                         /\ [k |-> "update", key |-> None, window |-> v].k = "update"
      BY FramesMade
  <2>2. PICK v \in Windows \union {None} :
            stack' = <<[k |-> "update", key |-> None, window |-> v]>> \o stack
      BY <1>3 DEF start_update, update_window
  <2>3. QED
      BY <1>3, <2>1, <2>2 DEF start_update, update_window, MayCall
<1>4. ASSUME start_update
      PROVE  /\ UNCHANGED flushingEffects
             /\ \E f \in Frame : f.k = "update" /\ MayCall(f) /\ stack' = <<f>> \o stack
    BY <1>4, FramesMade DEF start_update, MayCall
<1>5. ASSUME NEW w \in Windows, trail(w)
      PROVE  /\ UNCHANGED flushingEffects /\ stack # <<>> /\ Head(stack).k = "update"
             /\ \E g \in Frame : g.k = Head(stack).k /\ stack' = <<g>> \o Tail(stack)
  <2>1. /\ stack # <<>> /\ Head(stack) \in Frame /\ Head(stack).k = "update"
        /\ [Head(stack) EXCEPT !.window = None] \in Frame
        /\ [Head(stack) EXCEPT !.window = None].k = "update"
      BY <1>5, HeadFrame, FramesChanged DEF trail
  <2>2. QED
      BY <1>5, <2>1 DEF trail, app
<1>6. CASE finish_update
  <2>1. stack # <<>> /\ Head(stack).k = "update"
      BY <1>6, HeadFrame DEF finish_update
  <2>2. QED
      BY <1>6, <2>1 DEF finish_update
<1>7. CASE take_dropped \/ apply_defer_effect
  <2>1. Dropped \in SUBSET Entities
      BY DEF Dropped
  <2>2. /\ [k |-> "release", rest |-> Dropped] \in Frame
        /\ [k |-> "release", rest |-> Dropped].k = "release"
        /\ [k |-> "call", key |-> None] \in Frame
        /\ [k |-> "call", key |-> None].k = "call"
      BY <2>1, FramesMade
  <2>3. QED
      BY <1>7, <2>2 DEF take_dropped, apply_defer_effect, MayCall, Pop, app
<1>8. ASSUME NEW e \in Entities, release(e)
      PROVE  /\ UNCHANGED flushingEffects /\ stack # <<>> /\ Head(stack).k \in {"release", "deliver"}
             /\ \E f, g \in Frame : /\ f.k = "call" /\ g.k = Head(stack).k /\ g.k # "deliver"
                                    /\ stack' = <<f, g>> \o Tail(stack)
  <2>1. stack # <<>> /\ Head(stack).k = "release" /\ Head(stack).rest \subseteq Entities
      BY <1>8, HeadFrame, FrameFields DEF release
  <2>2. /\ [k |-> "release", rest |-> Head(stack).rest \ {e}] \in Frame
        /\ [k |-> "release", rest |-> Head(stack).rest \ {e}].k = "release"
        /\ [k |-> "call", key |-> None] \in Frame
        /\ [k |-> "call", key |-> None].k = "call"
      BY <2>1, FramesMade
  <2>3. QED
      BY <1>8, <2>1, <2>2 DEF release, app
<1>9. CASE released \/ delivered \/ return
  <2>1. PICK k \in {"release", "deliver", "call"} : Running(k)
      BY <1>9 DEF released, delivered, return
  <2>2. stack # <<>> /\ Head(stack).k # "flush"
      BY <2>1, HeadFrame
  <2>3. Head(stack).k = "deliver" => delivered
      BY <1>9 DEF released, return, Running
  <2>4. QED
      BY <1>9, <2>2, <2>3 DEF released, delivered, return, app
<1>10. CASE apply_notify_effect \/ apply_emit_effect
    BY <1>10, DeliveryPushed DEF apply_notify_effect, apply_emit_effect, Pop, MayCall
<1>11. CASE apply_entity_created_effect
    BY <1>11, CreatedPushed DEF apply_entity_created_effect, Pop, MayCall
<1>12. ASSUME NEW s \in DOMAIN subs, callSubscriber(s) \/ expireSubscriber(s) \/ skipSubscriber(s)
       PROVE  /\ UNCHANGED flushingEffects /\ stack # <<>> /\ Head(stack).k = "deliver"
              /\ \E f, g \in Frame : /\ f.k = "call" /\ g.k = Head(stack).k /\ Visit(s, g)
                                     /\ \/ stack' = <<g>> \o Tail(stack)
                                        \/ stack' = <<f>> \o (<<g>> \o Tail(stack))
  <2>1. IsNext(s) /\ UNCHANGED flushingEffects
      BY <1>12 DEF callSubscriber, expireSubscriber, skipSubscriber, app
  <2>2. /\ [Head(stack) EXCEPT !.rest = @ \ {s}] \in Frame
        /\ [Head(stack) EXCEPT !.rest = @ \ {s}].k = "deliver"
        /\ stack # <<>> /\ Head(stack).k = "deliver"
      BY <2>1, VisitedTyped, FramesChanged
  <2>3. PICK key \in Entities \union {None} :
            \/ stack' = WithoutNext(s)
            \/ stack' = <<[k |-> "call", key |-> key]>> \o WithoutNext(s)
      BY <1>12 DEF callSubscriber, expireSubscriber, skipSubscriber
  <2>4. [k |-> "call", key |-> key] \in Frame /\ [k |-> "call", key |-> key].k = "call"
      BY FramesMade
  <2>5. Visit(s, [Head(stack) EXCEPT !.rest = @ \ {s}])
      BY <1>12, <2>1 DEF Visit
  <2>6. QED
      BY <2>1, <2>2, <2>3, <2>4, <2>5 DEF WithoutNext
<1>13. QED
    BY <1>1, <1>2, <1>3, <1>4, <1>5, <1>6, <1>7, <1>8, <1>9, <1>10, <1>11, <1>12
       DEF Next, Updates, Flush

\* What the top frame says about the others.
LEMMA TopShape ==
    ASSUME TypeOK, StackInv, Shape, stack # <<>>
    PROVE  /\ ~flushingEffects => Head(stack).k = "update"
           /\ Head(stack).k = "flush" => /\ Len(stack) = 1 /\ flushingEffects
                                         /\ Head(stack) = UpdateFlush
           /\ flushingEffects /\ Head(stack).k # "flush" => Len(stack) > 1
<1>1. /\ Len(stack) \in Nat /\ Len(stack) > 0 /\ Len(stack) \in 1..Len(stack)
      /\ \A d : d = Len(stack) => At(d) = Head(stack)
    BY AtProperties DEF TypeOK
<1>2. \A n \in Nat : n > 0 /\ n # 1 => n \in 2..n /\ n > 1
    OBVIOUS
<1>3. Len(stack) = 1 \/ (Len(stack) \in 2..Len(stack) /\ Len(stack) > 1)
    BY <1>1, <1>2
<1>4. ~flushingEffects => Head(stack).k = "update"
    BY <1>1, RunningNotPanicked DEF Shape
<1>5. ASSUME Head(stack).k = "flush" PROVE Len(stack) = 1 /\ flushingEffects /\ Head(stack) = UpdateFlush
  <2>1. flushingEffects /\ Len(stack) = 1
      BY <1>1, <1>3, <1>4, <1>5, RunningNotPanicked DEF Shape
  <2>2. PICK d \in 1..Len(stack) : At(d) = UpdateFlush
      BY <2>1, RunningNotPanicked
  <2>3. d = Len(stack)
      BY <2>1
  <2>4. QED
      BY <1>1, <2>1, <2>2, <2>3
<1>6. ASSUME flushingEffects, Head(stack).k # "flush" PROVE Len(stack) > 1
    BY <1>1, <1>3, <1>6, RunningNotPanicked DEF Shape
<1>7. QED
    BY <1>4, <1>5, <1>6

\* A call keeps the shape.
LEMMA ShapePush ==
    ASSUME TypeOK, StackInv, Shape, ~panicked, NEW f \in Frame, MayCall(f), stack' = <<f>> \o stack,
           flushingEffects' = flushingEffects
    PROVE  Shape'
<1>1. /\ stack' # <<>> /\ Len(stack') = Len(stack) + 1 /\ Len(stack) \in Nat
      /\ \A d \in 1..Len(stack) : At(d)' = At(d)
      /\ \A d : d = Len(stack) + 1 => At(d)' = f
    BY PushFrame, AtProperties DEF TypeOK
<1>2. \A n \in Nat : \A m : m = n + 1 =>
         /\ \A d \in 1..m : d \in 1..n \/ d = n + 1
         /\ \A d \in 2..m : (d \in 1..n /\ d \in 2..n) \/ (d = n + 1 /\ n > 0)
         /\ \A d \in 3..m : (d \in 1..n /\ d \in 3..n) \/ (d = n + 1 /\ n > 1)
         /\ n > 0 => 1 \in 1..n
    OBVIOUS
<1>3. /\ \A d \in 1..Len(stack') : d \in 1..Len(stack) \/ d = Len(stack) + 1
      /\ \A d \in 2..Len(stack') : \/ d \in 1..Len(stack) /\ d \in 2..Len(stack)
                                   \/ d = Len(stack) + 1 /\ Len(stack) > 0
      /\ \A d \in 3..Len(stack') : \/ d \in 1..Len(stack) /\ d \in 3..Len(stack)
                                   \/ d = Len(stack) + 1 /\ Len(stack) > 1
      /\ Len(stack) > 0 => 1 \in 1..Len(stack)
    BY <1>1, <1>2, Zenon
<1>4. CASE ~flushingEffects
  <2>1. f.k = "update"
      BY <1>4, TopShape DEF MayCall, Running
  <2>2. \A d \in 1..Len(stack') : At(d)'.k = "update"
      BY <1>1, <1>3, <1>4, <2>1 DEF Shape
  <2>3. QED
      BY <1>4, <2>2 DEF Shape
<1>5. CASE flushingEffects
  <2>1. /\ stack # <<>> /\ At(1).k = "flush"
        /\ \A d \in 2..Len(stack) : At(d).k # "flush" /\ At(d).k # "quit"
        /\ \A d \in 3..Len(stack) : At(d).k \in {"call", "update"}
      BY <1>5 DEF Shape
  <2>2. Len(stack) > 0 /\ f.k # "flush" /\ f.k # "quit"
      BY <2>1, AtProperties DEF TypeOK, MayCall
  <2>3. Len(stack) > 1 => f.k = "update"
    <3>1. Running("flush") => Len(stack) = 1
        BY TopShape DEF Running
    <3>2. \A n \in Nat : n > 1 => n # 1
        OBVIOUS
    <3>3. QED
        BY <1>1, <3>1, <3>2 DEF MayCall
  <2>4. At(1)'.k = "flush"
      BY <1>1, <1>3, <2>1, <2>2
  <2>5. \A d \in 2..Len(stack') : At(d)'.k # "flush" /\ At(d)'.k # "quit"
      BY <1>1, <1>3, <2>1, <2>2
  <2>6. \A d \in 3..Len(stack') : At(d)'.k \in {"call", "update"}
      BY <1>1, <1>3, <2>1, <2>3
  <2>7. QED
      BY <1>1, <1>5, <2>4, <2>5, <2>6 DEF Shape
<1>6. QED
    BY <1>4, <1>5

\* A return keeps the shape.
LEMMA ShapePop ==
    ASSUME TypeOK, StackInv, Shape, stack # <<>>, Head(stack).k # "flush", stack' = Tail(stack),
           flushingEffects' = flushingEffects
    PROVE  Shape'
<1>1. /\ Len(stack') = Len(stack) - 1 /\ Len(stack) \in Nat /\ Len(stack) > 0
      /\ \A d \in 1..Len(stack) - 1 : At(d)' = At(d)
    BY PopFrame, AtProperties DEF TypeOK
<1>2. \A n \in Nat : \A m : m = n - 1 =>
         /\ \A d \in 1..m : d \in 1..n - 1 /\ d \in 1..n
         /\ \A d \in 2..m : d \in 1..n - 1 /\ d \in 2..n
         /\ \A d \in 3..m : d \in 1..n - 1 /\ d \in 3..n
         /\ n > 1 => 1 \in 1..n - 1 /\ m # 0
    OBVIOUS
<1>3. /\ \A d \in 1..Len(stack') : d \in 1..Len(stack) - 1 /\ d \in 1..Len(stack)
      /\ \A d \in 2..Len(stack') : d \in 1..Len(stack) - 1 /\ d \in 2..Len(stack)
      /\ \A d \in 3..Len(stack') : d \in 1..Len(stack) - 1 /\ d \in 3..Len(stack)
      /\ Len(stack) > 1 => 1 \in 1..Len(stack) - 1 /\ Len(stack') # 0
    BY <1>1, <1>2, Zenon
<1>4. ~panicked
    BY RunningNotPanicked
<1>5. CASE ~flushingEffects
    BY <1>1, <1>3, <1>4, <1>5 DEF Shape
<1>6. CASE flushingEffects
  <2>1. /\ At(1).k = "flush"
        /\ \A d \in 2..Len(stack) : At(d).k # "flush" /\ At(d).k # "quit"
        /\ \A d \in 3..Len(stack) : At(d).k \in {"call", "update"}
      BY <1>4, <1>6 DEF Shape
  <2>2. Len(stack) > 1
      BY <1>6, TopShape
  <2>3. stack' # <<>>
      BY <1>3, <2>2, EmptySeq
  <2>4. QED
      BY <1>1, <1>3, <1>6, <2>1, <2>2, <2>3 DEF Shape
<1>7. QED
    BY <1>5, <1>6

\* The top frame may change, and call.
LEMMA ShapeSwap ==
    ASSUME TypeOK, StackInv, Shape, stack # <<>>, Head(stack).k \in {"update", "release", "deliver"},
           NEW f \in Frame, NEW g \in Frame, g.k = Head(stack).k,
           \/ stack' = <<g>> \o Tail(stack)
           \/ /\ f.k = "call" /\ Head(stack).k # "update"
              /\ stack' = <<f, g>> \o Tail(stack) \/ stack' = <<f>> \o (<<g>> \o Tail(stack)),
           flushingEffects' = flushingEffects
    PROVE  Shape'
<1>1. /\ Len(stack) \in Nat /\ Len(stack) > 0 /\ stack' # <<>>
      /\ \/ Len(stack') = Len(stack)
         \/ Len(stack') = Len(stack) + 1 /\ f.k = "call" /\ Head(stack).k # "update"
      /\ \A d \in 1..Len(stack) - 1 : At(d)' = At(d)
      /\ \A d : d = Len(stack) => At(d)' = g /\ At(d) = Head(stack)
      /\ \A d \in 1..Len(stack') : d = Len(stack) + 1 => At(d)' = f
  <2>1. Len(stack) \in Nat /\ Len(stack) > 0 /\ \A d : d = Len(stack) => At(d) = Head(stack)
      BY AtProperties DEF TypeOK
  <2>2. CASE stack' = <<g>> \o Tail(stack)
    <3>1. /\ stack' # <<>> /\ Len(stack') = Len(stack)
          /\ \A d \in 1..Len(stack) - 1 : At(d)' = At(d)
          /\ \A d : d = Len(stack) => At(d)' = g
        BY <2>2, ReplaceFrame DEF TypeOK
    <3>2. QED
        BY <2>1, <3>1
  <2>3. CASE stack' # <<g>> \o Tail(stack)
    <3>1. /\ stack' # <<>> /\ Len(stack') = Len(stack) + 1
          /\ \A d \in 1..Len(stack) - 1 : At(d)' = At(d)
          /\ \A d : d = Len(stack) => At(d)' = g
          /\ \A d : d = Len(stack) + 1 => At(d)' = f
        BY <2>3, CallFrame DEF TypeOK
    <3>2. QED
        BY <2>1, <2>3, <3>1
  <2>4. QED
      BY <2>2, <2>3
<1>2. \A n \in Nat : \A m : n > 0 /\ m \in {n, n + 1} =>
         \A d \in 1..m : (d \in 1..n /\ (d \in 1..n - 1 \/ d = n)) \/ (d = n + 1 /\ m = n + 1)
    OBVIOUS
<1>3. ~panicked
    BY RunningNotPanicked
<1>4. \A d \in 1..Len(stack') : \/ d \in 1..Len(stack) /\ At(d)'.k = At(d).k
                                \/ d = Len(stack) + 1 /\ At(d)' = f /\ f.k = "call" /\ Len(stack') = Len(stack) + 1
  <2>1. \A d \in 1..Len(stack') : \/ d \in 1..Len(stack) /\ (d \in 1..Len(stack) - 1 \/ d = Len(stack))
                                  \/ d = Len(stack) + 1 /\ Len(stack') = Len(stack) + 1
      BY <1>1, <1>2
  <2>2. \A n \in Nat : n # n + 1
      OBVIOUS
  <2>3. Len(stack') = Len(stack) + 1 => f.k = "call"
      BY <1>1, <2>2
  <2>4. QED
      BY <1>1, <2>1, <2>3
<1>5. CASE ~flushingEffects
  <2>1. Head(stack).k = "update"
      BY <1>5, TopShape
  <2>2. Len(stack') # Len(stack) + 1
    <3>1. \A n \in Nat : n # n + 1
        OBVIOUS
    <3>2. QED
        BY <1>1, <2>1, <3>1
  <2>3. QED
      BY <1>3, <1>4, <1>5, <2>2 DEF Shape
<1>6. CASE flushingEffects
  <2>1. /\ At(1).k = "flush"
        /\ \A d \in 2..Len(stack) : At(d).k # "flush" /\ At(d).k # "quit"
        /\ \A d \in 3..Len(stack) : At(d).k \in {"call", "update"}
      BY <1>3, <1>6 DEF Shape
  <2>2. /\ 1 \in 1..Len(stack') /\ 1 # Len(stack) + 1
        /\ \A d \in 2..Len(stack') : /\ d \in 1..Len(stack')
                                     /\ d \in 1..Len(stack) => d \in 2..Len(stack)
        /\ \A d \in 3..Len(stack') : /\ d \in 1..Len(stack')
                                     /\ d \in 1..Len(stack) => d \in 3..Len(stack)
    <3>1. \A n \in Nat : \A m : n > 0 /\ m \in {n, n + 1} =>
             /\ 1 \in 1..m /\ 1 # n + 1
             /\ \A d \in 2..m : d \in 1..m /\ (d \in 1..n => d \in 2..n)
             /\ \A d \in 3..m : d \in 1..m /\ (d \in 1..n => d \in 3..n)
        OBVIOUS
    <3>2. Len(stack') \in {Len(stack), Len(stack) + 1}
        BY <1>1
    <3>3. QED
        BY <1>1, <3>1, <3>2, Zenon
  <2>3. At(1)'.k = "flush"
      BY <1>4, <2>1, <2>2
  <2>4. \A d \in 2..Len(stack') : At(d)'.k # "flush" /\ At(d)'.k # "quit"
      BY <1>4, <2>1, <2>2
  <2>5. \A d \in 3..Len(stack') : At(d)'.k \in {"call", "update"}
      BY <1>4, <2>1, <2>2
  <2>6. QED
      BY <1>1, <1>6, <2>3, <2>4, <2>5 DEF Shape
<1>7. QED
    BY <1>5, <1>6

\* The outermost update is alone on the stack when it becomes a flush.
LEMMA ShapeFlush ==
    ASSUME TypeOK, StackInv, Shape, finish_update, Outermost
    PROVE  Shape'
<1>1. /\ stack # <<>> /\ Len(stack) \in Nat /\ ~panicked /\ ~flushingEffects /\ pendingUpdates = 1
      /\ pendingUpdates = Cardinality(Counted)
    BY HeadFrame, RunningNotPanicked DEF finish_update, Outermost
<1>2. Counted = 1..Len(stack)
    BY <1>1 DEF Counted, Shape
<1>3. Cardinality(1..Len(stack)) = Len(stack)
  <2>1. Cardinality(1..Len(stack)) = IF 1 > Len(stack) THEN 0 ELSE Len(stack) - 1 + 1
      BY <1>1, FS_Interval
  <2>2. QED
      BY <1>1, <2>1
<1>4. Len(stack) = 1
    BY <1>1, <1>2, <1>3
<1>5. UpdateFlush \in Frame /\ UpdateFlush.k = "flush" /\ flushingEffects' = TRUE
      /\ stack' = <<UpdateFlush>> \o Tail(stack)
    BY FramesMade DEF finish_update, UpdateFlush
<1>6. stack' # <<>> /\ Len(stack') = 1 /\ At(1)' = UpdateFlush
    BY <1>1, <1>4, <1>5, ReplaceFrame DEF TypeOK
<1>7. 2..Len(stack') = {} /\ 3..Len(stack') = {}
    BY <1>6
<1>8. QED
    BY <1>5, <1>6, <1>7 DEF Shape

\* Every step without a shutdown keeps the shape.
LEMMA ShapeStep == TypeOK /\ StackInv /\ Shape /\ [Next]_vars => Shape'
<1> SUFFICES ASSUME TypeOK, StackInv, Shape, [Next]_vars, ~panicked' PROVE Shape'
    BY DEF Shape
<1>1. ~panicked
    BY LifeShape DEF ShutdownNext
<1>2. CASE UNCHANGED <<stack, flushingEffects>>
    BY <1>1, <1>2 DEF Shape, At
<1>3. CASE flushed
  <2>1. stack # <<>> /\ Head(stack).k = "flush" /\ stack' = Tail(stack)
      BY <1>3, HeadFrame DEF flushed
  <2>2. Len(stack) = 1 /\ Head(stack).by = "update"
      BY <2>1, TopShape DEF UpdateFlush
  <2>3. ~flushingEffects' /\ Len(stack') = 0
      BY <1>3, <2>1, <2>2, PopFrame DEF flushed, TypeOK
  <2>4. 1..Len(stack') = {}
      BY <2>3
  <2>5. QED
      BY <2>3, <2>4 DEF Shape
<1>4. QED
    BY <1>1, <1>2, <1>3, StackMoves, ShapePush, ShapePop, ShapeSwap, ShapeFlush

\* The shape of the stack, in every behaviour without a shutdown.
LEMMA ShapeHolds == Spec => [](TypeOK /\ StackInv /\ Shape)
<1>1. Init => Shape
  <2>1. Init => 1..Len(stack) = {} /\ ~flushingEffects
      BY EmptySeq DEF Init
  <2>2. QED
      BY <2>1 DEF Shape
<1>2. QED
    BY SpecImpliesShutdownSpec, FlagsDescribeStack, ShapeStep, <1>1, PTL DEF Spec

\* flush_effects runs only when the outermost update ends: without a shutdown it
\* is never re-entered and no closure is suspended below it.
THEOREM FlushOutermost == Spec => []FlushIsOutermost
<1>1. TypeOK /\ StackInv /\ Shape => FlushIsOutermost
  <2> SUFFICES ASSUME TypeOK, StackInv, Shape, NEW i \in DOMAIN stack, stack[i].k = "flush"
               PROVE  i = Len(stack)
      BY DEF FlushIsOutermost
  <2>1. Len(stack) \in Nat /\ i \in 1..Len(stack) /\ stack # <<>>
      BY LenProperties, EmptySeq DEF TypeOK
  <2>2. PICK d \in 1..Len(stack) : d = Len(stack) + 1 - i
      BY <2>1
  <2>3. Len(stack) + 1 - d = i
      BY <2>1, <2>2
  <2>4. At(d).k = "flush"
      BY <2>3 DEF At
  <2>5. d \notin 2..Len(stack)
      BY <2>1, <2>4, RunningNotPanicked DEF Shape
  <2>6. d = 1
      BY <2>1, <2>5
  <2>7. QED
      BY <2>1, <2>3, <2>6
<1>2. QED
    BY ShapeHolds, <1>1, PTL

-----------------------------------------------------------------------------
(* Deliveries.                                                              *)

\* The frames, with one more on top.
LEMMA FramesPush ==
    ASSUME NEW f \in Frame, NEW s \in Seq(Frame)
    PROVE  <<f>> \o s \in Seq(Frame) /\ FramesOf(<<f>> \o s) = {f} \union FramesOf(s)
<1>1. <<f>> \in Seq(Frame) /\ Len(<<f>>) = 1 /\ <<f>>[1] = f /\ Len(s) \in Nat
    BY LenProperties
<1>2. /\ Len(<<f>> \o s) = 1 + Len(s) /\ <<f>> \o s \in Seq(Frame)
      /\ \A i \in 1..1 + Len(s) : (<<f>> \o s)[i] = IF i <= 1 THEN <<f>>[i] ELSE s[i - 1]
    BY <1>1, ConcatProperties
<1>3. PICK t \in Seq(Frame) : t = <<f>> \o s
    BY <1>2
<1>4. DOMAIN s = 1..Len(s) /\ DOMAIN t = 1..1 + Len(s)
    BY <1>2, <1>3, LenProperties
<1>5. t[1] = f /\ \A i \in 1..Len(s) : i + 1 \in 1..1 + Len(s) /\ t[i + 1] = s[i]
    BY <1>1, <1>2, <1>3
<1>6. \A i \in 1..1 + Len(s) : i = 1 \/ (i - 1 \in 1..Len(s) /\ t[i] = s[i - 1])
    BY <1>1, <1>2, <1>3
<1>7. 1 \in 1..1 + Len(s)
    BY <1>1
<1>8. FramesOf(t) = {f} \union FramesOf(s)
  <2>1. FramesOf(t) \subseteq {f} \union FramesOf(s)
      BY <1>4, <1>5, <1>6 DEF FramesOf
  <2>2. {f} \union FramesOf(s) \subseteq FramesOf(t)
      BY <1>4, <1>5, <1>7 DEF FramesOf
  <2>3. QED
      BY <2>1, <2>2
<1>9. QED
    BY <1>2, <1>3, <1>8

\* The top frame and the others.
LEMMA FramesTop ==
    ASSUME NEW s \in Seq(Frame), s # <<>>
    PROVE  /\ Tail(s) \in Seq(Frame) /\ Head(s) \in Frame
           /\ FramesOf(s) = {Head(s)} \union FramesOf(Tail(s))
<1>1. /\ Tail(s) \in Seq(Frame) /\ Len(Tail(s)) = Len(s) - 1
      /\ Head(s) = s[1] /\ Head(s) \in Frame
      /\ Len(s) \in Nat /\ Len(s) > 0
      /\ \A i \in 1..Len(Tail(s)) : Tail(s)[i] = s[i + 1]
    BY HeadTailProperties, LenProperties, EmptySeq
<1>2. PICK t \in Seq(Frame), f \in Frame : t = Tail(s) /\ f = Head(s)
    BY <1>1
<1>3. DOMAIN s = 1..Len(s) /\ DOMAIN t = 1..Len(s) - 1
    BY <1>1, <1>2, LenProperties
<1>4. /\ \A i \in 1..Len(s) - 1 : i + 1 \in 1..Len(s) /\ t[i] = s[i + 1]
      /\ \A i \in 1..Len(s) : i = 1 \/ (i - 1 \in 1..Len(s) - 1 /\ t[i - 1] = s[i])
      /\ 1 \in 1..Len(s) /\ s[1] = f
    BY <1>1, <1>2
<1>5. ASSUME NEW x \in FramesOf(s) PROVE x \in {f} \union FramesOf(t)
  <2>1. PICK i \in 1..Len(s) : x = s[i]
      BY <1>3 DEF FramesOf
  <2>2. CASE i = 1
      BY <1>4, <2>1, <2>2
  <2>3. CASE i # 1
    <3>1. i - 1 \in DOMAIN t /\ t[i - 1] = x
        BY <1>3, <1>4, <2>1, <2>3
    <3>2. QED
        BY <3>1 DEF FramesOf
  <2>4. QED
      BY <2>2, <2>3
<1>6. ASSUME NEW x \in {f} \union FramesOf(t) PROVE x \in FramesOf(s)
  <2>1. CASE x = f
      BY <1>3, <1>4, <2>1 DEF FramesOf
  <2>2. CASE x \in FramesOf(t)
    <3>1. PICK i \in 1..Len(s) - 1 : x = t[i]
        BY <1>3, <2>2 DEF FramesOf
    <3>2. i + 1 \in DOMAIN s /\ s[i + 1] = x
        BY <1>3, <1>4, <3>1
    <3>3. QED
        BY <3>2 DEF FramesOf
  <2>3. QED
      BY <1>6, <2>1, <2>2
<1>7. QED
    BY <1>1, <1>2, <1>5, <1>6

\* Two frames pushed at once are pushed one after the other.
LEMMA FramesPushTwo ==
    ASSUME NEW f \in Frame, NEW g \in Frame, NEW s \in Seq(Frame)
    PROVE  <<f, g>> \o s = <<f>> \o (<<g>> \o s)
<1>1. <<f>> \in Seq(Frame) /\ <<g>> \in Seq(Frame)
    OBVIOUS
<1>2. <<f>> \o <<g>> = <<f, g>>
  <2>1. Len(<<f>>) = 1 /\ Len(<<g>>) = 1 /\ <<f>>[1] = f /\ <<g>>[1] = g
      OBVIOUS
  <2>2. /\ <<f>> \o <<g>> \in Seq(Frame) /\ Len(<<f>> \o <<g>>) = 1 + 1
        /\ \A i \in 1..1 + 1 : (<<f>> \o <<g>>)[i] = IF i <= 1 THEN <<f>>[i] ELSE <<g>>[i - 1]
      BY <1>1, <2>1, ConcatProperties
  <2>3. PICK t \in Seq(Frame) : t = <<f>> \o <<g>>
      BY <2>2
  <2>4. Len(t) = 2 /\ t[1] = f /\ t[2] = g
      BY <2>1, <2>2, <2>3
  <2>5. <<f, g>> \in Seq(Frame) /\ Len(<<f, g>>) = 2 /\ <<f, g>>[1] = f /\ <<f, g>>[2] = g
      OBVIOUS
  <2>6. \A i \in 1..2 : t[i] = <<f, g>>[i]
      BY <2>4, <2>5
  <2>7. t = <<f, g>>
      BY <2>4, <2>5, <2>6, SeqEqual
  <2>8. QED
      BY <2>3, <2>7
<1>3. (<<f>> \o <<g>>) \o s = <<f>> \o (<<g>> \o s)
    BY <1>1, ConcatAssociative
<1>4. QED
    BY <1>2, <1>3, Zenon

\* ToVisit, by frames.
LEMMA ToVisitFrames ==
    ASSUME NEW s, NEW event
    PROVE  /\ ToVisit(s, event) <=>
                \E f \in FramesOf(stack) : f.k = "deliver" /\ f.event = event /\ s \in f.rest
           /\ ToVisit(s, event)' <=>
                \E f \in FramesOf(stack') : f.k = "deliver" /\ f.event = event /\ s \in f.rest
BY DEF ToVisit, FramesOf

\* The frames of a step that changes the top frame.
LEMMA FramesSwap ==
    ASSUME TypeOK, stack # <<>>, NEW f \in Frame, NEW g \in Frame,
           \/ stack' = <<g>> \o Tail(stack)
           \/ stack' = <<f, g>> \o Tail(stack)
           \/ stack' = <<f>> \o (<<g>> \o Tail(stack))
    PROVE  /\ FramesOf(stack) = {Head(stack)} \union FramesOf(Tail(stack))
           /\ \/ FramesOf(stack') = {g} \union FramesOf(Tail(stack))
              \/ FramesOf(stack') = {f, g} \union FramesOf(Tail(stack))
<1>1. /\ FramesOf(stack) = {Head(stack)} \union FramesOf(Tail(stack))
      /\ Tail(stack) \in Seq(Frame)
    BY FramesTop DEF TypeOK
<1>2. PICK t \in Seq(Frame) : t = Tail(stack)
    BY <1>1
<1>3. /\ FramesOf(<<g>> \o t) = {g} \union FramesOf(t)
      /\ <<g>> \o t \in Seq(Frame)
    BY FramesPush
<1>4. FramesOf(<<f>> \o (<<g>> \o t)) = {f} \union FramesOf(<<g>> \o t)
    BY <1>3, FramesPush
<1>5. <<f, g>> \o t = <<f>> \o (<<g>> \o t)
    BY FramesPushTwo
<1>6. {f} \union ({g} \union FramesOf(t)) = {f, g} \union FramesOf(t)
    OBVIOUS
<1>7. \/ stack' = <<g>> \o t
      \/ stack' = <<f>> \o (<<g>> \o t)
    BY <1>2, <1>5, Zenon
<1>8. \/ FramesOf(stack') = {g} \union FramesOf(t)
      \/ FramesOf(stack') = {f, g} \union FramesOf(t)
    BY <1>3, <1>4, <1>6, <1>7, Zenon
<1>9. QED
    BY <1>1, <1>2, <1>8, Zenon

\* While a flush looks at its queue, it is alone on the stack.
LEMMA FlushAlone ==
    ASSUME TypeOK, StackInv, Shape, Running("flush")
    PROVE  \A f \in FramesOf(stack) : f.k # "deliver"
<1>1. stack # <<>> /\ Head(stack).k = "flush" /\ Head(stack) = stack[1]
    BY HeadFrame, AtProperties DEF TypeOK
<1>2. Len(stack) = 1
    BY <1>1, TopShape
<1>3. DOMAIN stack = {1}
    BY <1>2, LenProperties DEF TypeOK
<1>4. QED
    BY <1>1, <1>3 DEF FramesOf

\* There is one delivery at a time.
LEMMA OneDelivery ==
    ASSUME TypeOK, StackInv, Shape, NEW f \in FramesOf(stack), NEW g \in FramesOf(stack),
           f.k = "deliver", g.k = "deliver"
    PROVE  f = g
<1>1. Len(stack) \in Nat /\ DOMAIN stack = 1..Len(stack)
    BY LenProperties DEF TypeOK
<1>2. ASSUME NEW h \in FramesOf(stack), h.k = "deliver" PROVE h = At(2)
  <2>1. PICK i \in 1..Len(stack) : h = stack[i]
      BY <1>1 DEF FramesOf
  <2>2. PICK d \in 1..Len(stack) : d = Len(stack) + 1 - i
    <3>1. Len(stack) + 1 - i \in 1..Len(stack)
        BY <1>1, <2>1
    <3>2. QED
        BY <3>1
  <2>3. Len(stack) + 1 - d = i
      BY <1>1, <2>2
  <2>4. At(d) = h
      BY <2>1, <2>3 DEF At
  <2>5. stack # <<>>
      BY <1>1, <2>1, EmptySeq
  <2>6. d # 1 /\ d \notin 3..Len(stack)
    <3>1. ~panicked /\ At(1).k \in {"update", "flush", "quit"}
        BY <2>5, RunningNotPanicked
    <3>2. \A c \in 3..Len(stack) : c \in 1..Len(stack) /\ At(c).k \in {"call", "update"}
        BY <1>1, <3>1 DEF Shape
    <3>3. QED
        BY <1>2, <2>4, <3>1, <3>2
  <2>7. d = 2
      BY <1>1, <2>6
  <2>8. QED
      BY <2>4, <2>7
<1>3. QED
    BY <1>2

\* A delivery comes from the application of an effect, and ends when it has
\* visited everyone.
LEMMA DeliveryMoves ==
    ASSUME TypeOK, StackInv, Shape, [Next]_vars
    PROVE  /\ \A f \in FramesOf(stack) : f.k = "deliver" =>
                 \/ f \in FramesOf(stack')
                 \/ f.rest = {}
                 \/ \E s \in DOMAIN subs, g \in FramesOf(stack') : f = Head(stack) /\ Visit(s, g)
           /\ \A g \in FramesOf(stack') : g.k = "deliver" =>
                 \/ g \in FramesOf(stack)
                 \/ apply_notify_effect \/ apply_emit_effect
                 \/ \E s \in DOMAIN subs : Visit(s, g) /\ Head(stack) \in FramesOf(stack)
<1>1. CASE UNCHANGED <<stack, flushingEffects>>
    BY <1>1
<1>2. ASSUME NEW f \in Frame, stack' = <<f>> \o stack,
             f.k = "deliver" => apply_notify_effect \/ apply_emit_effect
      PROVE  /\ \A h \in FramesOf(stack) : h \in FramesOf(stack')
             /\ \A g \in FramesOf(stack') : g.k = "deliver" =>
                   g \in FramesOf(stack) \/ apply_notify_effect \/ apply_emit_effect
    BY <1>2, FramesPush DEF TypeOK
<1>3. ASSUME stack # <<>>, stack' = Tail(stack)
      PROVE  /\ \A h \in FramesOf(stack) : h = Head(stack) \/ h \in FramesOf(stack')
             /\ \A g \in FramesOf(stack') : g \in FramesOf(stack)
    BY <1>3, FramesTop DEF TypeOK
<1>4. ASSUME flushed PROVE stack # <<>> /\ stack' = Tail(stack) /\ Head(stack).k = "flush"
    BY <1>4, HeadFrame DEF flushed
<1>5. ASSUME stack # <<>>, NEW f \in Frame, NEW g \in Frame, f.k # "deliver",
             Head(stack).k = "deliver" => g.k = "deliver",
             \/ stack' = <<g>> \o Tail(stack)
             \/ stack' = <<f, g>> \o Tail(stack)
             \/ stack' = <<f>> \o (<<g>> \o Tail(stack)),
             g.k = "deliver" => \E s \in DOMAIN subs : Visit(s, g)
      PROVE  /\ \A h \in FramesOf(stack) : h.k = "deliver" =>
                  \/ h \in FramesOf(stack')
                  \/ \E s \in DOMAIN subs : h = Head(stack) /\ g \in FramesOf(stack') /\ Visit(s, g)
             /\ \A h \in FramesOf(stack') : h.k = "deliver" =>
                   \/ h \in FramesOf(stack)
                   \/ \E s \in DOMAIN subs : Visit(s, h) /\ Head(stack) \in FramesOf(stack)
  <2>1. PICK T : /\ FramesOf(stack) = {Head(stack)} \union T
                 /\ \/ FramesOf(stack') = {g} \union T
                    \/ FramesOf(stack') = {f, g} \union T
      BY <1>5, FramesSwap
  <2>2. QED
      BY <1>5, <2>1
<1>6. ASSUME finish_update, Outermost
      PROVE  /\ stack # <<>> /\ Head(stack).k # "deliver" /\ UpdateFlush \in Frame
             /\ UpdateFlush.k # "deliver" /\ stack' = <<UpdateFlush>> \o Tail(stack)
    BY <1>6, HeadFrame, FramesMade DEF finish_update, UpdateFlush
<1>7. ASSUME stack' = <<>>, Running("flush")
      PROVE  /\ \A f \in FramesOf(stack) : f.k # "deliver"
             /\ FramesOf(stack') = {}
    BY <1>7, FlushAlone DEF FramesOf
<1>8. QED
  <2>1. CASE flushed
      BY <1>3, <1>4, <2>1
  <2>2. CASE finish_update /\ Outermost
      BY <1>5, <1>6, <2>2
  <2>3. CASE panicked' /\ stack' = <<>> /\ Running("flush")
      BY <1>7, <2>3
  <2>4. CASE /\ stack # <<>> /\ Head(stack).k # "flush" /\ stack' = Tail(stack)
             /\ Head(stack).k = "deliver" => Head(stack).rest = {}
      BY <1>3, <2>4
  <2>5. CASE \E f \in Frame : /\ MayCall(f) /\ stack' = <<f>> \o stack
                              /\ f.k = "deliver" => apply_notify_effect \/ apply_emit_effect
      BY <1>2, <2>5
  <2>6. ASSUME stack # <<>>, NEW g \in Frame, g.k = Head(stack).k, stack' = <<g>> \o Tail(stack),
               g.k = "deliver" => \E s \in DOMAIN subs : Visit(s, g)
        PROVE  /\ \A f \in FramesOf(stack) : f.k = "deliver" =>
                    \/ f \in FramesOf(stack')
                    \/ \E s \in DOMAIN subs, h \in FramesOf(stack') : f = Head(stack) /\ Visit(s, h)
               /\ \A h \in FramesOf(stack') : h.k = "deliver" =>
                    \/ h \in FramesOf(stack)
                    \/ \E s \in DOMAIN subs : Visit(s, h) /\ Head(stack) \in FramesOf(stack)
    <3>1. UpdateFlush \in Frame /\ UpdateFlush.k # "deliver"
        BY FramesMade DEF UpdateFlush
    <3>2. QED
        BY <1>5, <2>6, <3>1
  <2>7. ASSUME stack # <<>>, NEW f \in Frame, NEW g \in Frame, f.k = "call", g.k = Head(stack).k,
               stack' = <<f, g>> \o Tail(stack) \/ stack' = <<f>> \o (<<g>> \o Tail(stack)),
               g.k = "deliver" => \E s \in DOMAIN subs : Visit(s, g)
        PROVE  /\ \A h \in FramesOf(stack) : h.k = "deliver" =>
                    \/ h \in FramesOf(stack')
                    \/ \E s \in DOMAIN subs, i \in FramesOf(stack') : h = Head(stack) /\ Visit(s, i)
               /\ \A h \in FramesOf(stack') : h.k = "deliver" =>
                    \/ h \in FramesOf(stack)
                    \/ \E s \in DOMAIN subs : Visit(s, h) /\ Head(stack) \in FramesOf(stack)
      BY <1>5, <2>7
  <2>8. QED
      BY <1>1, <2>1, <2>2, <2>3, <2>4, <2>5, <2>6, <2>7, StackMoves

\* A subscriber that is to be visited is visited by the delivery.
LEMMA VisitKept ==
    ASSUME TypeOK, StackInv, Shape, [Next]_vars, NEW s, NEW event, ToVisit(s, event)
    PROVE  \/ ToVisit(s, event)'
           \/ /\ Running("deliver") /\ Head(stack).event = event
              /\ callSubscriber(s) \/ expireSubscriber(s) \/ skipSubscriber(s)
<1>1. PICK f \in FramesOf(stack) : f.k = "deliver" /\ f.event = event /\ s \in f.rest
    BY ToVisitFrames
<1>2. CASE f \in FramesOf(stack')
    BY <1>1, <1>2, ToVisitFrames
<1>3. ASSUME NEW t \in DOMAIN subs, NEW g \in FramesOf(stack'), f = Head(stack), Visit(t, g)
      PROVE  \/ ToVisit(s, event)'
             \/ /\ Running("deliver") /\ Head(stack).event = event
                /\ callSubscriber(s) \/ expireSubscriber(s) \/ skipSubscriber(s)
  <2>1. /\ Running("deliver")
        /\ callSubscriber(t) \/ expireSubscriber(t) \/ skipSubscriber(t)
      BY <1>3 DEF Visit, IsNext
  <2>2. Head(stack) \in Frame
      BY <2>1, HeadFrame
  <2>3. g.k = "deliver" /\ g.event = event /\ g.rest = f.rest \ {t}
      BY <1>1, <1>3, <2>2, FramesChanged DEF Visit
  <2>4. CASE s = t
      BY <1>1, <1>3, <2>1, <2>4
  <2>5. CASE s # t
      BY <1>1, <2>3, <2>5, ToVisitFrames
  <2>6. QED
      BY <2>4, <2>5
<1>4. QED
    BY <1>1, <1>2, <1>3, DeliveryMoves

-----------------------------------------------------------------------------
(* What is owed to subscribers.                                             *)

\* What a step does to the subscribers.
LEMMA SubsMoves ==
    ASSUME [ShutdownNext]_vars
    PROVE  \/ UNCHANGED subs
           \/ \E S : Gone(S) /\ Forget(S)
           \/ \E kind \in {"observer", "listener"}, key \in Keys : NewSubscription(kind, key)
           \/ activate
<1>1. CASE UserCall
    BY <1>1
       DEF UserCall, notify, emit, new, dropHandle, keepHandle, observe, subscribe, unsubscribe,
           defer, observe_global, set_global, remove_global, remove_window, world, Keys
<1>2. CASE Updates \/ shutdown \/ shutdownFlush \/ Rest \/ UNCHANGED vars
    BY <1>2
       DEF Updates, start_update, update_window, trail, finish_update, shutdown, shutdownFlush,
           Rest, vars, world
<1>3. CASE Flush
  <2>1. ASSUME NEW e \in Entities, release(e) PROVE \E S : Gone(S) /\ Forget(S)
      BY <2>1 DEF release
  <2>2. ASSUME NEW s, expireSubscriber(s) PROVE \E S : Gone(S) /\ Forget(S)
      BY <2>2 DEF expireSubscriber
  <2>3. QED
      BY <1>3, <2>1, <2>2
         DEF Flush, take_dropped, released, apply_notify_effect, apply_emit_effect,
             apply_defer_effect, apply_entity_created_effect, flushed, callSubscriber,
             skipSubscriber, delivered, return, world
<1>4. QED
    BY <1>1, <1>2, <1>3 DEF ShutdownNext, Next

\* A subscriber stays as it is, is activated, or goes with all it is owed.
LEMMA SubKept ==
    ASSUME TypeOK, [ShutdownNext]_vars, NEW s \in DOMAIN subs
    PROVE  /\ s \in DOMAIN subs' /\ subs'[s].kind = subs[s].kind /\ subs'[s].key = subs[s].key
           /\ \/ subs'[s].st = subs[s].st
              \/ /\ subs[s].st = "inactive" /\ subs'[s].st = "active"
                 /\ activate /\ Head(pendingEffects).sub = s
              \/ subs'[s].st = "gone" /\ s \notin owed' /\ \A x \in eventsOwed' : x[1] # s
<1>1. CASE UNCHANGED subs
    BY <1>1
<1>2. ASSUME NEW S, Gone(S), Forget(S)
      PROVE  /\ s \in DOMAIN subs' /\ subs'[s].kind = subs[s].kind /\ subs'[s].key = subs[s].key
             /\ \/ subs'[s].st = subs[s].st
                \/ subs'[s].st = "gone" /\ s \notin owed' /\ \A x \in eventsOwed' : x[1] # s
    BY <1>2, SubsGone DEF Forget
<1>3. ASSUME NEW kind \in {"observer", "listener"}, NEW key \in Keys, NewSubscription(kind, key)
      PROVE  s \in DOMAIN subs' /\ subs'[s] = subs[s]
    BY <1>3, SubsAppend DEF NewSubscription
<1>4. CASE activate
    BY <1>4, SubsActivate DEF activate
<1>5. QED
    BY <1>1, <1>2, <1>3, <1>4, SubsMoves

\* An observer is owed a call by a notification of its key.
LEMMA OwedMoves ==
    ASSUME [ShutdownNext]_vars, NEW s \in owed', s \notin owed
    PROVE  \E key \in Keys : /\ PushNotify(key) /\ UNCHANGED subs
                             /\ s \in Subscribed("observer", key) /\ subs[s].st = "active"
<1>1. CASE UserCall
  <2>1. ASSUME NEW e \in Entities, notify(e)
        PROVE  e \in Keys /\ PushNotify(e) /\ UNCHANGED subs /\ Notified(e)
      BY <2>1 DEF notify, Keys, world
  <2>2. ASSUME NEW g \in Globals, set_global(g) \/ remove_global(g)
        PROVE  g \in Keys /\ PushNotify(g) /\ UNCHANGED subs /\ Notified(g)
      BY <2>2 DEF set_global, remove_global, Keys
  <2>3. \/ \E key \in Keys : PushNotify(key) /\ UNCHANGED subs /\ Notified(key)
        \/ owed' = owed
        \/ \E t \in DOMAIN subs : Forget({t})
      BY <1>1, <2>1, <2>2
         DEF UserCall, emit, new, dropHandle, keepHandle, observe, subscribe, unsubscribe,
             defer, observe_global, NewSubscription, remove_window, ghosts
  <2>4. QED
      BY <2>3 DEF Notified, Forget
<1>2. CASE Updates \/ shutdown \/ shutdownFlush \/ Rest \/ UNCHANGED vars
    BY <1>2
       DEF Updates, start_update, update_window, trail, finish_update, shutdown, shutdownFlush,
           Rest, vars, ghosts
<1>3. CASE Flush
  <2>1. owed' \subseteq owed
    <3>1. ASSUME NEW e \in Entities, release(e) PROVE owed' \subseteq owed
        BY <3>1 DEF release, Forget
    <3>2. ASSUME NEW t, callSubscriber(t) \/ expireSubscriber(t) PROVE owed' \subseteq owed
        BY <3>2 DEF callSubscriber, expireSubscriber, Forget
    <3>3. QED
        BY <1>3, <3>1, <3>2
           DEF Flush, take_dropped, released, apply_notify_effect, apply_emit_effect, activate,
               apply_defer_effect, apply_entity_created_effect, flushed, skipSubscriber, delivered,
               return, ghosts
  <2>2. QED
      BY <2>1
<1>4. QED
    BY <1>1, <1>2, <1>3 DEF ShutdownNext, Next

\* A notification stays in the queue until it is applied.
LEMMA NotifyKept ==
    ASSUME TypeOK, [ShutdownNext]_vars, NEW key, NotifyQueued(key)
    PROVE  \/ NotifyQueued(key)'
           \/ apply_notify_effect /\ Head(pendingEffects).key = key
<1>1. PICK i \in DOMAIN pendingEffects : pendingEffects[i].k = "notify" /\ pendingEffects[i].key = key
    BY DEF NotifyQueued
<1>2. CASE i \in DOMAIN pendingEffects' /\ pendingEffects'[i] = pendingEffects[i]
    BY <1>1, <1>2 DEF NotifyQueued
<1>3. CASE i - 1 \in DOMAIN pendingEffects' /\ pendingEffects'[i - 1] = pendingEffects[i]
    BY <1>1, <1>3 DEF NotifyQueued
<1>4. CASE i = 1 /\ pendingEffects[1] = Head(pendingEffects) /\ Applied(Head(pendingEffects))
    BY <1>1, <1>4 DEF Applied
<1>5. QED
    BY <1>2, <1>3, <1>4, QueueMoves

\* The delivery that the application of an effect starts visits every subscriber
\* of its kind and key.
LEMMA DeliveryStarts ==
    ASSUME TypeOK, StackInv, Shape, Running("flush"), NEW kind, NEW key \in Keys,
           NEW event \in 0..MaxEvents, stack' = <<Retain(kind, key, event)>> \o stack,
           NEW s \in Subscribed(kind, key)
    PROVE  ToVisit(s, event)'
<1>1. \A f \in FramesOf(stack) : f.k # "deliver"
    BY FlushAlone
<1>2. Taken = {}
    BY <1>1 DEF Taken, FramesOf
<1>3. Retain(kind, key, event) \in Frame
    BY RetainTyped
<1>4. Retain(kind, key, event) \in FramesOf(stack')
    BY <1>3, FramesPush DEF TypeOK
<1>5. /\ Retain(kind, key, event).k = "deliver" /\ Retain(kind, key, event).event = event
      /\ s \in Retain(kind, key, event).rest
    BY <1>2 DEF Retain
<1>6. QED
    BY <1>4, <1>5, ToVisitFrames

\* NoNotificationLost, with the two reasons named.
OwedVisit == \A s \in owed : NotifyQueued(subs[s].key) \/ ToVisit(s, 0)

\* A step keeps the promises to the observers.
LEMMA OwedStep ==
    ASSUME TypeOK, StackInv, Shape, PendingInv, OwedInv, OwedVisit, [Next]_vars
    PROVE  OwedInv' /\ OwedVisit'
<1>1. [ShutdownNext]_vars
    BY DEF ShutdownNext
<1>2. ASSUME NEW s \in owed'
      PROVE  s \in DOMAIN subs /\ subs[s].kind = "observer" /\ subs[s].st = "active"
  <2>1. CASE s \in owed
      BY <2>1 DEF OwedInv, TypeOK
  <2>2. CASE s \notin owed
      BY <1>1, <2>2, OwedMoves DEF Subscribed
  <2>3. QED
      BY <2>1, <2>2
<1>3. ASSUME NEW s \in owed'
      PROVE  subs'[s].key = subs[s].key /\ subs'[s].kind = "observer" /\ subs'[s].st = "active"
    BY <1>1, <1>2, SubKept
<1>4. ASSUME NEW s \in owed', s \notin owed PROVE NotifyQueued(subs[s].key)'
  <2>1. PICK key \in Keys : PushNotify(key) /\ UNCHANGED subs /\ s \in Subscribed("observer", key)
      BY <1>1, <1>4, OwedMoves
  <2>2. subs'[s].key = key
      BY <2>1 DEF Subscribed
  <2>3. CASE key \in pendingNotifications
    <3>1. NotifyQueued(key) /\ pendingEffects' = pendingEffects
        BY <2>1, <2>3 DEF PendingInv, PushNotify
    <3>2. QED
        BY <2>2, <3>1 DEF NotifyQueued
  <2>4. CASE key \notin pendingNotifications
    <3>1. PICK f \in Effect : f.k = "notify" /\ f.key = key /\ Push(f)
        BY <2>1, <2>4, EffectsMade DEF PushNotify
    <3>2. /\ Len(pendingEffects) + 1 \in DOMAIN pendingEffects'
          /\ pendingEffects'[Len(pendingEffects) + 1] = f
        BY <3>1, QueueEffect DEF TypeOK
    <3>3. QED
        BY <2>2, <3>1, <3>2 DEF NotifyQueued
  <2>5. QED
      BY <2>3, <2>4
<1>5. ASSUME NEW s \in owed', s \in owed, NotifyQueued(subs[s].key)
      PROVE  NotifyQueued(subs[s].key)' \/ ToVisit(s, 0)'
  <2>1. PICK key : key = subs[s].key
      OBVIOUS
  <2>2. CASE NotifyQueued(key)'
      BY <1>3, <2>1, <2>2 DEF NotifyQueued
  <2>3. CASE apply_notify_effect /\ Head(pendingEffects).key = key
    <3>1. Running("flush") /\ stack' = <<Retain("observer", key, 0)>> \o stack
        BY <2>3 DEF apply_notify_effect, Pop
    <3>2. s \in Subscribed("observer", key) /\ key \in Keys /\ 0 \in 0..MaxEvents
        BY <1>2, <2>1, SubFields, BoundsAssumption DEF Subscribed
    <3>3. QED
        BY <3>1, <3>2, DeliveryStarts
  <2>4. QED
      BY <1>1, <1>5, <2>1, <2>2, <2>3, NotifyKept
<1>6. ASSUME NEW s \in owed', s \in owed, ToVisit(s, 0)
      PROVE  ToVisit(s, 0)'
  <2>1. ASSUME callSubscriber(s) \/ expireSubscriber(s) \/ skipSubscriber(s), Head(stack).event = 0
        PROVE  FALSE
      BY <1>2, <1>6, <2>1 DEF callSubscriber, expireSubscriber, skipSubscriber, Forget
  <2>2. QED
      BY <1>6, <2>1, VisitKept
<1>7. QED
    BY <1>3, <1>4, <1>5, <1>6 DEF OwedInv, OwedVisit

\* Observers, in every behaviour without a shutdown.
LEMMA OwedHolds == Spec => [](TypeOK /\ StackInv /\ Shape /\ OwedInv /\ OwedVisit)
<1>1. Init => OwedInv /\ OwedVisit
    BY DEF Init, OwedInv, OwedVisit
<1>2. TypeOK /\ StackInv /\ Shape /\ PendingInv /\ OwedInv /\ OwedVisit /\ [Next]_vars
         => OwedInv' /\ OwedVisit'
    BY OwedStep
<1>3. QED
    BY <1>1, <1>2, ShapeHolds, SpecImpliesShutdownSpec, PendingHolds, PTL DEF Spec

\* An active observer whose key was notified is called afterwards, unless it is
\* unsubscribed or its entity released: though notifications are coalesced, one
\* is queued or the observer is still to be visited.
THEOREM NotificationsKept == Spec => []NoNotificationLost
<1>1. OwedVisit => NoNotificationLost
    BY DEF OwedVisit, NotifyQueued, NoNotificationLost
<1>2. QED
    BY <1>1, OwedHolds, PTL

-----------------------------------------------------------------------------
(* Events.                                                                  *)

\* An event is owed to the listeners that are subscribed when it is emitted.
LEMMA EventsMade ==
    ASSUME [ShutdownNext]_vars, NEW x \in eventsOwed', x \notin eventsOwed
    PROVE  \E e \in Entities : emit(e) /\ x \in Subscribed("listener", e) \X {events + 1}
<1>1. CASE UserCall
  <2>1. \/ \E e \in Entities : emit(e)
        \/ eventsOwed' = eventsOwed
        \/ \E t \in DOMAIN subs : Forget({t})
      BY <1>1
         DEF UserCall, notify, new, dropHandle, keepHandle, observe, subscribe, unsubscribe,
             defer, observe_global, set_global, remove_global, NewSubscription, remove_window, ghosts
  <2>2. QED
      BY <2>1 DEF emit, Forget
<1>2. CASE Updates \/ shutdown \/ shutdownFlush \/ Rest \/ UNCHANGED vars
    BY <1>2
       DEF Updates, start_update, update_window, trail, finish_update, shutdown, shutdownFlush,
           Rest, vars, ghosts
<1>3. CASE Flush
  <2>1. ASSUME NEW e \in Entities, release(e) PROVE eventsOwed' \subseteq eventsOwed
      BY <2>1 DEF release, Forget
  <2>2. ASSUME NEW t, callSubscriber(t) \/ expireSubscriber(t) PROVE eventsOwed' \subseteq eventsOwed
      BY <2>2 DEF callSubscriber, expireSubscriber, Forget
  <2>3. eventsOwed' \subseteq eventsOwed
      BY <1>3, <2>1, <2>2
         DEF Flush, take_dropped, released, apply_notify_effect, apply_emit_effect, activate,
             apply_defer_effect, apply_entity_created_effect, flushed, skipSubscriber, delivered,
             return, ghosts
  <2>4. QED
      BY <2>3
<1>4. QED
    BY <1>1, <1>2, <1>3 DEF ShutdownNext, Next

\* An event is no longer owed when it was delivered, or the listener is gone.
LEMMA EventsPaid ==
    ASSUME TypeOK, [ShutdownNext]_vars, NEW x \in eventsOwed, x \notin eventsOwed'
    PROVE  \/ subs'[x[1]].st = "gone"
           \/ \E s : callSubscriber(s) /\ x = <<s, Head(stack).event>>
<1>1. x[1] \in DOMAIN subs
    BY DEF TypeOK
<1>2. ASSUME NEW S, Gone(S), Forget(S) PROVE subs'[x[1]].st = "gone"
    BY <1>1, <1>2, SubsGone DEF Forget
<1>3. CASE UserCall
  <2>1. \/ eventsOwed \subseteq eventsOwed'
        \/ \E t \in DOMAIN subs : Gone({t}) /\ Forget({t})
      BY <1>3
         DEF UserCall, notify, emit, new, dropHandle, keepHandle, observe, subscribe, unsubscribe,
             defer, observe_global, set_global, remove_global, NewSubscription, remove_window, ghosts
  <2>2. QED
      BY <1>2, <2>1
<1>4. CASE Updates \/ shutdown \/ shutdownFlush \/ Rest \/ UNCHANGED vars
    BY <1>4
       DEF Updates, start_update, update_window, trail, finish_update, shutdown, shutdownFlush,
           Rest, vars, ghosts
<1>5. CASE Flush
  <2>1. ASSUME NEW e \in Entities, release(e) PROVE subs'[x[1]].st = "gone"
      BY <1>2, <2>1 DEF release
  <2>2. ASSUME NEW t, expireSubscriber(t) PROVE subs'[x[1]].st = "gone"
      BY <1>2, <2>2 DEF expireSubscriber
  <2>3. ASSUME NEW t, callSubscriber(t) PROVE x = <<t, Head(stack).event>>
      BY <2>3 DEF callSubscriber
  <2>4. QED
      BY <1>5, <2>1, <2>2, <2>3
         DEF Flush, take_dropped, released, apply_notify_effect, apply_emit_effect, activate,
             apply_defer_effect, apply_entity_created_effect, flushed, skipSubscriber, delivered,
             return, ghosts
<1>6. QED
    BY <1>3, <1>4, <1>5 DEF ShutdownNext, Next

\* The activation of a subscriber stays in the queue while it is inert.
LEMMA InertStep == TypeOK /\ InertInv /\ [ShutdownNext]_vars => InertInv'
<1> SUFFICES ASSUME TypeOK, InertInv, [ShutdownNext]_vars,
                    NEW s \in DOMAIN subs', subs'[s].st = "inactive"
             PROVE  \E i \in DOMAIN pendingEffects' :
                        pendingEffects'[i].k = "activate" /\ pendingEffects'[i].sub = s
    BY DEF InertInv
<1>1. CASE s \in DOMAIN subs
  <2>1. subs[s].st = "inactive"
      BY <1>1, SubKept
  <2>2. PICK i \in DOMAIN pendingEffects : pendingEffects[i].k = "activate" /\ pendingEffects[i].sub = s
      BY <1>1, <2>1 DEF InertInv
  <2>3. CASE i \in DOMAIN pendingEffects' /\ pendingEffects'[i] = pendingEffects[i]
      BY <2>2, <2>3
  <2>4. CASE i - 1 \in DOMAIN pendingEffects' /\ pendingEffects'[i - 1] = pendingEffects[i]
      BY <2>2, <2>4
  <2>5. CASE i = 1 /\ pendingEffects[1] = Head(pendingEffects) /\ Applied(Head(pendingEffects))
    <3>1. activate /\ Head(pendingEffects).sub = s
        BY <2>2, <2>5 DEF Applied
    <3>2. subs'[s].st = "active"
        BY <1>1, <2>1, <3>1, SubsActivate DEF activate
    <3>3. QED
        BY <3>2
  <2>6. QED
      BY <2>3, <2>4, <2>5, QueueMoves
<1>2. CASE s \notin DOMAIN subs
  <2>1. PICK kind \in {"observer", "listener"}, key \in Keys : NewSubscription(kind, key)
      BY <1>2, SubsMoves, SubsGone, SubsActivate DEF activate
  <2>2. s = NextSub
      BY <1>2, <2>1, SubsAppend DEF NewSubscription
  <2>3. NextSub \in 1..MaxSubs
      BY <2>1, SubFields, BoundsAssumption DEF NewSubscription, NextSub
  <2>4. PICK f \in Effect : f.k = "activate" /\ f.sub = s /\ Push(f)
      BY <2>1, <2>2, <2>3, EffectsMade DEF NewSubscription
  <2>5. /\ Len(pendingEffects) + 1 \in DOMAIN pendingEffects'
        /\ pendingEffects'[Len(pendingEffects) + 1] = f
      BY <2>4, QueueEffect DEF TypeOK
  <2>6. QED
      BY <2>4, <2>5
<1>3. QED
    BY <1>1, <1>2

\* A queued event stays queued behind the activation of its listener, until it
\* is applied.
LEMMA PromiseKept ==
    ASSUME TypeOK, StackInv, Shape, [Next]_vars, NEW s \in DOMAIN subs, NEW event \in 1..MaxEvents,
           Promised(s, event), subs[s].kind = "listener", subs[s].st # "gone", subs'[s].st # "gone"
    PROVE  Promised(s, event)' \/ (ToVisit(s, event)' /\ subs'[s].st = "active")
<1>1. [ShutdownNext]_vars
    BY DEF ShutdownNext
<1>2. /\ subs'[s].key = subs[s].key
      /\ subs'[s].st = "inactive" => subs[s].st = "inactive"
    BY <1>1, SubKept
<1>3. PICK i \in DOMAIN pendingEffects :
         /\ pendingEffects[i].k = "emit" /\ pendingEffects[i].event = event
         /\ pendingEffects[i].key = subs[s].key
         /\ subs[s].st = "inactive" =>
              \E j \in DOMAIN pendingEffects :
                 j < i /\ pendingEffects[j].k = "activate" /\ pendingEffects[j].sub = s
    BY DEF Promised
<1>4. DOMAIN pendingEffects = 1..Len(pendingEffects) /\ Len(pendingEffects) \in Nat
    BY LenProperties DEF TypeOK
<1>5. CASE \A j \in DOMAIN pendingEffects :
              j \in DOMAIN pendingEffects' /\ pendingEffects'[j] = pendingEffects[j]
  <2>1. Promised(s, event)'
      BY <1>2, <1>3, <1>5 DEF Promised
  <2>2. QED
      BY <2>1
<1>6. CASE /\ pendingEffects[1] = Head(pendingEffects) /\ Applied(Head(pendingEffects))
           /\ \A j \in DOMAIN pendingEffects :
                 j = 1 \/ (j - 1 \in DOMAIN pendingEffects' /\ pendingEffects'[j - 1] = pendingEffects[j])
  <2>1. CASE i = 1
    <3>1. apply_emit_effect /\ subs[s].st # "inactive"
      <4>1. \A j \in DOMAIN pendingEffects : ~(j < 1)
          BY <1>4
      <4>2. QED
          BY <1>3, <1>6, <2>1, <4>1 DEF Applied
    <3>2. Running("flush") /\ stack' = <<Retain("listener", subs[s].key, event)>> \o stack
        BY <1>3, <1>6, <2>1, <3>1 DEF apply_emit_effect, Pop
    <3>3. s \in Subscribed("listener", subs[s].key) /\ subs[s].key \in Keys
        BY SubFields DEF Subscribed
    <3>4. event \in 0..MaxEvents
        BY BoundsAssumption
    <3>5. ToVisit(s, event)'
        BY <3>2, <3>3, <3>4, DeliveryStarts
    <3>6. subs[s].st = "active" /\ subs'[s].st = "active"
        BY <3>1, SubFields DEF apply_emit_effect, world
    <3>7. QED
        BY <3>5, <3>6
  <2>2. CASE i # 1
    <3>1. i - 1 \in DOMAIN pendingEffects' /\ pendingEffects'[i - 1] = pendingEffects[i]
        BY <1>6, <2>2
    <3>2. ASSUME subs'[s].st = "inactive"
          PROVE  \E j \in DOMAIN pendingEffects' :
                    /\ j < i - 1
                    /\ pendingEffects'[j].k = "activate" /\ pendingEffects'[j].sub = s
      <4>1. PICK j \in DOMAIN pendingEffects :
                j < i /\ pendingEffects[j].k = "activate" /\ pendingEffects[j].sub = s
          BY <1>2, <1>3, <3>2
      <4>2. j # 1
        <5>1. ASSUME j = 1 PROVE activate /\ Head(pendingEffects).sub = s
            BY <1>6, <4>1, <5>1 DEF Applied
        <5>2. ASSUME activate, Head(pendingEffects).sub = s PROVE FALSE
            BY <1>2, <3>2, <5>2, SubsActivate DEF activate
        <5>3. QED
            BY <5>1, <5>2
      <4>3. /\ j - 1 \in DOMAIN pendingEffects' /\ pendingEffects'[j - 1] = pendingEffects[j]
            /\ j - 1 < i - 1
          BY <1>4, <1>6, <4>1, <4>2
      <4>4. QED
          BY <4>1, <4>3
    <3>3. PICK n \in DOMAIN pendingEffects' : n = i - 1 /\ pendingEffects'[n] = pendingEffects[i]
        BY <3>1
    <3>4. subs'[s].st = "inactive" =>
            \E j \in DOMAIN pendingEffects' :
               j < n /\ pendingEffects'[j].k = "activate" /\ pendingEffects'[j].sub = s
        BY <3>2, <3>3
    <3>5. Promised(s, event)'
        BY <1>2, <1>3, <3>3, <3>4 DEF Promised
    <3>6. QED
        BY <3>5
  <2>3. QED
      BY <2>1, <2>2
<1>7. QED
    BY <1>1, <1>5, <1>6, QueueMoves

\* A step keeps the promises to the listeners.
LEMMA EventStep ==
    ASSUME TypeOK, TypeOK', StackInv, Shape, InertInv, EventInv, [Next]_vars
    PROVE  EventInv'
<1>1. [ShutdownNext]_vars
    BY DEF ShutdownNext
<1> SUFFICES ASSUME NEW x \in eventsOwed' PROVE EventKept(x[1], x[2])'
    BY DEF EventInv
<1>2. PICK s, v : x = <<s, v>>
    BY DEF TypeOK
<1>3. CASE x \notin eventsOwed
  <2>1. PICK e \in Entities : emit(e) /\ x \in Subscribed("listener", e) \X {events + 1}
      BY <1>1, <1>3, EventsMade
  <2>2. /\ s \in DOMAIN subs /\ subs[s].kind = "listener" /\ subs[s].key = e /\ subs[s].st # "gone"
        /\ v = events + 1 /\ UNCHANGED subs
      BY <1>2, <2>1 DEF Subscribed, emit
  <2>3. events + 1 \in 1..MaxEvents
      BY <2>1, BoundsAssumption DEF emit, TypeOK
  <2>4. PICK f \in Effect : f.k = "emit" /\ f.key = e /\ f.event = v /\ Push(f)
      BY <2>1, <2>2, <2>3, EffectsMade DEF emit, PushEvent
  <2>5. PICK n \in DOMAIN pendingEffects' :
            /\ pendingEffects'[n] = f
            /\ \A j \in DOMAIN pendingEffects :
                  j \in DOMAIN pendingEffects' /\ pendingEffects'[j] = pendingEffects[j] /\ j < n
    <3>1. /\ Len(pendingEffects) \in Nat /\ DOMAIN pendingEffects = 1..Len(pendingEffects)
          /\ DOMAIN pendingEffects' = 1..Len(pendingEffects) + 1
          /\ \A i \in 1..Len(pendingEffects) : pendingEffects'[i] = pendingEffects[i]
          /\ pendingEffects'[Len(pendingEffects) + 1] = f
        BY <2>4, QueueEffect DEF TypeOK
    <3>2. \A m \in Nat : /\ m + 1 \in 1..m + 1
                         /\ \A j \in 1..m : j \in 1..m + 1 /\ j < m + 1
        OBVIOUS
    <3>3. /\ Len(pendingEffects) + 1 \in 1..Len(pendingEffects) + 1
          /\ \A j \in 1..Len(pendingEffects) :
                j \in 1..Len(pendingEffects) + 1 /\ j < Len(pendingEffects) + 1
        BY <3>1, <3>2
    <3>4. QED
        BY <3>1, <3>3
  <2>6. subs[s].st = "inactive" =>
           \E j \in DOMAIN pendingEffects' :
              j < n /\ pendingEffects'[j].k = "activate" /\ pendingEffects'[j].sub = s
      BY <2>2, <2>5 DEF InertInv
  <2>7. Promised(s, v)'
      BY <2>2, <2>4, <2>5, <2>6 DEF Promised
  <2>8. QED
      BY <1>2, <2>2, <2>7 DEF EventKept
<1>4. CASE x \in eventsOwed
  <2>1. s \in DOMAIN subs /\ v \in 1..MaxEvents
      BY <1>2, <1>4 DEF TypeOK
  <2>2. EventKept(s, v)
      BY <1>2, <1>4 DEF EventInv
  <2>3. subs[s].kind = "listener" /\ subs[s].st # "gone"
      BY <2>2 DEF EventKept
  <2>4. /\ subs'[s].kind = "listener" /\ subs'[s].st # "gone"
        /\ subs[s].st = "active" => subs'[s].st = "active"
      BY <1>1, <1>2, <2>1, <2>3, SubKept
  <2>5. CASE Promised(s, v)
    <3>1. Promised(s, v)' \/ (ToVisit(s, v)' /\ subs'[s].st = "active")
        BY <2>1, <2>3, <2>4, <2>5, PromiseKept
    <3>2. QED
        BY <1>2, <2>4, <3>1 DEF EventKept
  <2>6. CASE ToVisit(s, v) /\ subs[s].st = "active"
    <3>1. ASSUME callSubscriber(s) \/ expireSubscriber(s) \/ skipSubscriber(s), Head(stack).event = v
          PROVE  FALSE
      <4>1. v # 0
          BY <2>1
      <4>2. QED
          BY <1>2, <2>6, <3>1, <4>1 DEF callSubscriber, expireSubscriber, skipSubscriber, Forget
    <3>2. ToVisit(s, v)'
        BY <2>6, <3>1, VisitKept
    <3>3. QED
        BY <1>2, <2>4, <2>6, <3>2 DEF EventKept
  <2>7. QED
      BY <2>2, <2>5, <2>6 DEF EventKept
<1>5. QED
    BY <1>3, <1>4

\* Listeners, in every behaviour without a shutdown.
LEMMA EventsHold == Spec => [](TypeOK /\ StackInv /\ Shape /\ InertInv /\ EventInv)
<1>1. Init => InertInv /\ EventInv
    BY DEF Init, InertInv, EventInv
<1>2. TypeOK /\ InertInv /\ [Next]_vars => InertInv'
    BY InertStep DEF ShutdownNext
<1>3. TypeOK /\ TypeOK' /\ StackInv /\ Shape /\ InertInv /\ EventInv /\ [Next]_vars => EventInv'
    BY EventStep
<1>4. QED
    BY <1>1, <1>2, <1>3, ShapeHolds, PTL DEF Spec

\* An event is delivered to every listener that was subscribed when it was
\* emitted, also to one that was still inert, unless the listener goes: until
\* then the event is queued or the listener is still to be visited.
THEOREM EventsKept == Spec => []NoEventLost
<1>1. EventInv => NoEventLost
    BY DEF EventInv, EventKept, Promised, NoEventLost
<1>2. QED
    BY <1>1, EventsHold, PTL

\* Events are numbered in the order in which they are emitted.
LEMMA EventsCount ==
    ASSUME TypeOK, [ShutdownNext]_vars
    PROVE  events \in Nat /\ events' \in Nat /\ events <= events'
<1>1. events \in Nat
    BY BoundsAssumption DEF TypeOK
<1>2. events' = events \/ events' = events + 1
  <2>1. CASE UserCall
      BY <2>1
         DEF UserCall, notify, emit, new, dropHandle, keepHandle, observe, subscribe, unsubscribe,
             defer, observe_global, set_global, remove_global, NewSubscription, remove_window, world
  <2>2. CASE Updates \/ shutdown \/ shutdownFlush \/ Rest \/ UNCHANGED vars
      BY <2>2
         DEF Updates, start_update, update_window, trail, finish_update, shutdown, shutdownFlush,
             Rest, vars, world
  <2>3. CASE Flush
      BY <2>3
         DEF Flush, take_dropped, release, released, apply_notify_effect, apply_emit_effect,
             activate, apply_defer_effect, apply_entity_created_effect, flushed, callSubscriber,
             expireSubscriber, skipSubscriber, delivered, return, world
  <2>4. QED
      BY <2>1, <2>2, <2>3 DEF ShutdownNext, Next
<1>3. QED
    BY <1>1, <1>2

\* The event of a queued effect and of a delivery is a number.
LEMMA EventNumbers ==
    ASSUME TypeOK
    PROVE  /\ \A i \in DOMAIN pendingEffects : pendingEffects[i].k = "emit" =>
                 pendingEffects[i].event \in Nat /\ pendingEffects[i].event > 0
           /\ \A f \in FramesOf(stack) : f \in Frame /\ (f.k = "deliver" => f.event \in Nat)
<1>1. \A i \in DOMAIN pendingEffects : pendingEffects[i] \in Effect
    BY ElementOfSeq, LenProperties DEF TypeOK
<1>2. \A f \in FramesOf(stack) : f \in Frame
    BY ElementOfSeq, LenProperties DEF TypeOK, FramesOf
<1>3. QED
    BY <1>1, <1>2, EffectFields, FrameFields, BoundsAssumption

\* A step keeps the queued events in order.
LEMMA QueueOrder ==
    ASSUME TypeOK, TypeOK', OrderInv, [ShutdownNext]_vars
    PROVE  \A i \in DOMAIN pendingEffects' : pendingEffects'[i].k = "emit" =>
             /\ pendingEffects'[i].event <= events'
             /\ \A j \in DOMAIN pendingEffects' :
                   pendingEffects'[j].k = "emit" /\ i < j =>
                       pendingEffects'[i].event < pendingEffects'[j].event
<1>1. events \in Nat /\ events' \in Nat /\ events <= events'
    BY EventsCount
<1>2. /\ \A i \in DOMAIN pendingEffects : pendingEffects[i].k = "emit" => pendingEffects[i].event \in Nat
      /\ \A i \in DOMAIN pendingEffects' : pendingEffects'[i].k = "emit" => pendingEffects'[i].event \in Nat
      /\ DOMAIN pendingEffects \subseteq Nat /\ DOMAIN pendingEffects' \subseteq Nat
  <2>1. \A i \in DOMAIN pendingEffects' : pendingEffects'[i].k = "emit" => pendingEffects'[i].event \in Nat
      BY EventNumbers, ElementOfSeq, LenProperties, EffectFields DEF TypeOK
  <2>2. DOMAIN pendingEffects \subseteq Nat /\ DOMAIN pendingEffects' \subseteq Nat
      BY LenProperties DEF TypeOK
  <2>3. QED
      BY <2>1, <2>2, EventNumbers
<1>3. /\ \A i \in DOMAIN pendingEffects : pendingEffects[i].k = "emit" => pendingEffects[i].event <= events
      /\ \A i, j \in DOMAIN pendingEffects :
            pendingEffects[i].k = "emit" /\ pendingEffects[j].k = "emit" /\ i < j =>
                pendingEffects[i].event < pendingEffects[j].event
    BY DEF OrderInv
<1> SUFFICES ASSUME NEW i \in DOMAIN pendingEffects', pendingEffects'[i].k = "emit"
             PROVE  /\ pendingEffects'[i].event <= events'
                    /\ \A j \in DOMAIN pendingEffects' :
                          pendingEffects'[j].k = "emit" /\ i < j =>
                              pendingEffects'[i].event < pendingEffects'[j].event
    OBVIOUS
<1>4. CASE /\ \A j \in DOMAIN pendingEffects :
                 j \in DOMAIN pendingEffects' /\ pendingEffects'[j] = pendingEffects[j]
           /\ \A j \in DOMAIN pendingEffects' :
                 \/ j \in DOMAIN pendingEffects
                 \/ /\ \A n \in DOMAIN pendingEffects' : n <= j
                    /\ pendingEffects'[j].k = "emit" =>
                          pendingEffects'[j].event = events + 1 /\ events' = events + 1
  <2>1. CASE i \in DOMAIN pendingEffects
    <3>1. pendingEffects'[i] = pendingEffects[i] /\ pendingEffects[i].event <= events
        BY <1>3, <1>4, <2>1
    <3>2. ASSUME NEW j \in DOMAIN pendingEffects', pendingEffects'[j].k = "emit", i < j
          PROVE  pendingEffects'[i].event < pendingEffects'[j].event
      <4>1. CASE j \in DOMAIN pendingEffects
          BY <1>3, <1>4, <2>1, <3>1, <3>2, <4>1
      <4>2. CASE j \notin DOMAIN pendingEffects
          BY <1>1, <1>2, <1>4, <2>1, <3>1, <3>2, <4>2
      <4>3. QED
          BY <4>1, <4>2
    <3>3. QED
        BY <1>1, <1>2, <2>1, <3>1, <3>2
  <2>2. CASE i \notin DOMAIN pendingEffects
    <3>1. pendingEffects'[i].event <= events'
        BY <1>1, <1>4, <2>2
    <3>2. \A j \in DOMAIN pendingEffects' : ~(i < j)
        BY <1>2, <1>4, <2>2
    <3>3. QED
        BY <3>1, <3>2
  <2>3. QED
      BY <2>1, <2>2
<1>5. CASE \A j \in DOMAIN pendingEffects' :
              j + 1 \in DOMAIN pendingEffects /\ pendingEffects'[j] = pendingEffects[j + 1]
  <2>1. pendingEffects'[i].event <= events /\ pendingEffects'[i].event \in Nat
      BY <1>2, <1>3, <1>5
  <2>2. ASSUME NEW j \in DOMAIN pendingEffects', pendingEffects'[j].k = "emit", i < j
        PROVE  pendingEffects'[i].event < pendingEffects'[j].event
    <3>1. i + 1 < j + 1
        BY <1>2, <2>2
    <3>2. QED
        BY <1>3, <1>5, <2>2, <3>1
  <2>3. pendingEffects'[i].event <= events'
      BY <1>1, <2>1
  <2>4. QED
      BY <2>2, <2>3
<1>6. QED
    BY <1>4, <1>5, QueueMoves

\* The event v is not later than what was emitted and before what is queued.
Before(v) ==
    /\ v <= events
    /\ \A i \in DOMAIN pendingEffects : pendingEffects[i].k = "emit" => v < pendingEffects[i].event

\* It stays so, as later events are queued.
LEMMA StaysBefore ==
    ASSUME TypeOK, [ShutdownNext]_vars, NEW v \in Nat, Before(v)
    PROVE  Before(v)'
<1>1. events \in Nat /\ events' \in Nat /\ events <= events' /\ v <= events
    BY EventsCount DEF Before
<1>2. ASSUME NEW i \in DOMAIN pendingEffects', pendingEffects'[i].k = "emit"
      PROVE  v < pendingEffects'[i].event
  <2>1. CASE \E j \in DOMAIN pendingEffects : pendingEffects'[i] = pendingEffects[j]
      BY <1>2, <2>1 DEF Before
  <2>2. CASE pendingEffects'[i].event = events + 1
      BY <1>1, <2>2
  <2>3. QED
      BY <1>2, <2>1, <2>2, QueueMoves
<1>3. QED
    BY <1>1, <1>2 DEF Before

\* A step keeps the delivery before the queued events.
LEMMA DeliveryOrder ==
    ASSUME TypeOK, TypeOK', StackInv, Shape, OrderInv, [Next]_vars,
           NEW g \in FramesOf(stack'), g.k = "deliver"
    PROVE  Before(g.event)'
<1>1. [ShutdownNext]_vars
    BY DEF ShutdownNext
<1>2. ASSUME NEW f \in FramesOf(stack), f.k = "deliver" PROVE f.event \in Nat /\ Before(f.event)
    BY <1>2, EventNumbers DEF OrderInv, Before
<1>3. CASE g \in FramesOf(stack)
    BY <1>1, <1>2, <1>3, StaysBefore
<1>4. ASSUME NEW s \in DOMAIN subs, Visit(s, g), Head(stack) \in FramesOf(stack)
      PROVE  Before(g.event)'
  <2>1. Running("deliver") /\ g = [Head(stack) EXCEPT !.rest = @ \ {s}]
      BY <1>4 DEF Visit, IsNext
  <2>2. Head(stack).k = "deliver" /\ g.event = Head(stack).event
      BY <2>1, HeadFrame, FramesChanged
  <2>3. QED
      BY <1>1, <1>2, <1>4, <2>2, StaysBefore
<1>5. ASSUME NEW k, Pop(k), NEW kind, NEW key \in Keys, NEW v \in 0..MaxEvents,
             stack' = <<Retain(kind, key, v)>> \o stack
      PROVE  g.event = v
  <2>1. Retain(kind, key, v) \in Frame /\ \A f \in FramesOf(stack) : f.k # "deliver"
      BY <1>5, RetainTyped, FlushAlone DEF Pop
  <2>2. FramesOf(stack') = {Retain(kind, key, v)} \union FramesOf(stack)
      BY <1>5, <2>1, FramesPush DEF TypeOK
  <2>3. QED
      BY <2>1, <2>2 DEF Retain
<1>6. CASE apply_notify_effect
  <2>1. /\ Pop("notify") /\ Head(pendingEffects).key \in Keys /\ UNCHANGED events
        /\ stack' = <<Retain("observer", Head(pendingEffects).key, 0)>> \o stack
    <3>1. Head(pendingEffects) \in Effect /\ Head(pendingEffects).k = "notify"
        BY <1>6, ApplyEffect DEF TypeOK, apply_notify_effect, Pop
    <3>2. QED
        BY <1>6, <3>1, EffectFields DEF apply_notify_effect, world
  <2>2. 0 \in 0..MaxEvents
      BY BoundsAssumption
  <2>3. g.event = 0
      BY <1>5, <2>1, <2>2
  <2>4. \A i \in DOMAIN pendingEffects' : pendingEffects'[i].k = "emit" => 0 < pendingEffects'[i].event
    <3>1. \A i \in DOMAIN pendingEffects' : pendingEffects'[i] \in Effect
        BY ElementOfSeq, LenProperties DEF TypeOK
    <3>2. QED
        BY <3>1, EffectFields, BoundsAssumption
  <2>5. 0 <= events'
      BY <1>1, EventsCount
  <2>6. QED
      BY <2>3, <2>4, <2>5 DEF Before
<1>7. CASE apply_emit_effect
  <2>1. Head(pendingEffects) \in Effect /\ Pop("emit") /\ Head(pendingEffects).k = "emit"
      BY <1>7, ApplyEffect DEF TypeOK, apply_emit_effect, Pop
  <2>2. PICK v : v = Head(pendingEffects).event
      OBVIOUS
  <2>3. Head(pendingEffects).key \in Keys /\ v \in 0..MaxEvents /\ v \in Nat
      BY <2>1, <2>2, EffectFields, BoundsAssumption DEF Keys
  <2>4. stack' = <<Retain("listener", Head(pendingEffects).key, v)>> \o stack
      BY <1>7, <2>2 DEF apply_emit_effect
  <2>5. g.event = v
      BY <1>5, <2>1, <2>3, <2>4
  <2>6. /\ Len(pendingEffects) \in Nat /\ Len(pendingEffects) > 0
        /\ DOMAIN pendingEffects = 1..Len(pendingEffects)
        /\ DOMAIN pendingEffects' = 1..Len(pendingEffects) - 1
        /\ \A i \in 1..Len(pendingEffects) - 1 : pendingEffects'[i] = pendingEffects[i + 1]
        /\ Head(pendingEffects) = pendingEffects[1]
      BY <2>1, ApplyEffect DEF TypeOK
  <2>7. v <= events'
      BY <1>7, <2>1, <2>2, <2>6 DEF OrderInv, apply_emit_effect, world
  <2>8. ASSUME NEW i \in DOMAIN pendingEffects', pendingEffects'[i].k = "emit"
        PROVE  v < pendingEffects'[i].event
    <3>1. /\ 1 \in DOMAIN pendingEffects /\ i + 1 \in DOMAIN pendingEffects /\ 1 < i + 1
          /\ pendingEffects'[i] = pendingEffects[i + 1]
        BY <2>6, <2>8
    <3>2. QED
        BY <2>1, <2>2, <2>6, <2>8, <3>1 DEF OrderInv
  <2>9. QED
      BY <2>5, <2>7, <2>8 DEF Before
<1>8. QED
    BY <1>3, <1>4, <1>6, <1>7, DeliveryMoves

\* Events, in every behaviour without a shutdown.
LEMMA OrderHolds == Spec => [](TypeOK /\ StackInv /\ Shape /\ EventInv /\ OrderInv)
<1>1. Init => OrderInv
    BY DEF Init, OrderInv, FramesOf
<1>2. ASSUME TypeOK, TypeOK', StackInv, Shape, OrderInv, [Next]_vars PROVE OrderInv'
  <2>1. [ShutdownNext]_vars
      BY <1>2 DEF ShutdownNext
  <2>2. \A f \in FramesOf(stack') : f.k = "deliver" => Before(f.event)'
      BY <1>2, DeliveryOrder
  <2>3. QED
      BY <1>2, <2>1, <2>2, QueueOrder DEF OrderInv, Before
<1>3. TypeOK /\ TypeOK' /\ StackInv /\ Shape /\ OrderInv /\ [Next]_vars => OrderInv'
    BY <1>2
<1>4. QED
    BY <1>1, <1>3, EventsHold, PTL DEF Spec

\* What EventsInOrder says of a step.
OlderFirst ==
    \A x \in eventsOwed \ eventsOwed' :
        subs'[x[1]].st # "gone" => \A y \in eventsOwed : y[1] = x[1] => y[2] >= x[2]

\* A listener that is still subscribed gets its events in the order in which they
\* were emitted, whatever its callbacks emit, subscribe or drop.
THEOREM EventsOrdered == Spec => EventsInOrder
<1>1. ASSUME TypeOK, StackInv, Shape, EventInv, OrderInv, [Next]_vars PROVE OlderFirst
  <2> SUFFICES ASSUME NEW x \in eventsOwed, x \notin eventsOwed', subs'[x[1]].st # "gone",
                      NEW y \in eventsOwed, y[1] = x[1]
               PROVE  y[2] >= x[2]
      BY DEF OlderFirst
  <2>1. PICK s : callSubscriber(s) /\ x = <<s, Head(stack).event>>
      BY <1>1, EventsPaid DEF ShutdownNext
  <2>2. Running("deliver")
      BY <2>1 DEF callSubscriber, IsNext
  <2>3. /\ stack # <<>> /\ Head(stack).k = "deliver" /\ Head(stack) \in FramesOf(stack)
        /\ Head(stack).event \in Nat
      BY <1>1, <2>2, HeadFrame, FramesTop, EventNumbers
  <2>4. EventKept(y[1], y[2]) /\ y[2] \in Nat
      BY <1>1, BoundsAssumption DEF EventInv, TypeOK
  <2>5. CASE Promised(y[1], y[2])
      BY <1>1, <2>1, <2>3, <2>4, <2>5 DEF Promised, OrderInv
  <2>6. CASE ToVisit(y[1], y[2])
    <3>1. PICK f \in FramesOf(stack) : f.k = "deliver" /\ f.event = y[2]
        BY <2>6, ToVisitFrames
    <3>2. f = Head(stack)
        BY <1>1, <2>3, <3>1, OneDelivery
    <3>3. QED
        BY <2>1, <2>3, <3>1, <3>2
  <2>7. QED
      BY <2>4, <2>5, <2>6 DEF EventKept
<1>2. TypeOK /\ StackInv /\ Shape /\ EventInv /\ OrderInv /\ [Next]_vars => [OlderFirst]_vars
    BY <1>1
<1>3. [OlderFirst]_vars <=>
        [\A x \in eventsOwed \ eventsOwed' :
            subs'[x[1]].st # "gone" => \A y \in eventsOwed : y[1] = x[1] => y[2] >= x[2]]_vars
    BY DEF OlderFirst
<1>4. QED
    BY <1>2, <1>3, OrderHolds, PTL DEF Spec, EventsInOrder

=============================================================================
