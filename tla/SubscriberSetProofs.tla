------------------------- MODULE SubscriberSetProofs ------------------------
(***************************************************************************)
(* Proofs about SubscriberSet for any set of keys, any number of           *)
(* subscribers and retains nested to any depth.                            *)
(***************************************************************************)
EXTENDS SubscriberSet, FiniteSetTheorems, SequenceTheorems,
        WellFoundedInduction, TLAPS

\* The subscribers a retain has taken out of the map and not let go.
Held(f) == f.todo \union f.kept \union ({f.cur} \ {0})

\* What the maps hold are subscribers of their key that were not ended.
MapsInv ==
    /\ ended \subseteq Created
    /\ \A k \in Keys : \A id \in subs[k] :
          id \in Created /\ key[id] = k /\ id \notin ended

\* What a retain holds are subscribers of its key that were not ended, and it
\* holds each in one place.
FramesInv ==
    \A i \in 1..Len(stack) :
        /\ stack[i].todo \cap stack[i].kept = {}
        /\ stack[i].cur \notin stack[i].todo \union stack[i].kept
        /\ \A id \in Held(stack[i]) :
              id \in Created /\ key[id] = stack[i].key /\ id \notin ended

\* Nothing is held by a map and a retain, or by two retains.
Apart ==
    /\ \A i \in 1..Len(stack) : \A k \in Keys : Held(stack[i]) \cap subs[k] = {}
    /\ \A i, j \in 1..Len(stack) : i # j => Held(stack[i]) \cap Held(stack[j]) = {}

\* A subscriber that was neither dropped nor ended is held by somebody.
SomewhereInv ==
    \A id \in Created :
        ~dropped[id] /\ id \notin ended =>
            \/ id \in subs[key[id]]
            \/ \E i \in 1..Len(stack) : id \in Held(stack[i])

IInv == MapsInv /\ FramesInv /\ Apart /\ SomewhereInv

-----------------------------------------------------------------------------
(* The operators.                                                           *)

\* Least of a set of ids that is not empty is one of them.
LEMMA LeastInSet ==
    ASSUME NEW S, S \subseteq Ids, S # {}
    PROVE  Least(S) \in S
<1> DEFINE R == OpToRel(<, Nat)
<1>1. IsWellFoundedOn(R, Nat)
    BY NatLessThanWellFounded
<1>2. S \subseteq Nat
    BY BoundsAssumption DEF Ids
<1>3. \E x \in S : \A y \in S : ~(<<y, x>> \in R)
    BY <1>1, <1>2, WFMin
<1>4. \E x \in S : \A y \in S : ~(y < x)
    BY <1>2, <1>3 DEF OpToRel
<1>5. \E x \in S : \A y \in S : x <= y
    <2> HIDE DEF R
    <2> QED BY <1>2, <1>4
<1> QED BY <1>5, Zenon DEF Least

\* Created subscribers are ids.
LEMMA CreatedAreIds ==
    ASSUME TypeOK
    PROVE  Created \subseteq Ids
BY BoundsAssumption DEF TypeOK, Created, Ids

\* A retain that begins is a frame.
LEMMA PushedFrame ==
    ASSUME TypeOK, NEW k \in Keys, NEW kind \in {"retain", "drain"}
    PROVE  Frame(kind, k) \in Frames
BY DEF TypeOK, Frame, Frames

\* What is dropped by the destruction of subscribers are ids.
LEMMA OwnedAreIds ==
    ASSUME TypeOK, NEW S
    PROVE  OwnedBy(S) \subseteq Ids
BY CreatedAreIds DEF OwnedBy

LEMMA UnsubscribeTypes ==
    ASSUME TypeOK, NEW U, Unsubscribe(U)
    PROVE  /\ dropped' \in [Ids -> BOOLEAN]
           /\ subs' \in [Keys -> SUBSET Ids]
           /\ handle' \in [Ids -> HandleStates]
           /\ panic' \in BOOLEAN
<1>1. dropped' \in [Ids -> BOOLEAN]
    BY Zenon DEF Unsubscribe, TypeOK
<1>2. panic' \in BOOLEAN
    BY Zenon DEF Unsubscribe
<1>3. subs' \in [Keys -> SUBSET Ids]
    BY DEF Unsubscribe, TypeOK
<1>4. handle' \in [Ids -> HandleStates]
    BY DEF Unsubscribe, TypeOK, HandleStates
<1> QED BY <1>1, <1>2, <1>3, <1>4

LEMMA KeepTypes ==
    ASSUME TypeOK, Keep
    PROVE  /\ dropped' \in [Ids -> BOOLEAN]
           /\ subs' \in [Keys -> SUBSET Ids]
           /\ handle' \in [Ids -> HandleStates]
           /\ panic' \in BOOLEAN
BY DEF Keep, TypeOK

-----------------------------------------------------------------------------
(* Type correctness.                                                        *)

\* The innermost frame.
LEMMA HeadFrame ==
    ASSUME TypeOK, stack # <<>>
    PROVE  /\ Len(stack) \in Nat /\ Len(stack) >= 1
           /\ Head(stack) = stack[1] /\ stack[1] \in Frames
           /\ stack[1].key \in Keys
           /\ stack[1].todo \subseteq Ids /\ stack[1].kept \subseteq Ids
           /\ stack[1].cur \in Ids \union {0}
<1>1. /\ Len(stack) \in Nat /\ Len(stack) >= 1
      /\ Head(stack) = stack[1] /\ stack[1] \in Frames
    BY DEF TypeOK
<1> QED BY <1>1 DEF Frames

\* Where RetainNext leaves the innermost frame.
LEMMA NextFrame ==
    ASSUME TypeOK, RetainNext
    PROVE  LET f == stack[1]
               id == Least(f.todo)
           IN  /\ id \in f.todo /\ id \in Ids
               /\ f.cur = 0 /\ f.kind = "retain" /\ ~panic
               /\ \E g \in Frames :
                     /\ stack' = [stack EXCEPT ![1] = g]
                     /\ g.key = f.key /\ g.todo = f.todo \ {id}
                     /\ g.kind = "retain"
                     /\ \/ g.cur = id /\ g.kept = f.kept /\ Calls(id)
                        \/ g.cur = 0 /\ g.kept = f.kept /\ active[id] /\ dropped[id]
                        \/ g.cur = 0 /\ g.kept = f.kept \union {id} /\ ~active[id]
<1> DEFINE f == stack[1]
           id == Least(f.todo)
<1>1. /\ stack # <<>> /\ Head(stack).cur = 0 /\ Head(stack).kind = "retain"
      /\ Head(stack).todo # {} /\ ~panic
    BY DEF RetainNext, InLoop
<1>2. Head(stack) = f /\ f \in Frames /\ f.todo \subseteq Ids
    BY <1>1, HeadFrame
<1>3. id \in f.todo
    BY <1>1, <1>2, LeastInSet
<1> DEFINE g == IF Calls(id) THEN [f EXCEPT !.todo = @ \ {id}, !.cur = id]
                ELSE [f EXCEPT !.todo = @ \ {id},
                               !.kept = IF active[id] THEN @ ELSE @ \union {id}]
<1>4. stack' = [stack EXCEPT ![1] = g]
    BY <1>2 DEF RetainNext
<1> HIDE DEF id
<1>5. g \in Frames /\ g.key = f.key /\ g.todo = f.todo \ {id} /\ g.kind = "retain"
    BY <1>1, <1>2, <1>3 DEF Frames
<1>6. \/ g.cur = id /\ g.kept = f.kept /\ Calls(id)
      \/ g.cur = 0 /\ g.kept = f.kept /\ active[id] /\ dropped[id]
      \/ g.cur = 0 /\ g.kept = f.kept \union {id} /\ ~active[id]
    BY <1>1, <1>2, <1>3 DEF Frames, Calls
<1>7. id \in Ids
    BY <1>2, <1>3
<1> HIDE DEF g
<1> QED BY <1>1, <1>2, <1>3, <1>4, <1>5, <1>6, <1>7 DEF id

\* Where RetainReturn leaves it.
LEMMA ReturnFrame ==
    ASSUME TypeOK, NEW keep \in BOOLEAN, RetainReturn(keep)
    PROVE  LET f == stack[1]
               id == f.cur
           IN  /\ id \in Ids /\ id # 0 /\ stack # <<>> /\ ~panic
               /\ \E g \in Frames :
                     /\ stack' = [stack EXCEPT ![1] = g]
                     /\ g.key = f.key /\ g.todo = f.todo /\ g.cur = 0
                     /\ g.kind = "retain"
                     /\ g.kept = IF Stays(id, keep) THEN f.kept \union {id} ELSE f.kept
<1> DEFINE f == stack[1]
           id == f.cur
<1>1. /\ stack # <<>> /\ Head(stack).cur # 0 /\ Head(stack).kind = "retain"
      /\ ~panic
    BY DEF RetainReturn
<1>2. Head(stack) = f /\ f \in Frames /\ f.cur \in Ids \union {0}
    BY <1>1, HeadFrame
<1> DEFINE g == [f EXCEPT !.cur = 0,
                          !.kept = IF Stays(id, keep) THEN @ \union {id} ELSE @]
<1>3. stack' = [stack EXCEPT ![1] = g]
    BY <1>2 DEF RetainReturn
<1>4. /\ g \in Frames /\ g.key = f.key /\ g.todo = f.todo /\ g.cur = 0
      /\ g.kind = "retain"
      /\ g.kept = IF Stays(id, keep) THEN f.kept \union {id} ELSE f.kept
    BY <1>1, <1>2 DEF Frames
<1> HIDE DEF g
<1> QED BY <1>1, <1>2, <1>3, <1>4

LEMMA TypeInit == ASSUME Init PROVE TypeOK
<1>1. active \in [Ids -> BOOLEAN] /\ dropped \in [Ids -> BOOLEAN] /\ panic \in BOOLEAN
    BY Zenon DEF Init
<1>2. /\ next \in 1..(MaxSubs + 1) /\ subs \in [Keys -> SUBSET Ids]
      /\ ended \subseteq Ids /\ stack \in Seq(Frames)
      /\ handle \in [Ids -> HandleStates] /\ owner \in [Ids -> Ids \union {0}]
    BY BoundsAssumption DEF Init, HandleStates
<1>3. key \in [Ids -> Keys]
    BY DEF Init
<1> QED BY <1>1, <1>2, <1>3 DEF TypeOK

LEMMA InsertTypes ==
    ASSUME TypeOK, NEW k \in Keys, NEW C \in SUBSET Ids, Insert(k, C)
    PROVE  TypeOK'
<1>1. next \in Ids /\ next + 1 \in 1..(MaxSubs + 1)
    BY BoundsAssumption DEF TypeOK, Insert, Ids
<1>2. next' \in 1..(MaxSubs + 1)
    BY <1>1 DEF Insert
<1>3. subs' \in [Keys -> SUBSET Ids] /\ key' \in [Ids -> Keys]
    BY <1>1 DEF TypeOK, Insert, NewId
<1>4. handle' \in [Ids -> HandleStates] /\ owner' \in [Ids -> Ids \union {0}]
    BY <1>1 DEF TypeOK, Insert, HandleStates
<1> QED BY <1>2, <1>3, <1>4 DEF TypeOK, Insert

\* The program keeps the types.
LEMMA ProgramTypes ==
    ASSUME TypeOK, Program
    PROVE  TypeOK'
<1>1. CASE \E k \in Keys :
              \E C \in {{}} \union {{id} : id \in {i \in Created : handle[i] = "user"}} :
                 Insert(k, C)
    <2>1. PICK k \in Keys, C \in SUBSET Ids : Insert(k, C)
        BY <1>1, CreatedAreIds
    <2> QED BY <2>1, InsertTypes
<1>2. ASSUME NEW id \in Ids, Activate(id) PROVE TypeOK'
    <2>1. active' \in [Ids -> BOOLEAN]
        BY <1>2 DEF TypeOK, Activate
    <2> QED BY <1>2, <2>1 DEF TypeOK, Activate
<1>3. ASSUME NEW U, Unsubscribe(U), UNCHANGED <<data, ended, stack>>
      PROVE  TypeOK'
    BY <1>3, UnsubscribeTypes DEF TypeOK, data
<1>4. ASSUME NEW id \in Ids, Detach(id) PROVE TypeOK'
    <2>1. handle' \in [Ids -> HandleStates]
        BY <1>4 DEF TypeOK, Detach, HandleStates
    <2> QED BY <1>4, <2>1 DEF TypeOK, Detach, data
<1> QED BY <1>1, <1>2, <1>3, <1>4, Zenon DEF Program, Drop, DropJoined

LEMMA RemoveTypes ==
    ASSUME TypeOK, NEW k \in Keys, Remove(k)
    PROVE  TypeOK'
<1>1. PICK gone \in SUBSET Ids :
          /\ dropped' = [id \in Ids |-> dropped[id] \/ id \in gone]
          /\ subs' = [j \in Keys |-> IF j = k THEN {} ELSE subs[j] \ gone]
          /\ handle' = [id \in Ids |-> IF id \in gone THEN "gone" ELSE handle[id]]
          /\ panic' = (\E id \in gone : /\ id \in subs[key[id]] /\ key[id] # k
                                        /\ OwnedBy({id}) # {})
    BY OwnedAreIds, Zenon DEF Remove
<1>2. dropped' \in [Ids -> BOOLEAN] /\ panic' \in BOOLEAN
    BY <1>1, Zenon
<1>3. subs' \in [Keys -> SUBSET Ids] /\ handle' \in [Ids -> HandleStates]
    BY <1>1 DEF TypeOK, HandleStates
<1>4. ended' \subseteq Ids
    BY DEF TypeOK, Remove
<1> QED BY <1>2, <1>3, <1>4 DEF TypeOK, Remove, data

\* So do the steps of retain.
LEMMA RetainTypes ==
    ASSUME TypeOK
    PROVE  /\ \A k \in Keys : RetainBegin(k) => TypeOK'
           /\ RetainNext => TypeOK'
           /\ \A keep \in BOOLEAN : RetainReturn(keep) => TypeOK'
           /\ RetainEnd => TypeOK'
<1>1. ASSUME NEW k \in Keys, RetainBegin(k) PROVE TypeOK'
    <2>1. Frame("retain", k) \in Frames
        BY PushedFrame
    <2>2. stack' \in Seq(Frames) /\ subs' \in [Keys -> SUBSET Ids]
        BY <1>1, <2>1 DEF TypeOK, RetainBegin
    <2> QED BY <1>1, <2>2 DEF TypeOK, RetainBegin, data
<1>2. ASSUME RetainNext PROVE TypeOK'
    <2>1. stack' \in Seq(Frames)
        BY <1>2, NextFrame DEF TypeOK
    <2>2. Keep \/ \E U : Unsubscribe(U)
        BY <1>2, Zenon DEF RetainNext, Destroy
    <2>3. /\ dropped' \in [Ids -> BOOLEAN] /\ subs' \in [Keys -> SUBSET Ids]
          /\ handle' \in [Ids -> HandleStates] /\ panic' \in BOOLEAN
        BY <2>2, KeepTypes, UnsubscribeTypes
    <2> QED BY <1>2, <2>1, <2>3 DEF TypeOK, RetainNext, data
<1>3. ASSUME NEW keep \in BOOLEAN, RetainReturn(keep) PROVE TypeOK'
    <2>1. stack' \in Seq(Frames)
        BY <1>3, ReturnFrame DEF TypeOK
    <2>2. Keep \/ \E U : Unsubscribe(U)
        BY <1>3, Zenon DEF RetainReturn, Destroy
    <2>3. /\ dropped' \in [Ids -> BOOLEAN] /\ subs' \in [Keys -> SUBSET Ids]
          /\ handle' \in [Ids -> HandleStates] /\ panic' \in BOOLEAN
        BY <2>2, KeepTypes, UnsubscribeTypes
    <2>4. ended' \subseteq Ids
        <3>1. stack # <<>>
            BY <1>3 DEF RetainReturn
        <3>2. Head(stack).cur \in Ids
            BY <1>3, <3>1, ReturnFrame, HeadFrame
        <3> QED BY <1>3, <3>2 DEF TypeOK, RetainReturn
    <2> QED BY <1>3, <2>1, <2>3, <2>4 DEF TypeOK, RetainReturn, data
<1>4. ASSUME RetainEnd PROVE TypeOK'
    <2>1. stack # <<>>
        BY <1>4 DEF RetainEnd, InLoop
    <2>2. stack' \in Seq(Frames)
        BY <1>4, <2>1 DEF TypeOK, RetainEnd
    <2>3. Head(stack).key \in Keys /\ Head(stack).kept \subseteq Ids
        BY <2>1, HeadFrame
    <2>4. subs' \in [Keys -> SUBSET Ids]
        BY <1>4, <2>3 DEF TypeOK, RetainEnd, Merged
    <2> QED BY <1>4, <2>2, <2>4 DEF TypeOK, RetainEnd, data
<1> QED BY <1>1, <1>2, <1>3, <1>4

LEMMA TypeStep ==
    ASSUME TypeOK, [RetainNextStep]_vars
    PROVE  TypeOK'
<1>1. CASE UNCHANGED vars
    BY <1>1 DEF TypeOK, vars, data
<1>2. CASE RetainNextStep
    BY <1>2, ProgramTypes, RemoveTypes, RetainTypes, Zenon DEF RetainNextStep
<1> QED BY <1>1, <1>2

\* The sets are well typed, however the operations nest.
THEOREM RetainTypeCorrect == RetainSpec => []TypeOK
<1>1. Init => TypeOK
    BY TypeInit
<1>2. TypeOK /\ [RetainNextStep]_vars => TypeOK'
    BY TypeStep
<1> QED BY <1>1, <1>2, PTL DEF RetainSpec

-----------------------------------------------------------------------------
(* Every subscriber is in one place.                                        *)

\* What a frame holds are ids.
LEMMA HeldAreIds ==
    ASSUME TypeOK, NEW i \in 1..Len(stack)
    PROVE  /\ stack[i] \in Frames /\ stack[i].key \in Keys
           /\ stack[i].todo \subseteq Ids /\ stack[i].kept \subseteq Ids
           /\ stack[i].cur \in Ids \union {0}
           /\ Held(stack[i]) \subseteq Ids /\ 0 \notin Held(stack[i])
<1>1. stack[i] \in Frames
    BY DEF TypeOK
<1>2. 0 \notin Ids
    BY DEF Ids
<1> QED BY <1>1, <1>2 DEF Frames, Held

LEMMA InvInit == ASSUME Init PROVE IInv
BY BoundsAssumption
   DEF Init, IInv, MapsInv, FramesInv, Apart, SomewhereInv, Created

\* Subscriptions are dropped; no loop moves.
LEMMA DropKeepsInv ==
    ASSUME TypeOK, IInv, NEW U,
           dropped' = [id \in Ids |-> dropped[id] \/ id \in U],
           subs' = [k \in Keys |-> subs[k] \ U],
           UNCHANGED <<next, key, ended, stack>>
    PROVE  IInv'
<1>1. Created' = Created
    BY DEF Created
<1>2. MapsInv'
    BY <1>1 DEF IInv, MapsInv
<1>3. FramesInv'
    BY <1>1 DEF IInv, FramesInv
<1>4. Apart'
    BY DEF IInv, Apart
<1>5. SomewhereInv'
    <2> SUFFICES ASSUME NEW id \in Created, ~dropped'[id], id \notin ended
                 PROVE  \/ id \in subs'[key[id]]
                        \/ \E i \in 1..Len(stack) : id \in Held(stack[i])
        BY <1>1 DEF SomewhereInv
    <2>1. id \in Ids /\ key[id] \in Keys
        BY CreatedAreIds DEF TypeOK
    <2>2. ~dropped[id] /\ id \notin U
        BY <2>1
    <2> QED BY <2>1, <2>2 DEF IInv, SomewhereInv
<1> QED BY <1>2, <1>3, <1>4, <1>5 DEF IInv

\* Nothing that IInv speaks of changes.
LEMMA SameKeepsInv ==
    ASSUME IInv, UNCHANGED <<next, key, subs, dropped, ended, stack>>
    PROVE  IInv'
BY DEF IInv, MapsInv, FramesInv, Apart, SomewhereInv, Created

LEMMA InsertKeepsInv ==
    ASSUME TypeOK, IInv, NEW k \in Keys, NEW C, Insert(k, C)
    PROVE  IInv'
<1>1. /\ next \in Ids /\ Created' = Created \union {next} /\ next \notin Created
      /\ Created \subseteq Ids
    BY BoundsAssumption DEF TypeOK, Insert, Ids, Created
<1>2. /\ subs' = [subs EXCEPT ![k] = @ \union {next}]
      /\ key' = [key EXCEPT ![next] = k]
      /\ UNCHANGED <<dropped, ended, stack>>
    BY DEF Insert, NewId
<1>3. /\ key'[next] = k
      /\ \A id \in Created : key'[id] = key[id] /\ key[id] \in Keys
    BY <1>1, <1>2 DEF TypeOK
<1>4. /\ \A j \in Keys : subs'[j] \subseteq subs[j] \union {next}
      /\ \A j \in Keys : subs[j] \subseteq subs'[j]
      /\ \A j \in Keys : j # k => subs'[j] = subs[j]
      /\ next \in subs'[k]
    BY <1>2 DEF TypeOK
<1>5. MapsInv'
    BY <1>1, <1>2, <1>3, <1>4 DEF IInv, MapsInv
<1>6. FramesInv'
    BY <1>1, <1>2, <1>3 DEF IInv, FramesInv
<1>7. Apart'
    <2>1. ASSUME NEW i \in 1..Len(stack) PROVE next \notin Held(stack[i])
        BY <1>1 DEF IInv, FramesInv
    <2>2. ASSUME NEW i \in 1..Len(stack), NEW j \in Keys
          PROVE  Held(stack[i]) \cap subs'[j] = {}
        <3>1. Held(stack[i]) \cap subs[j] = {}
            BY DEF IInv, Apart
        <3> QED BY <1>4, <2>1, <3>1
    <2> QED BY <1>2, <2>2 DEF IInv, Apart
<1>8. SomewhereInv'
    <2> SUFFICES ASSUME NEW id \in Created', ~dropped[id], id \notin ended
                 PROVE  \/ id \in subs'[key'[id]]
                        \/ \E i \in 1..Len(stack) : id \in Held(stack[i])
        BY <1>2 DEF SomewhereInv
    <2>1. CASE id = next
        BY <1>3, <1>4, <2>1
    <2>2. CASE id \in Created
        BY <1>3, <1>4, <2>2 DEF IInv, SomewhereInv
    <2> QED BY <1>1, <2>1, <2>2
<1> QED BY <1>5, <1>6, <1>7, <1>8 DEF IInv

LEMMA ProgramKeepsInv ==
    ASSUME TypeOK, IInv, Program
    PROVE  IInv'
<1>1. ASSUME NEW k \in Keys, NEW C, Insert(k, C) PROVE IInv'
    BY <1>1, InsertKeepsInv
<1>2. ASSUME NEW id \in Ids, Activate(id) PROVE IInv'
    BY <1>2, SameKeepsInv DEF Activate
<1>3. ASSUME NEW id \in Ids, Detach(id) PROVE IInv'
    BY <1>3, SameKeepsInv DEF Detach, data
<1>4. ASSUME NEW U, Unsubscribe(U), UNCHANGED <<data, ended, stack>>
      PROVE  IInv'
    BY <1>4, DropKeepsInv DEF Unsubscribe, data
<1> QED BY <1>1, <1>2, <1>3, <1>4, Zenon DEF Program, Drop, DropJoined

\* What a retain holds is not in the map that is removed.
LEMMA RemoveKeepsInv ==
    ASSUME TypeOK, IInv, NEW k \in Keys, Remove(k)
    PROVE  IInv'
<1>1. PICK gone :
          /\ dropped' = [id \in Ids |-> dropped[id] \/ id \in gone]
          /\ subs' = [j \in Keys |-> IF j = k THEN {} ELSE subs[j] \ gone]
    BY Zenon DEF Remove
<1>2. /\ ended' = ended \union subs[k]
      /\ UNCHANGED <<next, key, stack>> /\ Created' = Created
    BY DEF Remove, data, Created
<1>3. \A j \in Keys : subs'[j] \subseteq subs[j]
    BY <1>1
<1>4. MapsInv'
    <2>1. ended' \subseteq Created
        BY <1>2 DEF IInv, MapsInv
    <2>2. ASSUME NEW j \in Keys, NEW id \in subs'[j]
          PROVE  id \in Created /\ key[id] = j /\ id \notin ended'
        <3>1. j # k /\ id \in subs[j]
            BY <1>1, <2>2
        <3>2. id \in Created /\ key[id] = j /\ id \notin ended
            BY <3>1 DEF IInv, MapsInv
        <3>3. id \notin subs[k]
            BY <3>1, <3>2 DEF IInv, MapsInv
        <3> QED BY <1>2, <3>2, <3>3
    <2> QED BY <1>2, <2>1, <2>2 DEF MapsInv
<1>5. FramesInv'
    <2>1. \A i \in 1..Len(stack) : Held(stack[i]) \cap subs[k] = {}
        BY DEF IInv, Apart
    <2> QED BY <1>2, <2>1 DEF IInv, FramesInv
<1>6. Apart'
    BY <1>2, <1>3 DEF IInv, Apart
<1>7. SomewhereInv'
    <2> SUFFICES ASSUME NEW id \in Created, ~dropped'[id], id \notin ended'
                 PROVE  \/ id \in subs'[key[id]]
                        \/ \E i \in 1..Len(stack) : id \in Held(stack[i])
        BY <1>2 DEF SomewhereInv
    <2>1. id \in Ids /\ key[id] \in Keys
        BY CreatedAreIds DEF TypeOK
    <2>2. ~dropped[id] /\ id \notin gone /\ id \notin ended /\ id \notin subs[k]
        BY <1>1, <1>2, <2>1
    <2>3. \/ id \in subs[key[id]]
          \/ \E i \in 1..Len(stack) : id \in Held(stack[i])
        BY <2>2 DEF IInv, SomewhereInv
    <2> QED BY <1>1, <2>1, <2>2, <2>3
<1> QED BY <1>4, <1>5, <1>6, <1>7 DEF IInv

LEMMA RetainBeginKeepsInv ==
    ASSUME TypeOK, IInv, NEW k \in Keys, RetainBegin(k)
    PROVE  IInv'
<1>1. /\ subs' = [subs EXCEPT ![k] = {}] /\ subs[k] \subseteq Ids
      /\ UNCHANGED <<next, key, dropped, ended>> /\ Created' = Created
    BY DEF RetainBegin, data, Created, TypeOK
<1>2. PICK f \in Frames : f = Frame("retain", k)
    BY PushedFrame
<1>3. /\ f.key = k /\ f.todo = subs[k] /\ f.kept = {} /\ f.cur = 0
      /\ Held(f) = subs[k]
    BY <1>2 DEF Frame, Held
<1>4. stack' = <<f>> \o stack
    BY <1>2 DEF RetainBegin
<1>5. /\ Len(stack') = Len(stack) + 1 /\ Len(stack) \in Nat
      /\ stack'[1] = f
      /\ \A i \in 1..Len(stack') : i # 1 =>
            i - 1 \in 1..Len(stack) /\ stack'[i] = stack[i - 1]
      /\ \A i \in 1..Len(stack) :
            i + 1 \in 1..Len(stack') /\ stack'[i + 1] = stack[i]
    BY <1>4 DEF TypeOK
<1>6. /\ subs'[k] = {} /\ \A j \in Keys : j # k => subs'[j] = subs[j]
    BY <1>1 DEF TypeOK
<1>7. 0 \notin Ids
    BY DEF Ids
<1>8. MapsInv'
    BY <1>1, <1>6 DEF IInv, MapsInv
<1>9. FramesInv'
    <2> SUFFICES ASSUME NEW i \in 1..Len(stack')
                 PROVE  /\ stack'[i].todo \cap stack'[i].kept = {}
                        /\ stack'[i].cur \notin stack'[i].todo \union stack'[i].kept
                        /\ \A id \in Held(stack'[i]) :
                              id \in Created /\ key[id] = stack'[i].key /\ id \notin ended
        BY <1>1 DEF FramesInv
    <2>1. CASE i = 1
        BY <1>1, <1>3, <1>5, <1>7, <2>1 DEF IInv, MapsInv
    <2>2. CASE i # 1
        BY <1>5, <2>2 DEF IInv, FramesInv
    <2> QED BY <2>1, <2>2
<1>10. Apart'
    <2>1. ASSUME NEW i \in 1..Len(stack'), NEW j \in Keys
          PROVE  Held(stack'[i]) \cap subs'[j] = {}
        <3>1. CASE i = 1
            BY <1>3, <1>5, <1>6, <3>1 DEF IInv, MapsInv
        <3>2. CASE i # 1
            BY <1>5, <1>6, <3>2 DEF IInv, Apart
        <3> QED BY <3>1, <3>2
    <2>2. ASSUME NEW i \in 1..Len(stack') PROVE i # 1 => Held(stack'[i]) \cap Held(f) = {}
        BY <1>3, <1>5 DEF IInv, Apart
    <2>3. ASSUME NEW i \in 1..Len(stack'), NEW j \in 1..Len(stack'), i # j
          PROVE  Held(stack'[i]) \cap Held(stack'[j]) = {}
        <3>1. CASE i = 1 \/ j = 1
            BY <1>5, <2>2, <2>3, <3>1
        <3>2. CASE i # 1 /\ j # 1
            <4>1. i - 1 # j - 1
                BY <2>3
            <4> QED BY <1>5, <3>2, <4>1 DEF IInv, Apart
        <3> QED BY <3>1, <3>2
    <2> QED BY <2>1, <2>3 DEF Apart
<1>11. SomewhereInv'
    <2> SUFFICES ASSUME NEW id \in Created, ~dropped[id], id \notin ended
                 PROVE  \/ id \in subs'[key[id]]
                        \/ \E i \in 1..Len(stack') : id \in Held(stack'[i])
        BY <1>1 DEF SomewhereInv
    <2>1. key[id] \in Keys
        BY CreatedAreIds DEF TypeOK
    <2>2. CASE id \in subs[key[id]]
        <3>1. 1 \in 1..Len(stack')
            BY <1>5
        <3> QED BY <1>3, <1>5, <1>6, <2>1, <2>2, <3>1
    <2>3. CASE \E i \in 1..Len(stack) : id \in Held(stack[i])
        BY <1>5, <2>3
    <2> QED BY <2>2, <2>3 DEF IInv, SomewhereInv
<1> QED BY <1>8, <1>9, <1>10, <1>11 DEF IInv

\* The innermost retain changes what it holds to a part of it; what it lets go
\* was dropped or is ended now.
LEMMA InnermostKeepsInv ==
    ASSUME TypeOK, IInv, stack # <<>>,
           NEW g \in Frames, stack' = [stack EXCEPT ![1] = g],
           g.key = stack[1].key, Held(g) \subseteq Held(stack[1]),
           g.todo \cap g.kept = {}, g.cur \notin g.todo \union g.kept,
           NEW U,
           dropped' = [id \in Ids |-> dropped[id] \/ id \in U],
           subs' = [k \in Keys |-> subs[k] \ U],
           UNCHANGED <<next, key>>,
           NEW E, ended' = ended \union E, E \subseteq Held(stack[1]),
           E \cap Held(g) = {},
           \A id \in Held(stack[1]) \ Held(g) : dropped[id] \/ id \in E
    PROVE  IInv'
<1>1. /\ Created' = Created
      /\ Len(stack') = Len(stack) /\ 1 \in 1..Len(stack)
      /\ stack'[1] = g /\ \A i \in 1..Len(stack) : i # 1 => stack'[i] = stack[i]
    BY HeadFrame DEF Created, TypeOK
<1>2. ASSUME NEW i \in 1..Len(stack)
      PROVE  Held(stack'[i]) \subseteq Held(stack[i]) \ E
    <2>1. CASE i = 1
        BY <1>1, <2>1
    <2>2. CASE i # 1
        <3>1. Held(stack[i]) \cap Held(stack[1]) = {}
            BY <1>1, <2>2 DEF IInv, Apart
        <3> QED BY <1>1, <2>2, <3>1
    <2> QED BY <2>1, <2>2
<1>3. MapsInv'
    <2>1. ASSUME NEW k \in Keys PROVE subs'[k] \subseteq subs[k] \ E
        <3>1. Held(stack[1]) \cap subs[k] = {}
            BY <1>1 DEF IInv, Apart
        <3> QED BY <3>1
    <2>2. E \subseteq Created
        BY <1>1 DEF IInv, FramesInv
    <2> QED BY <1>1, <2>1, <2>2 DEF IInv, MapsInv
<1>4. FramesInv'
    <2> SUFFICES ASSUME NEW i \in 1..Len(stack)
                 PROVE  /\ stack'[i].todo \cap stack'[i].kept = {}
                        /\ stack'[i].cur \notin stack'[i].todo \union stack'[i].kept
                        /\ \A id \in Held(stack'[i]) :
                              id \in Created /\ key[id] = stack'[i].key /\ id \notin ended'
        BY <1>1 DEF FramesInv
    <2>1. stack'[i].key = stack[i].key
        BY <1>1
    <2>2. /\ stack'[i].todo \cap stack'[i].kept = {}
          /\ stack'[i].cur \notin stack'[i].todo \union stack'[i].kept
        BY <1>1 DEF IInv, FramesInv
    <2>3. \A id \in Held(stack[i]) :
              id \in Created /\ key[id] = stack[i].key /\ id \notin ended
        BY DEF IInv, FramesInv
    <2>4. \A id \in Held(stack'[i]) : id \in Held(stack[i]) /\ id \notin E
        BY <1>2
    <2>5. \A id \in Held(stack'[i]) :
              id \in Created /\ key[id] = stack'[i].key /\ id \notin ended'
        BY <2>1, <2>3, <2>4
    <2> QED BY <2>2, <2>5
<1>5. Apart'
    <2>1. ASSUME NEW i \in 1..Len(stack), NEW k \in Keys
          PROVE  Held(stack'[i]) \cap subs'[k] = {}
        <3>1. Held(stack[i]) \cap subs[k] = {}
            BY DEF IInv, Apart
        <3> QED BY <1>2, <3>1
    <2>2. ASSUME NEW i \in 1..Len(stack), NEW j \in 1..Len(stack), i # j
          PROVE  Held(stack'[i]) \cap Held(stack'[j]) = {}
        <3>1. Held(stack[i]) \cap Held(stack[j]) = {}
            BY <2>2 DEF IInv, Apart
        <3> QED BY <1>2, <3>1
    <2> QED BY <1>1, <2>1, <2>2 DEF Apart
<1>6. SomewhereInv'
    <2> SUFFICES ASSUME NEW id \in Created, ~dropped'[id], id \notin ended'
                 PROVE  \/ id \in subs'[key[id]]
                        \/ \E i \in 1..Len(stack) : id \in Held(stack'[i])
        BY <1>1 DEF SomewhereInv
    <2>1. id \in Ids /\ key[id] \in Keys
        BY CreatedAreIds DEF TypeOK
    <2>2. ~dropped[id] /\ id \notin U /\ id \notin ended /\ id \notin E
        BY <2>1
    <2>3. CASE id \in subs[key[id]]
        BY <2>1, <2>2, <2>3
    <2>4. ASSUME NEW i \in 1..Len(stack), id \in Held(stack[i])
          PROVE  id \in Held(stack'[i])
        <3>1. CASE i = 1
            BY <1>1, <2>2, <2>4, <3>1
        <3>2. CASE i # 1
            BY <1>1, <2>4, <3>2
        <3> QED BY <3>1, <3>2
    <2> QED BY <2>2, <2>3, <2>4 DEF IInv, SomewhereInv
<1> QED BY <1>3, <1>4, <1>5, <1>6 DEF IInv

\* What a step drops on the way.
LEMMA KeepOrDestroy ==
    ASSUME TypeOK, Keep \/ \E U : Unsubscribe(U)
    PROVE  \E U : /\ dropped' = [id \in Ids |-> dropped[id] \/ id \in U]
                  /\ subs' = [k \in Keys |-> subs[k] \ U]
<1>1. CASE Keep
    <2>1. dropped' = [id \in Ids |-> dropped[id] \/ id \in {}]
        BY <1>1 DEF Keep, TypeOK
    <2>2. subs' = [k \in Keys |-> subs[k] \ {}]
        BY <1>1 DEF Keep, TypeOK
    <2> QED BY <2>1, <2>2, Zenon
<1>2. CASE \E U : Unsubscribe(U)
    BY <1>2, Zenon DEF Unsubscribe
<1> QED BY <1>1, <1>2

LEMMA RetainNextKeepsInv ==
    ASSUME TypeOK, IInv, RetainNext
    PROVE  IInv'
<1> DEFINE f == stack[1]
<1>1. stack # <<>> /\ 1 \in 1..Len(stack)
    BY HeadFrame DEF RetainNext, InLoop
<1>2. PICK id \in Ids :
          /\ id = Least(f.todo) /\ id \in f.todo /\ f.cur = 0
          /\ \E g \in Frames :
                /\ stack' = [stack EXCEPT ![1] = g]
                /\ g.key = f.key /\ g.todo = f.todo \ {id}
                /\ \/ g.cur = id /\ g.kept = f.kept
                   \/ g.cur = 0 /\ g.kept = f.kept /\ dropped[id]
                   \/ g.cur = 0 /\ g.kept = f.kept \union {id}
    BY NextFrame, Zenon
<1>3. PICK g \in Frames :
          /\ stack' = [stack EXCEPT ![1] = g]
          /\ g.key = f.key /\ g.todo = f.todo \ {id}
          /\ \/ g.cur = id /\ g.kept = f.kept
             \/ g.cur = 0 /\ g.kept = f.kept /\ dropped[id]
             \/ g.cur = 0 /\ g.kept = f.kept \union {id}
    BY <1>2, Zenon
<1>4. /\ f.todo \cap f.kept = {} /\ f.todo \subseteq Ids /\ f.kept \subseteq Ids
      /\ 0 \notin Ids
    BY <1>1, HeldAreIds DEF IInv, FramesInv, Ids
<1>5. /\ Held(g) \subseteq Held(f)
      /\ g.todo \cap g.kept = {} /\ g.cur \notin g.todo \union g.kept
      /\ \A x \in Held(f) \ Held(g) : dropped[x]
    BY <1>2, <1>3, <1>4 DEF Held
<1>6. Keep \/ \E U : Unsubscribe(U)
    BY Zenon DEF RetainNext, Destroy
<1>7. PICK U : /\ dropped' = [x \in Ids |-> dropped[x] \/ x \in U]
               /\ subs' = [k \in Keys |-> subs[k] \ U]
    BY <1>6, KeepOrDestroy
<1>8. UNCHANGED <<next, key>> /\ ended' = ended \union {}
    BY DEF RetainNext, data
<1>9. stack' = [stack EXCEPT ![1] = g] /\ g.key = stack[1].key
    BY <1>3
<1> HIDE DEF f
<1> QED BY <1>1, <1>5, <1>7, <1>8, <1>9, InnermostKeepsInv DEF f

LEMMA RetainReturnKeepsInv ==
    ASSUME TypeOK, IInv, NEW keep \in BOOLEAN, RetainReturn(keep)
    PROVE  IInv'
<1> DEFINE f == stack[1]
<1>1. stack # <<>> /\ 1 \in 1..Len(stack) /\ Head(stack) = f
    BY HeadFrame DEF RetainReturn
<1>2. PICK id \in Ids : id = f.cur
    BY ReturnFrame
<1>3. PICK g \in Frames :
          /\ stack' = [stack EXCEPT ![1] = g]
          /\ g.key = f.key /\ g.todo = f.todo /\ g.cur = 0
          /\ g.kept = IF Stays(id, keep) THEN f.kept \union {id} ELSE f.kept
    BY <1>2, ReturnFrame
<1>4. /\ f.todo \cap f.kept = {} /\ f.todo \subseteq Ids /\ f.kept \subseteq Ids
      /\ id \notin f.todo \union f.kept /\ 0 \notin Ids
    BY <1>1, <1>2, HeldAreIds DEF IInv, FramesInv, Ids
<1> DEFINE E == IF keep THEN {} ELSE {id}
<1>5. /\ Held(g) \subseteq Held(f)
      /\ g.todo \cap g.kept = {} /\ g.cur \notin g.todo \union g.kept
      /\ E \subseteq Held(f) /\ E \cap Held(g) = {}
      /\ \A x \in Held(f) \ Held(g) : dropped[x] \/ x \in E
    BY <1>2, <1>3, <1>4 DEF Held, Stays
<1>6. Keep \/ \E U : Unsubscribe(U)
    BY Zenon DEF RetainReturn, Destroy
<1>7. PICK U : /\ dropped' = [x \in Ids |-> dropped[x] \/ x \in U]
               /\ subs' = [k \in Keys |-> subs[k] \ U]
    BY <1>6, KeepOrDestroy
<1>8. UNCHANGED <<next, key>> /\ ended' = ended \union E
    BY <1>1, <1>2 DEF RetainReturn, data
<1>9. stack' = [stack EXCEPT ![1] = g] /\ g.key = stack[1].key
    BY <1>3
<1> HIDE DEF f, E
<1> QED BY <1>1, <1>5, <1>7, <1>8, <1>9, InnermostKeepsInv DEF f

LEMMA RetainEndKeepsInv ==
    ASSUME TypeOK, IInv, RetainEnd
    PROVE  IInv'
<1>1. /\ stack # <<>> /\ Head(stack).cur = 0 /\ Head(stack).todo = {}
      /\ stack' = Tail(stack) /\ UNCHANGED <<next, key, dropped, ended>>
      /\ Created' = Created
    BY DEF RetainEnd, InLoop, data, Created
<1>2. PICK f \in Frames : f = stack[1]
    BY <1>1, HeadFrame
<1>3. /\ Head(stack) = f /\ 1 \in 1..Len(stack) /\ f.key \in Keys
      /\ Held(f) = f.kept
    BY <1>1, <1>2, HeadFrame DEF Held
<1>4. subs' = [subs EXCEPT ![f.key] = f.kept \union subs[f.key]]
    BY <1>3 DEF RetainEnd, Merged
<1>5. /\ subs'[f.key] = Held(f) \union subs[f.key]
      /\ \A k \in Keys : k # f.key => subs'[k] = subs[k]
    BY <1>3, <1>4 DEF TypeOK
<1>6. /\ Len(stack) \in Nat /\ Len(stack) >= 1 /\ Len(stack') = Len(stack) - 1
      /\ \A i \in 1..Len(stack') :
            i + 1 \in 1..Len(stack) /\ i + 1 # 1 /\ stack'[i] = stack[i + 1]
      /\ \A i \in 1..Len(stack) : i # 1 =>
            i - 1 \in 1..Len(stack') /\ stack'[i - 1] = stack[i]
    BY <1>1 DEF TypeOK
<1>7. MapsInv'
    <2>1. \A id \in Held(f) : id \in Created /\ key[id] = f.key /\ id \notin ended
        BY <1>2, <1>3 DEF IInv, FramesInv
    <2> QED BY <1>1, <1>3, <1>5, <2>1 DEF IInv, MapsInv
<1>8. FramesInv'
    <2> SUFFICES ASSUME NEW i \in 1..Len(stack')
                 PROVE  /\ stack'[i].todo \cap stack'[i].kept = {}
                        /\ stack'[i].cur \notin stack'[i].todo \union stack'[i].kept
                        /\ \A id \in Held(stack'[i]) :
                              id \in Created /\ key[id] = stack'[i].key /\ id \notin ended
        BY <1>1 DEF FramesInv
    <2>1. PICK j \in 1..Len(stack) : stack'[i] = stack[j]
        BY <1>6
    <2> QED BY <2>1 DEF IInv, FramesInv
<1>9. Apart'
    <2>1. ASSUME NEW i \in 1..Len(stack'), NEW k \in Keys
          PROVE  Held(stack'[i]) \cap subs'[k] = {}
        <3>1. PICK j \in 1..Len(stack) : j # 1 /\ stack'[i] = stack[j]
            BY <1>6
        <3>2. Held(stack[j]) \cap Held(f) = {} /\ Held(stack[j]) \cap subs[k] = {}
            BY <1>2, <1>3, <3>1 DEF IInv, Apart
        <3>3. CASE k = f.key
            BY <1>5, <3>1, <3>2, <3>3
        <3>4. CASE k # f.key
            BY <1>5, <3>1, <3>2, <3>4
        <3> QED BY <3>3, <3>4
    <2>2. ASSUME NEW i \in 1..Len(stack'), NEW j \in 1..Len(stack'), i # j
          PROVE  Held(stack'[i]) \cap Held(stack'[j]) = {}
        <3>1. i + 1 # j + 1
            BY <2>2
        <3> QED BY <1>6, <3>1 DEF IInv, Apart
    <2> QED BY <2>1, <2>2 DEF Apart
<1>10. SomewhereInv'
    <2> SUFFICES ASSUME NEW id \in Created, ~dropped[id], id \notin ended
                 PROVE  \/ id \in subs'[key[id]]
                        \/ \E i \in 1..Len(stack') : id \in Held(stack'[i])
        BY <1>1 DEF SomewhereInv
    <2>1. key[id] \in Keys
        BY CreatedAreIds DEF TypeOK
    <2>2. CASE id \in subs[key[id]]
        BY <1>5, <2>1, <2>2
    <2>3. ASSUME NEW i \in 1..Len(stack), id \in Held(stack[i])
          PROVE  \/ id \in subs'[key[id]]
                 \/ \E j \in 1..Len(stack') : id \in Held(stack'[j])
        <3>1. CASE i = 1
            <4>1. key[id] = f.key
                BY <1>2, <2>3, <3>1 DEF IInv, FramesInv
            <4> QED BY <1>2, <1>5, <2>3, <3>1, <4>1
        <3>2. CASE i # 1
            BY <1>6, <2>3, <3>2
        <3> QED BY <3>1, <3>2
    <2> QED BY <2>2, <2>3 DEF IInv, SomewhereInv
<1> QED BY <1>7, <1>8, <1>9, <1>10 DEF IInv

LEMMA InvStep ==
    ASSUME TypeOK, IInv, [RetainNextStep]_vars
    PROVE  IInv'
<1>1. CASE UNCHANGED vars
    BY <1>1, SameKeepsInv DEF vars, data
<1>2. CASE RetainNextStep
    BY <1>2, ProgramKeepsInv, RemoveKeepsInv, RetainBeginKeepsInv,
       RetainNextKeepsInv, RetainReturnKeepsInv, RetainEndKeepsInv, Zenon
       DEF RetainNextStep
<1> QED BY <1>1, <1>2

\* Every subscriber that is neither dropped nor ended is held by exactly one
\* map or one retain in progress.
THEOREM OnePlace == RetainSpec => [](TypeOK /\ IInv)
<1>1. Init => TypeOK /\ IInv
    BY TypeInit, InvInit
<1>2. TypeOK /\ IInv /\ [RetainNextStep]_vars => (TypeOK /\ IInv)'
    BY TypeStep, InvStep
<1> QED BY <1>1, <1>2, PTL DEF RetainSpec

\* A frame holds an id exactly when InFrame says so.
LEMMA InFrameIsHeld ==
    ASSUME TypeOK, NEW i \in 1..Len(stack), NEW id \in Ids
    PROVE  InFrame(i, id) <=> id \in Held(stack[i])
<1>1. id # 0
    BY DEF Ids
<1> QED BY <1>1 DEF InFrame, Held

LEMMA InvImpliesNoSubscriberLost ==
    ASSUME TypeOK, IInv
    PROVE  NoSubscriberLost
<1> SUFFICES ASSUME NEW id \in Created, ~dropped[id], id \notin ended
             PROVE  \/ /\ id \in subs[key[id]]
                       /\ \A i \in 1..Len(stack) : ~InFrame(i, id)
                    \/ /\ id \notin subs[key[id]]
                       /\ Cardinality({i \in 1..Len(stack) : InFrame(i, id)}) = 1
                       /\ \A i \in 1..Len(stack) :
                             InFrame(i, id) => stack[i].key = key[id]
    BY Zenon DEF NoSubscriberLost
<1>1. id \in Ids /\ key[id] \in Keys
    BY CreatedAreIds DEF TypeOK
<1>2. \A i \in 1..Len(stack) : InFrame(i, id) <=> id \in Held(stack[i])
    BY <1>1, InFrameIsHeld
<1>3. \A i \in 1..Len(stack) : id \in Held(stack[i]) =>
          stack[i].key = key[id] /\ id \notin subs[key[id]]
    BY <1>1 DEF IInv, FramesInv, Apart
<1>4. CASE id \in subs[key[id]]
    BY <1>2, <1>3, <1>4
<1>5. CASE id \notin subs[key[id]]
    <2>1. PICK n \in 1..Len(stack) : id \in Held(stack[n])
        BY <1>5 DEF IInv, SomewhereInv
    <2>2. \A i \in 1..Len(stack) : id \in Held(stack[i]) => i = n
        BY <2>1 DEF IInv, Apart
    <2>3. {i \in 1..Len(stack) : InFrame(i, id)} = {n}
        BY <1>2, <2>1, <2>2
    <2>4. Cardinality({n}) = 1
        BY FS_Singleton
    <2> QED BY <1>2, <1>3, <1>5, <2>3, <2>4
<1> QED BY <1>4, <1>5

\* However inserts, drops, detaches and nested retains interleave with the
\* callbacks of a retain, a subscriber that is neither dropped, ended nor
\* removed is stored exactly once.
THEOREM SubscribersKept == RetainSpec => []NoSubscriberLost
<1>1. TypeOK /\ IInv => NoSubscriberLost
    BY InvImpliesNoSubscriberLost
<1> QED BY <1>1, OnePlace, PTL

-----------------------------------------------------------------------------
(* What was dropped is silent.                                              *)

LEMMA StartsStep ==
    ASSUME TypeOK, IInv, [RetainNextStep]_vars, NEW id \in Ids, Starts(id)
    PROVE  active[id] /\ ~dropped[id] /\ id \notin ended
<1>1. /\ stack # <<>> /\ Len(stack') = Len(stack) /\ Head(stack).cur = 0
      /\ Head(stack').cur = id /\ id # 0 /\ ~InProgram
    BY DEF Starts, Ids, InProgram
<1>2. stack' # stack
    BY <1>1
<1>3. ~UNCHANGED vars
    BY <1>2 DEF vars
<1>4. ~Program
    BY <1>1, Zenon DEF Program, Insert, Activate, Drop, Detach, DropJoined
<1>5. \A k \in Keys : ~RetainBegin(k) /\ ~Remove(k)
    BY <1>1, Zenon DEF RetainBegin, Remove
<1>6. \A keep \in BOOLEAN : ~RetainReturn(keep)
    BY <1>1, Zenon DEF RetainReturn
<1>7. ~RetainEnd
    <2> SUFFICES ASSUME RetainEnd PROVE FALSE
        OBVIOUS
    <2>1. stack' = Tail(stack)
        BY DEF RetainEnd
    <2> QED BY <1>1, <2>1 DEF TypeOK
<1>8. RetainNext
    BY <1>3, <1>4, <1>5, <1>6, <1>7, Zenon DEF RetainNextStep
<1>9. PICK j \in Ids :
          /\ j \in stack[1].todo
          /\ \E g \in Frames :
                /\ stack' = [stack EXCEPT ![1] = g]
                /\ g.cur = 0 \/ (g.cur = j /\ Calls(j))
    BY <1>8, NextFrame, Zenon
<1>10. 1 \in 1..Len(stack) /\ Head(stack') = stack'[1]
    <2>1. \E g \in Frames : stack' = [stack EXCEPT ![1] = g]
        BY <1>9
    <2> QED BY <1>1, <2>1 DEF TypeOK
<1>11. id = j /\ Calls(j)
    BY <1>1, <1>9, <1>10 DEF TypeOK
<1>12. j \notin ended
    BY <1>9, <1>10 DEF IInv, FramesInv, Held
<1> QED BY <1>11, <1>12 DEF Calls

\* A retain never starts the callback of a subscription that was dropped, that
\* is inert or that asked to be removed, whatever the callbacks before it did.
THEOREM DroppedIsSilent == RetainSpec => SilentAfterDrop
<1>1. TypeOK /\ IInv /\ [RetainNextStep]_vars =>
          [\A id \in Ids : Starts(id) => active[id] /\ ~dropped[id] /\ id \notin ended]_vars
    BY StartsStep, Zenon
<1> QED BY <1>1, OnePlace, PTL DEF RetainSpec, SilentAfterDrop

=============================================================================
