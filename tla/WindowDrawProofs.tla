-------------------------- MODULE WindowDrawProofs --------------------------
(***************************************************************************)
(* Proofs about WindowDraw for any tree of views and any number of calls.  *)
(***************************************************************************)
EXTENDS WindowDraw, SequenceTheorems, TLAPS

\* What the next frame will show as focused while it is built, if the handle has
\* a reference then.
NextFocusInv ==
    phase = "prepaint" /\ focus \in refs =>
        next_focus = IF focus \in next THEN focus ELSE None

\* The frame on the screen shows f as focused, if f has a reference.
Shows(f) == f \in refs => frame_focus = IF f \in rendered THEN f ELSE None

\* What the listeners were told is what the frame shows.
ToldInv == told = IF frame_active THEN frame_focus ELSE None

\* The frame on the screen is up to date: after the swap until a listener moves
\* the focus, and then as long as the window is clean.
ShownInv ==
    /\ phase \in {"lost", "focus", "done"} =>
         /\ frame_active = active
         /\ ~lost_moved => Shows(focus_before)
    /\ phase \in {"lost", "done"} /\ ~lost_moved => focus = focus_before
    /\ phase = "done" => focus = focus_before
    /\ not_drawing /\ ~dirty => frame_active = active /\ (~lost_moved => Shows(focus))

FocusInv == FocusIsKnown /\ ToldInv /\ NextFocusInv /\ ShownInv

\* While a frame is built, a view with a notification is in dirty_views for the
\* next one, or not yet in this one and, with those around it, marked.
HeardInv ==
    /\ phase = "prepaint" => \A v \in heard :
         \/ v \in dirty_views
         \/ v \notin next /\ mark_view_dirty(v) \subseteq marked
    /\ phase # "prepaint" => heard \intersect rendered \subseteq dirty_views

\* A view of whose notification the window was told before a draw is not in the
\* next frame unless it was rendered for it.
DueInv ==
    /\ due \subseteq heard
    /\ phase = "prepaint" => \A v \in due :
         v \notin next /\ mark_view_dirty(v) \subseteq marked
    /\ NextDrawRenders

-----------------------------------------------------------------------------
(* Types.                                                                   *)

OpenView == [view: Entities, start: SUBSET Entities, todo: SUBSET Views]

\* The innermost view that is open, and the others.
LEMMA OpenTop ==
    ASSUME TypeOK, open # <<>>
    PROVE  /\ Top \in OpenView /\ Below \in Seq(OpenView)
           /\ Top.view \in Entities /\ Top.start \subseteq Entities /\ Top.todo \subseteq Views
<1>1. open \in Seq(OpenView) /\ Len(open) \in Nat /\ Len(open) > 0
    BY LenProperties, EmptySeq DEF TypeOK, OpenView
<1>2. Top \in OpenView
    BY <1>1, ElementOfSeq DEF Top
<1>3. Below \in Seq(OpenView)
  <2>1. 1 \in Int /\ Len(open) - 1 \in Int /\ \A i \in 1..Len(open) - 1 : open[i] \in OpenView
      BY <1>1, ElementOfSeq
  <2>2. QED
      BY <2>1, SubSeqProperties DEF Below
<1>4. QED
    BY <1>2, <1>3 DEF OpenView

\* A child of the innermost view was visited.
LEMMA ChildVisited ==
    ASSUME TypeOK, NEW c, Visiting(c)
    PROVE  c \in Views /\ WithoutChild(c) \in Seq(OpenView)
<1>1. /\ Top \in OpenView /\ Below \in Seq(OpenView) /\ c \in Top.todo
      /\ Top.todo \subseteq Views
    BY OpenTop DEF Visiting
<1>2. [Top EXCEPT !.todo = @ \ {c}] \in OpenView
    BY <1>1 DEF OpenView
<1>3. QED
    BY <1>1, <1>2, AppendProperties DEF WithoutChild

\* A view that is rendered keeps the types.
LEMMA RenderTyped ==
    ASSUME TypeOK, NEW v \in Entities, NEW reads \in SUBSET Entities, NEW shown \in SUBSET Views,
           NEW below \in Seq(OpenView), Render(v, reads, shown, below)
    PROVE  TypeOK'
<1>1. [view |-> v, start |-> accessed, todo |-> shown] \in OpenView
    BY DEF TypeOK, OpenView
<1>2. open' \in Seq(OpenView)
    BY <1>1, AppendProperties DEF Render
<1>3. UNCHANGED <<dirty, refreshing, active, frame_active, lost_moved>>
    BY DEF Render, invalidator, focusing
<1>4. QED
    BY <1>2, <1>3 DEF TypeOK, Render, OpenView, invalidator, handleMap, focusing

\* Calls of user code keep the types.
LEMMA UserCallTyped == TypeOK /\ (UserCall \/ ReleaseFocusHandles) => TypeOK'
<1> SUFFICES ASSUME TypeOK, UserCall \/ ReleaseFocusHandles PROVE TypeOK'
    OBVIOUS
<1>1. Call => ops' \in 0..MaxOps
    BY MaxOpsAssumption DEF Call, TypeOK
<1>2. refresh => dirty' \in BOOLEAN /\ refreshing' \in BOOLEAN
    BY Zenon DEF refresh, TypeOK
<1>3. ASSUME NEW f \in Entities \union {None}, SetFocus(f)
      PROVE  /\ UNCHANGED <<handles, refs>> /\ ops' \in 0..MaxOps => TypeOK'
             /\ UNCHANGED refs /\ handles' = refs /\ ops' \in 0..MaxOps => TypeOK'
  <2>1. dirty' \in BOOLEAN /\ refreshing' \in BOOLEAN /\ lost_moved' \in BOOLEAN
      BY <1>2, <1>3, Zenon DEF SetFocus, TypeOK
  <2>2. QED
      BY <1>3, <2>1 DEF SetFocus, TypeOK, frames, notices
<1>4. ASSUME NEW e \in Entities, Notify(e) PROVE TypeOK'
  <2>1. /\ dirty' \in BOOLEAN /\ dirty_views' \subseteq Entities
        /\ heard' \subseteq Entities /\ due' \subseteq Entities
    <3>1. CASE e \in tracked
      <4>1. dirty' \in BOOLEAN
          BY <1>4, <3>1, Zenon DEF Notify, invalidate_view
      <4>2. QED
          BY <1>4, <3>1, <4>1 DEF Notify, invalidate_view, TypeOK
    <3>2. CASE e \notin tracked
        BY <1>4, <3>2 DEF Notify, invalidator, TypeOK
    <3>3. QED
        BY <3>1, <3>2
  <2>2. ops' \in 0..MaxOps /\ owed' \subseteq Entities /\ accessed' \subseteq Entities
      BY <1>1, <1>4 DEF Notify, TypeOK
  <2>3. QED
      BY <1>4, <2>1, <2>2 DEF Notify, TypeOK, frames, handleMap, focusing
<1>5. ASSUME Refresh PROVE TypeOK'
    BY <1>1, <1>2, <1>5 DEF Refresh, TypeOK, frames, handleMap, focusing, notices
<1>6. ASSUME NEW f \in Entities, Focus(f) PROVE TypeOK'
    BY <1>1, <1>3, <1>6 DEF Focus, handleMap
<1>7. ASSUME Blur PROVE TypeOK'
    BY <1>1, <1>3, <1>7 DEF Blur, handleMap
<1>8. ASSUME NEW f \in Entities, DropFocusHandle(f) PROVE TypeOK'
    BY <1>1, <1>8 DEF DropFocusHandle, TypeOK, invalidator, frames, focusing, notices
<1>9. ASSUME ActiveStatusChange PROVE TypeOK'
  <2>1. active' \in BOOLEAN
      BY <1>9, Zenon DEF ActiveStatusChange
  <2>2. QED
      BY <1>1, <1>2, <1>9, <2>1 DEF ActiveStatusChange, TypeOK, frames, handleMap, focusing, notices
<1>10. ASSUME ReleaseFocusHandles PROVE TypeOK'
  <2>1. CASE focus \in handles \ refs
    <3>1. SetFocus(None) /\ UNCHANGED refs /\ handles' = refs /\ ops' \in 0..MaxOps
        BY <1>10, <2>1 DEF ReleaseFocusHandles, TypeOK
    <3>2. QED
        BY <1>3, <3>1
  <2>2. CASE ~(focus \in handles \ refs)
      BY <1>10, <2>2 DEF ReleaseFocusHandles, TypeOK, invalidator, frames, focusing, notices
  <2>3. QED
      BY <2>1, <2>2
<1>11. QED
    BY <1>4, <1>5, <1>6, <1>7, <1>8, <1>9, <1>10 DEF UserCall

\* The steps of a draw keep the types.
LEMMA DrawTyped == TypeOK /\ (Draw \/ ForceRender \/ DrawStep) => TypeOK'
<1> SUFFICES ASSUME TypeOK, Draw \/ ForceRender \/ DrawStep PROVE TypeOK'
    OBVIOUS
<1>1. ASSUME NEW force \in BOOLEAN, BeginDraw(force), ops' \in 0..MaxOps PROVE TypeOK'
  <2>1. dirty' \in BOOLEAN /\ refreshing' \in BOOLEAN
      BY <1>1, Zenon DEF BeginDraw, TypeOK
  <2>2. marked' \subseteq Entities
    <3>1. \A e \in Entities : mark_view_dirty(e) \subseteq Entities
        BY TreeAssumption DEF mark_view_dirty, Entities
    <3>2. QED
        BY <1>1, <3>1 DEF BeginDraw, TypeOK
  <2>3. QED
      BY <1>1, <2>1, <2>2 DEF BeginDraw, TypeOK, handleMap, focusing, notices
<1>2. ASSUME NEW reads \in SUBSET Entities, NEW shown \in SUBSET Children(Root),
             RenderRoot(reads, shown)
      PROVE  TypeOK'
  <2>1. Root \in Entities /\ shown \in SUBSET Views /\ <<>> \in Seq(OpenView)
      BY DEF Entities, Children
  <2>2. QED
      BY <1>2, <2>1, RenderTyped DEF RenderRoot
<1>3. ASSUME NEW c \in Views, NEW reads \in SUBSET Entities, NEW shown \in SUBSET Children(c),
             NEW b \in BOOLEAN, RenderCached(c, reads, shown, b)
      PROVE  TypeOK'
  <2>1. c \in Entities /\ shown \in SUBSET Views /\ WithoutChild(c) \in Seq(OpenView)
      BY <1>3, ChildVisited DEF RenderCached, Entities, Children
  <2>2. QED
      BY <1>3, <2>1, RenderTyped DEF RenderCached
<1>4. ASSUME NEW c \in Views, Reuse(c) PROVE TypeOK'
  <2>1. open' \in Seq(OpenView)
      BY <1>4, ChildVisited DEF Reuse
  <2>2. cache[c] \subseteq Entities
      BY <1>4 DEF Reuse, Reusable, TypeOK, NoState
  <2>3. Reused(c) \subseteq Entities
      BY DEF Reused, TypeOK
  <2>4. next_cache' \in [Views -> (SUBSET Entities) \union {NoState}]
      BY <1>4 DEF Reuse, TypeOK
  <2>5. /\ accessed' \subseteq Entities /\ next' \subseteq Entities
        /\ next_focus' \in Entities \union {None}
      BY <1>4, <2>2, <2>3 DEF Reuse, TypeOK
  <2>6. UNCHANGED <<dirty, refreshing, active, frame_active, lost_moved>>
      BY <1>4 DEF Reuse, invalidator, focusing
  <2>7. QED
      BY <1>4, <2>1, <2>4, <2>5, <2>6
         DEF Reuse, TypeOK, OpenView, invalidator, handleMap, focusing, notices
<1>5. ASSUME EndView PROVE TypeOK'
  <2>1. Below \in Seq(OpenView) /\ Top.view \in Entities
      BY <1>5, OpenTop DEF EndView
  <2>2. next_cache' \in [Views -> (SUBSET Entities) \union {NoState}]
      BY <1>5, <2>1 DEF EndView, TypeOK, Entities
  <2>3. UNCHANGED <<dirty, refreshing, active, frame_active, lost_moved>>
      BY <1>5 DEF EndView, invalidator, focusing
  <2>4. QED
      BY <1>5, <2>1, <2>2, <2>3
         DEF EndView, TypeOK, OpenView, invalidator, handleMap, focusing, notices
<1>6. ASSUME SwapFrames PROVE TypeOK'
  <2>1. lost_moved' \in BOOLEAN /\ UNCHANGED <<dirty, refreshing, active>> /\ frame_active' = active
      BY <1>6, Zenon DEF SwapFrames, invalidator
  <2>2. phase' \in {"none", "prepaint", "lost", "focus", "done"}
      BY <1>6 DEF SwapFrames
  <2>3. told' \in Entities \union {None}
      BY <1>6 DEF SwapFrames, TypeOK
  <2>4. QED
      BY <1>6, <2>1, <2>2, <2>3 DEF SwapFrames, TypeOK, invalidator, handleMap, notices
<1>7. ASSUME FocusLostDone PROVE TypeOK'
    BY <1>7 DEF FocusLostDone, TypeOK, invalidator, frames, handleMap, notices
<1>8. ASSUME EndDraw PROVE TypeOK'
  <2>1. dirty' \in BOOLEAN /\ refreshing' \in BOOLEAN
      BY <1>8, Zenon DEF EndDraw
  <2>2. QED
      BY <1>8, <2>1 DEF EndDraw, TypeOK, frames, handleMap, focusing, notices
<1>9. QED
  <2>1. Draw => BeginDraw(FALSE) /\ ops' \in 0..MaxOps
      BY DEF Draw, TypeOK
  <2>2. ForceRender => BeginDraw(TRUE) /\ ops < MaxOps /\ ops' = ops + 1
      BY Zenon DEF ForceRender
  <2>3. ops < MaxOps /\ ops' = ops + 1 => ops' \in 0..MaxOps
      BY MaxOpsAssumption DEF TypeOK
  <2>4. (BeginDraw(FALSE) \/ BeginDraw(TRUE)) /\ ops' \in 0..MaxOps => TypeOK'
      BY <1>1
  <2>5. Draw \/ ForceRender => TypeOK'
      BY <2>1, <2>2, <2>3, <2>4
  <2>6. QED
      BY <1>2, <1>3, <1>4, <1>5, <1>6, <1>7, <1>8, <2>5 DEF DrawStep

\* The state of a window keeps its types: the element states are of cached views,
\* and what an open view still has to show is among its children.
THEOREM TypeCorrect == Spec => []TypeOK
<1>1. Init => TypeOK
  <2>1. Init => /\ dirty \in BOOLEAN /\ refreshing \in BOOLEAN /\ active \in BOOLEAN
                /\ frame_active \in BOOLEAN /\ lost_moved \in BOOLEAN
      BY Zenon DEF Init
  <2>2. QED
      BY <2>1, MaxOpsAssumption DEF Init, TypeOK
<1>2. TypeOK /\ [Next]_vars => TypeOK'
  <2>1. TypeOK /\ UNCHANGED vars => TypeOK'
      BY DEF TypeOK, vars, invalidator, frames, handleMap, focusing, notices
  <2>2. QED
      BY <2>1, UserCallTyped, DrawTyped DEF Next
<1>3. QED
    BY <1>1, <1>2, PTL DEF Spec

-----------------------------------------------------------------------------
(* Notifications.                                                           *)

\* The views that are reused are around no view that is marked.
LEMMA ReusedUnmarked ==
    ASSUME NEW c, Reuse(c), NEW v \in Reused(c)
    PROVE  ~(mark_view_dirty(v) \subseteq marked)
<1>1. v \in rendered /\ v # Root /\ (v = c \/ c \in Ancestors[v]) /\ c \notin marked
    BY DEF Reused, Reuse, Reusable
<1>2. QED
    BY <1>1 DEF mark_view_dirty

\* A step keeps the notified views.
LEMMA HeardStep == TypeOK /\ HeardInv /\ [Next]_vars => HeardInv'
<1> SUFFICES ASSUME TypeOK, HeardInv, [Next]_vars PROVE HeardInv'
    OBVIOUS
<1>1. ASSUME UNCHANGED <<phase, heard, dirty_views, rendered, next, marked>> PROVE HeardInv'
    BY <1>1 DEF HeardInv, mark_view_dirty
<1>2. ASSUME NEW f, SetFocus(f) PROVE HeardInv'
    BY <1>1, <1>2 DEF SetFocus, frames, notices
<1>3. ASSUME NEW e \in Entities, Notify(e) PROVE HeardInv'
  <2>1. CASE e \in tracked
    <3>1. /\ heard' = heard \union {e} /\ dirty_views' = dirty_views \union {e}
          /\ UNCHANGED <<phase, rendered, next, marked>>
        BY <1>3, <2>1 DEF Notify, invalidate_view, frames
    <3>2. QED
        BY <3>1 DEF HeardInv, mark_view_dirty
  <2>2. CASE e \notin tracked
      BY <1>1, <1>3, <2>2 DEF Notify, invalidator, frames
  <2>3. QED
      BY <2>1, <2>2
<1>4. CASE UserCall \/ ReleaseFocusHandles \/ UNCHANGED vars
  <2>1. CASE Refresh \/ ActiveStatusChange \/ UNCHANGED vars
      BY <1>1, <2>1
         DEF Refresh, ActiveStatusChange, vars, frames, notices, invalidator
  <2>2. CASE \E f \in Entities : DropFocusHandle(f)
      BY <1>1, <2>2 DEF DropFocusHandle, frames, notices, invalidator
  <2>3. CASE ReleaseFocusHandles
      BY <1>1, <1>2, <2>3 DEF ReleaseFocusHandles, frames, notices, invalidator
  <2>4. QED
      BY <1>2, <1>3, <1>4, <2>1, <2>2, <2>3 DEF UserCall, Focus, Blur
<1>5. ASSUME NEW force, BeginDraw(force) PROVE HeardInv'
  <2>1. /\ phase = "none" /\ phase' = "prepaint" /\ next' = {} /\ UNCHANGED <<rendered, heard>>
        /\ marked' = UNION {mark_view_dirty(e) : e \in dirty_views}
      BY <1>5 DEF BeginDraw, not_drawing, notices
  <2>2. ASSUME NEW v \in heard PROVE mark_view_dirty(v) \subseteq marked'
    <3>1. CASE v \in rendered
        BY <2>1, <2>2, <3>1 DEF HeardInv
    <3>2. CASE v \notin rendered
        BY <3>2 DEF mark_view_dirty
    <3>3. QED
        BY <3>1, <3>2
  <2>3. \A v : mark_view_dirty(v)' = mark_view_dirty(v)
      BY <2>1 DEF mark_view_dirty
  <2>4. QED
      BY <2>1, <2>2, <2>3 DEF HeardInv
<1>6. ASSUME NEW v, NEW reads, NEW shown, NEW below, phase = "prepaint", Render(v, reads, shown, below)
      PROVE  HeardInv'
  <2>1. /\ phase' = "prepaint" /\ next' = next \union {v} /\ heard' = heard \ {v}
        /\ UNCHANGED <<dirty_views, rendered, marked>>
      BY <1>6 DEF Render, invalidator
  <2>2. QED
      BY <1>6, <2>1 DEF HeardInv, mark_view_dirty
<1>7. ASSUME NEW c \in Views, Reuse(c) PROVE HeardInv'
  <2>1. /\ phase = "prepaint" /\ phase' = "prepaint" /\ next' = next \union Reused(c)
        /\ UNCHANGED <<heard, dirty_views, rendered, marked>>
      BY <1>7 DEF Reuse, Visiting, invalidator, notices
  <2>2. \A v \in Reused(c) : ~(mark_view_dirty(v) \subseteq marked)
      BY <1>7, ReusedUnmarked
  <2>3. \A v : mark_view_dirty(v)' = mark_view_dirty(v)
      BY <2>1 DEF mark_view_dirty
  <2>4. QED
      BY <2>1, <2>2, <2>3 DEF HeardInv
<1>8. ASSUME EndView PROVE HeardInv'
    BY <1>1, <1>8 DEF EndView, invalidator, notices
<1>9. ASSUME SwapFrames PROVE HeardInv'
  <2>1. /\ phase = "prepaint" /\ phase' # "prepaint" /\ rendered' = next
        /\ UNCHANGED <<heard, dirty_views>>
      BY <1>9 DEF SwapFrames, invalidator, notices
  <2>2. QED
      BY <2>1 DEF HeardInv
<1>10. ASSUME FocusLostDone \/ EndDraw PROVE HeardInv'
  <2>1. /\ phase # "prepaint" /\ phase' # "prepaint"
        /\ UNCHANGED <<heard, dirty_views, rendered>>
      BY <1>10 DEF FocusLostDone, EndDraw, invalidator, frames, notices
  <2>2. QED
      BY <2>1 DEF HeardInv
<1>11. CASE DrawStep
    BY <1>6, <1>7, <1>8, <1>9, <1>10, <1>11 DEF DrawStep, RenderRoot, RenderCached, Visiting
<1>12. QED
    BY <1>4, <1>5, <1>11 DEF Next, Draw, ForceRender

\* A notification that the window was told of, also while views are rendered and
\* reused, leads to a new rendering of a view on the screen: until then it is in
\* dirty_views, for every tree of cached views.
THEOREM InvalidationsKept == Spec => []NoInvalidationLost
<1>1. Init => HeardInv
    BY DEF Init, HeardInv
<1>2. HeardInv => NoInvalidationLost
    BY DEF HeardInv, NoInvalidationLost, not_drawing
<1>3. QED
    BY <1>1, <1>2, HeardStep, TypeCorrect, PTL DEF Spec

\* A step keeps the views that are due apart from the next frame.
LEMMA DueStep == TypeOK /\ HeardInv /\ DueInv /\ [Next]_vars => DueInv'
<1> SUFFICES ASSUME TypeOK, HeardInv, DueInv, [Next]_vars PROVE DueInv'
    OBVIOUS
<1>1. ASSUME UNCHANGED <<phase, heard, due, rendered, next, marked>>, dirty => dirty'
      PROVE  DueInv'
    BY <1>1 DEF DueInv, NextDrawRenders, mark_view_dirty, not_drawing
<1>2. refresh => (dirty => dirty')
    BY DEF refresh
<1>3. ASSUME NEW f, SetFocus(f) PROVE DueInv'
    BY <1>1, <1>2, <1>3 DEF SetFocus, frames, notices
<1>4. ASSUME NEW e \in Entities, Notify(e) PROVE DueInv'
  <2>1. CASE e \in tracked
    <3>1. /\ heard' = heard \union {e} /\ UNCHANGED <<phase, rendered, next, marked>>
          /\ dirty' = (dirty \/ not_drawing)
          /\ due' = IF not_drawing THEN due \union {e} ELSE due
        BY <1>4, <2>1 DEF Notify, invalidate_view, frames
    <3>2. CASE not_drawing
      <4>1. dirty' /\ due' = due \union {e} /\ phase' = "none"
          BY <3>1, <3>2 DEF not_drawing
      <4>2. QED
          BY <3>1, <4>1 DEF DueInv, NextDrawRenders, not_drawing
    <3>3. CASE ~not_drawing
      <4>1. due' = due /\ dirty' = dirty
          BY <3>1, <3>3, Zenon DEF TypeOK
      <4>2. QED
          BY <3>1, <3>3, <4>1 DEF DueInv, NextDrawRenders, mark_view_dirty, not_drawing
    <3>4. QED
        BY <3>2, <3>3
  <2>2. CASE e \notin tracked
      BY <1>1, <1>4, <2>2 DEF Notify, invalidator, frames
  <2>3. QED
      BY <2>1, <2>2
<1>5. CASE UserCall \/ ReleaseFocusHandles \/ UNCHANGED vars
  <2>1. CASE Refresh \/ ActiveStatusChange \/ UNCHANGED vars
      BY <1>1, <1>2, <2>1
         DEF Refresh, ActiveStatusChange, vars, frames, notices, invalidator
  <2>2. CASE \E f \in Entities : DropFocusHandle(f)
      BY <1>1, <2>2 DEF DropFocusHandle, frames, notices, invalidator
  <2>3. CASE ReleaseFocusHandles
      BY <1>1, <1>3, <2>3 DEF ReleaseFocusHandles, frames, notices, invalidator
  <2>4. QED
      BY <1>3, <1>4, <1>5, <2>1, <2>2, <2>3 DEF UserCall, Focus, Blur
<1>6. ASSUME NEW force, BeginDraw(force) PROVE DueInv'
  <2>1. /\ phase = "none" /\ phase' = "prepaint" /\ next' = {}
        /\ UNCHANGED <<rendered, heard, due>>
        /\ marked' = UNION {mark_view_dirty(e) : e \in dirty_views}
      BY <1>6 DEF BeginDraw, not_drawing, notices
  <2>2. ASSUME NEW v \in due PROVE mark_view_dirty(v) \subseteq marked'
    <3>1. CASE v \in rendered
        BY <2>1, <2>2, <3>1 DEF HeardInv, DueInv
    <3>2. CASE v \notin rendered
        BY <3>2 DEF mark_view_dirty
    <3>3. QED
        BY <3>1, <3>2
  <2>3. \A v : mark_view_dirty(v)' = mark_view_dirty(v)
      BY <2>1 DEF mark_view_dirty
  <2>4. QED
      BY <2>1, <2>2, <2>3 DEF DueInv, NextDrawRenders, not_drawing
<1>7. ASSUME NEW v, NEW reads, NEW shown, NEW below, phase = "prepaint", Render(v, reads, shown, below)
      PROVE  DueInv'
  <2>1. /\ phase' = "prepaint" /\ next' = next \union {v} /\ heard' = heard \ {v}
        /\ due' = due \ {v} /\ UNCHANGED <<rendered, marked>>
      BY <1>7 DEF Render, invalidator
  <2>2. QED
      BY <1>7, <2>1 DEF DueInv, NextDrawRenders, mark_view_dirty, not_drawing
<1>8. ASSUME NEW c \in Views, Reuse(c) PROVE DueInv'
  <2>1. /\ phase = "prepaint" /\ phase' = "prepaint" /\ next' = next \union Reused(c)
        /\ UNCHANGED <<heard, due, rendered, marked>>
      BY <1>8 DEF Reuse, Visiting, invalidator, notices
  <2>2. \A v \in Reused(c) : ~(mark_view_dirty(v) \subseteq marked)
      BY <1>8, ReusedUnmarked
  <2>3. \A v : mark_view_dirty(v)' = mark_view_dirty(v)
      BY <2>1 DEF mark_view_dirty
  <2>4. QED
      BY <2>1, <2>2, <2>3 DEF DueInv, NextDrawRenders, not_drawing
<1>9. ASSUME EndView PROVE DueInv'
    BY <1>1, <1>9 DEF EndView, invalidator, notices
<1>10. ASSUME SwapFrames PROVE DueInv'
  <2>1. /\ phase = "prepaint" /\ phase' \in {"lost", "focus", "done"} /\ rendered' = next
        /\ UNCHANGED <<heard, due>>
      BY <1>10 DEF SwapFrames, invalidator, notices
  <2>2. due' \intersect rendered' = {}
      BY <2>1 DEF DueInv
  <2>3. QED
      BY <2>1, <2>2 DEF DueInv, NextDrawRenders, not_drawing
<1>11. ASSUME FocusLostDone \/ EndDraw PROVE DueInv'
  <2>1. /\ phase \in {"lost", "focus", "done"} /\ phase' # "prepaint"
        /\ UNCHANGED <<heard, due, rendered>>
      BY <1>11 DEF FocusLostDone, EndDraw, invalidator, frames, notices
  <2>2. QED
      BY <2>1 DEF DueInv, NextDrawRenders, not_drawing
<1>12. CASE DrawStep
    BY <1>7, <1>8, <1>9, <1>10, <1>11, <1>12 DEF DrawStep, RenderRoot, RenderCached, Visiting
<1>13. QED
    BY <1>5, <1>6, <1>12 DEF Next, Draw, ForceRender

\* One draw is enough: whatever was read, shown, reused and notified before, a
\* view of whose notification the window was told outside of a draw is rendered
\* in the next draw that shows it, and a clean window shows no such view.
THEOREM NextDrawSuffices == Spec => []NextDrawRenders
<1>1. Init => HeardInv /\ DueInv
    BY DEF Init, HeardInv, DueInv, NextDrawRenders, not_drawing
<1>2. DueInv => NextDrawRenders
    BY DEF DueInv
<1>3. QED
    BY <1>1, <1>2, HeardStep, DueStep, TypeCorrect, PTL DEF Spec

-----------------------------------------------------------------------------
(* Focus.                                                                   *)

\* Calls of user code keep the focus known and the listeners informed.
LEMMA FocusCalls == TypeOK /\ FocusInv /\ (UserCall \/ ReleaseFocusHandles) => FocusInv'
<1> SUFFICES ASSUME TypeOK, FocusInv, UserCall \/ ReleaseFocusHandles PROVE FocusInv'
    OBVIOUS
<1> USE DEF FocusInv
<1>1. ASSUME NEW f \in Entities \union {None}, MayFocus, SetFocus(f), f # None => f \in handles',
             refs' = refs
      PROVE  FocusInv'
  <2>1. /\ focus' = f
        /\ UNCHANGED <<told, phase, active, frame_active, frame_focus, focus_before, rendered>>
        /\ lost_moved' = (lost_moved \/ phase = "lost")
        /\ not_drawing => dirty' = TRUE
      BY <1>1 DEF SetFocus, refresh, frames
  <2>2. FocusIsKnown' /\ ToldInv'
      BY <1>1, <2>1 DEF FocusIsKnown, ToldInv
  <2>3. NextFocusInv'
      BY <1>1, <2>1 DEF NextFocusInv, MayFocus
  <2>4. ShownInv'
      BY <1>1, <2>1 DEF ShownInv, MayFocus, Shows, not_drawing
  <2>5. QED
      BY <2>2, <2>3, <2>4
<1>2. ASSUME UNCHANGED <<told, phase, active, frame_active, frame_focus, focus_before, rendered,
                         focus, next, next_focus, lost_moved>>,
             refs' \subseteq refs, focus # None => focus \in handles', dirty' \/ dirty' = dirty
      PROVE  FocusInv'
    BY <1>2 DEF FocusIsKnown, ToldInv, NextFocusInv, ShownInv, Shows, not_drawing
<1>3. ASSUME NEW e \in Entities, Notify(e) PROVE FocusInv'
  <2>1. dirty' \/ dirty' = dirty
    <3>1. CASE e \in tracked
      <4>1. dirty' = (dirty \/ not_drawing) /\ dirty \in BOOLEAN
          BY <1>3, <3>1 DEF Notify, invalidate_view, TypeOK
      <4>2. QED
          BY <4>1, Zenon
    <3>2. CASE e \notin tracked
        BY <1>3, <3>2 DEF Notify, invalidator
    <3>3. QED
        BY <3>1, <3>2
  <2>2. QED
      BY <1>2, <1>3, <2>1 DEF Notify, frames, handleMap, focusing, FocusIsKnown
<1>4. ASSUME Refresh PROVE FocusInv'
    BY <1>2, <1>4 DEF Refresh, refresh, frames, handleMap, focusing, FocusIsKnown
<1>5. ASSUME NEW f \in Entities, Focus(f) PROVE FocusInv'
    BY <1>1, <1>5 DEF Focus, handleMap, TypeOK
<1>6. ASSUME Blur PROVE FocusInv'
    BY <1>1, <1>6 DEF Blur, handleMap
<1>7. ASSUME NEW f \in Entities, DropFocusHandle(f) PROVE FocusInv'
    BY <1>2, <1>7 DEF DropFocusHandle, invalidator, frames, focusing, FocusIsKnown
<1>8. ASSUME ActiveStatusChange PROVE FocusInv'
  <2>1. /\ not_drawing /\ dirty' = TRUE
        /\ UNCHANGED <<told, phase, frame_active, frame_focus, focus_before, rendered, focus,
                       lost_moved, handles>>
      BY <1>8 DEF ActiveStatusChange, refresh, frames, handleMap, focusing
  <2>2. QED
      BY <2>1 DEF FocusIsKnown, ToldInv, NextFocusInv, ShownInv, not_drawing
<1>9. ASSUME ReleaseFocusHandles PROVE FocusInv'
  <2>1. not_drawing /\ handles' = refs /\ refs' = refs
      BY <1>9 DEF ReleaseFocusHandles
  <2>2. CASE focus \in handles \ refs
    <3>1. SetFocus(None) /\ MayFocus
        BY <1>9, <2>1, <2>2 DEF ReleaseFocusHandles, MayFocus, not_drawing
    <3>2. QED
        BY <1>1, <2>1, <3>1
  <2>3. CASE ~(focus \in handles \ refs)
    <3>1. focus # None => focus \in refs
        BY <2>3 DEF FocusIsKnown
    <3>2. QED
        BY <1>2, <1>9, <2>1, <2>3, <3>1 DEF ReleaseFocusHandles, invalidator, frames, focusing
  <2>4. QED
      BY <2>2, <2>3
<1>10. QED
    BY <1>3, <1>4, <1>5, <1>6, <1>7, <1>8, <1>9 DEF UserCall

\* The steps of a draw do so as well.
LEMMA FocusDraws == TypeOK /\ FocusInv /\ (Draw \/ ForceRender \/ DrawStep) => FocusInv'
<1> SUFFICES ASSUME TypeOK, FocusInv, Draw \/ ForceRender \/ DrawStep PROVE FocusInv'
    OBVIOUS
<1> USE DEF FocusInv
<1>1. ASSUME NEW force, BeginDraw(force) PROVE FocusInv'
  <2>1. /\ phase' = "prepaint" /\ next' = {} /\ next_focus' = None
        /\ UNCHANGED <<told, frame_active, frame_focus, focus, handles>>
      BY <1>1 DEF BeginDraw, handleMap, focusing
  <2>2. QED
      BY <2>1 DEF FocusIsKnown, ToldInv, NextFocusInv, ShownInv, not_drawing
<1>2. ASSUME NEW v, NEW reads, NEW shown, NEW below, phase = "prepaint", Render(v, reads, shown, below)
      PROVE  FocusInv'
  <2>1. /\ phase' = "prepaint" /\ next' = next \union {v}
        /\ next_focus' = IF focus = v /\ v \in refs THEN v ELSE next_focus
        /\ UNCHANGED <<told, frame_active, frame_focus, focus, handles, refs>>
      BY <1>2 DEF Render, handleMap, focusing
  <2>2. NextFocusInv'
      BY <1>2, <2>1 DEF NextFocusInv
  <2>3. QED
      BY <2>1, <2>2 DEF FocusIsKnown, ToldInv, ShownInv, not_drawing
<1>3. ASSUME NEW c \in Views, Reuse(c) PROVE FocusInv'
  <2>1. /\ phase = "prepaint" /\ phase' = "prepaint" /\ next' = next \union Reused(c)
        /\ next_focus' = IF focus \in Reused(c) THEN focus ELSE next_focus
        /\ UNCHANGED <<told, frame_active, frame_focus, focus, handles, refs>>
      BY <1>3 DEF Reuse, Visiting, handleMap, focusing
  <2>2. NextFocusInv'
      BY <2>1 DEF NextFocusInv
  <2>3. QED
      BY <2>1, <2>2 DEF FocusIsKnown, ToldInv, ShownInv, not_drawing
<1>4. ASSUME EndView PROVE FocusInv'
  <2>1. /\ phase = "prepaint"
        /\ UNCHANGED <<phase, next, next_focus, told, frame_active, frame_focus, focus, handles, refs>>
      BY <1>4 DEF EndView, handleMap, focusing
  <2>2. QED
      BY <2>1 DEF FocusIsKnown, ToldInv, NextFocusInv, ShownInv, not_drawing
<1>5. ASSUME SwapFrames PROVE FocusInv'
  <2>1. /\ phase = "prepaint" /\ phase' \in {"lost", "focus", "done"}
        /\ rendered' = next /\ frame_focus' = next_focus /\ frame_active' = active
        /\ focus_before' = focus /\ UNCHANGED <<focus, handles, refs, active>>
      BY <1>5 DEF SwapFrames, handleMap
  <2>2. ToldInv'
    <3>1. CASE ~FocusChanged
        BY <1>5, <2>1, <3>1 DEF SwapFrames, FocusChanged, ToldInv
    <3>2. CASE FocusChanged
        BY <1>5, <2>1, <3>2 DEF SwapFrames, ToldInv
    <3>3. QED
        BY <3>1, <3>2
  <2>3. ShownInv'
      BY <2>1 DEF ShownInv, Shows, NextFocusInv, not_drawing
  <2>4. QED
      BY <2>1, <2>2, <2>3 DEF FocusIsKnown, NextFocusInv
<1>6. ASSUME FocusLostDone PROVE FocusInv'
  <2>1. /\ phase = "lost" /\ phase' = "focus" /\ focus_before' = focus
        /\ UNCHANGED <<told, frame_active, frame_focus, rendered, focus, handles, refs, active, lost_moved>>
      BY <1>6 DEF FocusLostDone, frames, handleMap
  <2>2. ShownInv'
      BY <2>1 DEF ShownInv, Shows, not_drawing
  <2>3. QED
      BY <2>1, <2>2 DEF FocusIsKnown, ToldInv, NextFocusInv
<1>7. ASSUME EndDraw PROVE FocusInv'
  <2>1. /\ phase \in {"focus", "done"} /\ phase' = "none"
        /\ ~dirty' => focus = focus_before
        /\ UNCHANGED <<told, frame_active, frame_focus, rendered, focus, handles, refs, active, lost_moved>>
    <3>1. ~dirty' => focus = focus_before
        BY <1>7, Zenon DEF EndDraw
    <3>2. QED
        BY <1>7, <3>1 DEF EndDraw, frames, handleMap, focusing
  <2>2. ShownInv'
      BY <2>1 DEF ShownInv, Shows, not_drawing
  <2>3. QED
      BY <2>1, <2>2 DEF FocusIsKnown, ToldInv, NextFocusInv
<1>8. QED
    BY <1>1, <1>2, <1>3, <1>4, <1>5, <1>6, <1>7
       DEF Draw, ForceRender, DrawStep, RenderRoot, RenderCached, Visiting

\* Focus, in every behaviour.
LEMMA FocusHolds == Spec => [](TypeOK /\ FocusInv)
<1>1. Init => FocusInv
    BY DEF Init, FocusInv, FocusIsKnown, ToldInv, NextFocusInv, ShownInv, not_drawing
<1>2. TypeOK /\ FocusInv /\ [Next]_vars => FocusInv'
  <2>1. TypeOK /\ FocusInv /\ UNCHANGED vars => FocusInv'
      BY DEF FocusInv, FocusIsKnown, ToldInv, NextFocusInv, ShownInv, Shows, not_drawing, vars,
             invalidator, frames, handleMap, focusing
  <2>2. QED
      BY <2>1, FocusCalls, FocusDraws DEF Next
<1>3. QED
    BY <1>1, <1>2, TypeCorrect, PTL DEF Spec

\* The focused handle can be found in the FocusMap until the flush that releases
\* it has blurred the window.
THEOREM FocusKnown == Spec => []FocusIsKnown
<1>1. FocusInv => FocusIsKnown
    BY DEF FocusInv
<1>2. QED
    BY <1>1, FocusHolds, PTL

\* What the focus listeners were told last is the focus of the frame on the
\* screen, and of a clean window the current focus, unless a focus-lost listener
\* moved it.
THEOREM ListenersInformed == Spec => []ListenersKnowFocus
<1>1. TypeOK /\ FocusInv => ListenersKnowFocus
    BY DEF TypeOK, FocusInv, ToldInv, ShownInv, Shows, ListenersKnowFocus
<1>2. QED
    BY <1>1, FocusHolds, PTL

=============================================================================
