------------------------------ MODULE WindowDraw ----------------------------
(* Drawing one window: WindowInvalidator, Window::draw, focus and blur      *)
(* (crates/gpui/src/window.rs), the caching of ViewElement                  *)
(* (crates/gpui/src/view.rs), App::notify, record_entities_accessed and     *)
(* release_dropped_focus_handles (crates/gpui/src/app.rs).                  *)
(*                                                                          *)
(* The root view is rendered in every draw; the other views are cached      *)
(* elements nested in a tree.  What a view renders is user code: it shows   *)
(* any of its children and reads any entities.  Every view has one focus    *)
(* handle.  Rendering does not move the focus; focus listeners may.  With   *)
(* one window tracked_entities and window_invalidators_by_entity agree, and *)
(* "tracked" stands for both.                                               *)
EXTENDS Naturals, Sequences, FiniteSets

CONSTANTS
    Root,           \* the root view
    Views,          \* the cached views
    Parent,         \* the view in which each cached view is shown
    Ancestors,      \* all views around each cached view
    None,           \* no focus
    MaxOps          \* bound on the calls user code makes

Entities == Views \union {Root}

ASSUME TreeAssumption ==
    /\ Root \notin Views /\ None \notin Entities
    /\ Parent \in [Views -> Entities] /\ Ancestors \in [Views -> SUBSET Entities]
    /\ \A v \in Views :
          Ancestors[v] = {Parent[v]} \union
                         (IF Parent[v] = Root THEN {} ELSE Ancestors[Parent[v]])
ASSUME MaxOpsAssumption == MaxOps \in Nat

VARIABLES
    dirty, dirty_views,     \* WindowInvalidator
    phase,                  \* draw_phase; in "lost", "focus" and "done" it is Focus
    refreshing,             \* Window::refreshing
    marked,                 \* Window::dirty_views
    accessed,               \* EntityMap::accessed_entities
    tracked,                \* entities this window was recorded for
    rendered, cache,        \* rendered_frame: its views, their ViewElementState
    next, next_cache,       \* next_frame
    open,                   \* the views being rendered, outermost first
    focus,                  \* Window::focus
    handles, refs,          \* FocusMap, and the handles with a reference
    active,                 \* the window is active
    frame_focus, next_focus, frame_active,  \* focus and activity in the frames
    focus_before,           \* focus_before_listeners
    owed,                   \* history: entities notified outside of a draw since
                            \* they were rendered
    heard,                  \* history: those of whose notification, at any time,
                            \* this window was told since
    due,                    \* history: those of whose notification outside of a
                            \* draw this window was told since
    told,                   \* history: what the focus listeners were told
    lost_moved,             \* history: a focus-lost listener moved the focus
    ops                     \* calls made by user code

invalidator == <<dirty, dirty_views>>
frames == <<rendered, cache, next, next_cache, next_focus>>
focusing == <<frame_focus, frame_active, focus_before, told, lost_moved>>
handleMap == <<handles, refs>>
notices == <<owed, heard, due>>
vars == <<invalidator, phase, refreshing, marked, accessed, tracked, frames, open,
          focus, handleMap, active, focusing, notices, ops>>

\* accessed_entities of an element state that does not exist.
NoState == {None}

TypeOK ==
    /\ dirty \in BOOLEAN /\ dirty_views \subseteq Entities
    /\ phase \in {"none", "prepaint", "lost", "focus", "done"}
    /\ refreshing \in BOOLEAN
    /\ marked \subseteq Entities /\ accessed \subseteq Entities
    /\ tracked \subseteq Entities
    /\ rendered \subseteq Entities /\ next \subseteq Entities
    /\ cache \in [Views -> (SUBSET Entities) \union {NoState}]
    /\ next_cache \in [Views -> (SUBSET Entities) \union {NoState}]
    /\ open \in Seq([view: Entities, start: SUBSET Entities, todo: SUBSET Views])
    /\ focus \in Entities \union {None}
    /\ refs \subseteq handles /\ handles \subseteq Entities
    /\ active \in BOOLEAN /\ frame_active \in BOOLEAN
    /\ frame_focus \in Entities \union {None}
    /\ next_focus \in Entities \union {None}
    /\ focus_before \in Entities \union {None}
    /\ owed \subseteq Entities /\ heard \subseteq Entities /\ due \subseteq Entities
    /\ told \in Entities \union {None} /\ lost_moved \in BOOLEAN
    /\ ops \in 0..MaxOps

Init ==
    /\ dirty = TRUE /\ dirty_views = {} /\ phase = "none" /\ refreshing = FALSE
    /\ marked = {} /\ accessed = {} /\ tracked = {}
    /\ rendered = {} /\ cache = [v \in Views |-> NoState]
    /\ next = {} /\ next_cache = [v \in Views |-> NoState] /\ open = <<>>
    /\ focus = None /\ handles = Entities /\ refs = Entities
    /\ active = TRUE /\ frame_active = FALSE
    /\ frame_focus = None /\ next_focus = None /\ focus_before = None
    /\ owed = {} /\ heard = {} /\ due = {}
    /\ told = None /\ lost_moved = FALSE /\ ops = 0

-----------------------------------------------------------------------------
(* Calls made by user code: event handlers, the render functions, the focus *)
(* listeners.                                                               *)

Call == ops < MaxOps /\ ops' = ops + 1

not_drawing == phase = "none"

\* Mutant: the view is noted, the window is not made dirty.
invalidate_view_NotDirty(e) == dirty_views' = dirty_views \union {e} /\ UNCHANGED dirty

\* WindowInvalidator::invalidate_view.
invalidate_view(e) ==
    /\ dirty_views' = dirty_views \union {e}
    /\ dirty' = (dirty \/ not_drawing)

\* Context::notify of a leased entity: App::notify tells the windows that
\* track it.
Notify(e) ==
    /\ Call /\ phase # "done"
    /\ accessed' = accessed \union {e}
    /\ owed' = IF not_drawing THEN owed \union {e} ELSE owed
    /\ IF e \in tracked
       THEN /\ invalidate_view(e)
            /\ heard' = heard \union {e}
            /\ due' = IF not_drawing THEN due \union {e} ELSE due
       ELSE UNCHANGED <<invalidator, heard, due>>
    /\ UNCHANGED <<phase, refreshing, marked, tracked, frames, open, focus,
                   handleMap, active, focusing>>

\* Window::refresh, which does nothing while drawing.
refresh ==
    IF not_drawing THEN dirty' = TRUE /\ refreshing' = TRUE
                   ELSE UNCHANGED <<dirty, refreshing>>

Refresh ==
    /\ Call /\ not_drawing
    /\ refresh
    /\ UNCHANGED <<dirty_views, phase, marked, accessed, tracked, frames, open,
                   focus, handleMap, active, focusing, notices>>

\* Window::focus with a handle, and blur.
MayFocus == phase \in {"none", "lost", "focus"}

SetFocus(f) ==
    /\ focus' = f
    /\ refresh
    /\ lost_moved' = (lost_moved \/ phase = "lost")
    /\ UNCHANGED <<dirty_views, phase, marked, accessed, tracked, frames, open,
                   active, frame_focus, frame_active, focus_before, told, notices>>

Focus(f) ==
    /\ Call /\ MayFocus
    /\ f \in refs /\ focus # f
    /\ SetFocus(f)
    /\ UNCHANGED handleMap

Blur ==
    /\ Call /\ MayFocus
    /\ SetFocus(None)
    /\ UNCHANGED handleMap

\* The last FocusHandle of f is dropped.
DropFocusHandle(f) ==
    /\ Call /\ phase # "done"
    /\ f \in refs
    /\ refs' = refs \ {f}
    /\ UNCHANGED <<invalidator, phase, refreshing, marked, accessed, tracked, frames,
                   open, focus, handles, active, focusing, notices>>

\* Mutant: the focused handle is released without a blur.
ReleaseFocusHandles_NoBlur ==
    /\ not_drawing /\ handles # refs
    /\ handles' = refs
    /\ UNCHANGED <<invalidator, phase, refreshing, marked, accessed, tracked, frames,
                   open, focus, active, focusing, notices, refs, ops>>

\* release_dropped_focus_handles, in the flush of effects.
ReleaseFocusHandles ==
    /\ not_drawing
    /\ handles # refs
    /\ handles' = refs
    /\ IF focus \in handles \ refs
       THEN SetFocus(None)
       ELSE UNCHANGED <<invalidator, phase, refreshing, marked, accessed, tracked,
                        frames, open, focus, active, focusing, notices>>
    /\ UNCHANGED <<refs, ops>>

\* on_active_status_change.
ActiveStatusChange ==
    /\ Call /\ not_drawing
    /\ active' = ~active
    /\ refresh
    /\ UNCHANGED <<dirty_views, phase, marked, accessed, tracked, frames, open,
                   focus, handleMap, focusing, notices>>

-----------------------------------------------------------------------------
(* Window::draw                                                             *)

\* Mutant: only the view itself is marked.
mark_view_dirty_NotAround(e) == rendered \intersect {e}

\* mark_view_dirty: the view and those around it in the rendered frame.
mark_view_dirty(e) ==
    IF e \notin rendered THEN {}
    ELSE {e} \union (IF e = Root THEN {} ELSE Ancestors[e])

\* draw up to draw_roots: invalidate_entities, clear_accessed, set_dirty.  The
\* window is drawn when it is dirty, by a frame or before a key is dispatched;
\* force_render refreshes it first.
BeginDraw(force) ==
    /\ not_drawing
    /\ dirty \/ force
    /\ refreshing' = (refreshing \/ force)
    /\ marked' = UNION {mark_view_dirty(e) : e \in dirty_views}
    /\ dirty_views' = {} /\ dirty' = FALSE
    /\ accessed' = {}
    /\ phase' = "prepaint"
    /\ next' = {} /\ next_cache' = [v \in Views |-> NoState] /\ next_focus' = None
    /\ UNCHANGED <<tracked, rendered, cache, open, focus, handleMap, active, focusing,
                   notices>>

\* A view is rendered: it reads some entities and shows some children.
Render(v, reads, shown, below) ==
    /\ open' = Append(below, [view |-> v, start |-> accessed, todo |-> shown])
    /\ accessed' = accessed \union {v} \union reads
    /\ next' = next \union {v}
    /\ next_focus' = IF focus = v /\ v \in refs THEN v ELSE next_focus
    /\ owed' = owed \ {v} /\ heard' = heard \ {v} /\ due' = due \ {v}
    /\ UNCHANGED <<invalidator, phase, refreshing, marked, tracked, rendered, cache,
                   next_cache, focus, handleMap, active, focusing, ops>>

Children(v) == {c \in Views : Parent[c] = v}

RenderRoot(reads, shown) ==
    /\ phase = "prepaint" /\ open = <<>> /\ Root \notin next
    /\ Render(Root, reads, shown, <<>>)

Top == open[Len(open)]
Below == SubSeq(open, 1, Len(open) - 1)
Visiting(c) == phase = "prepaint" /\ open # <<>> /\ c \in Top.todo
WithoutChild(c) == Append(Below, [Top EXCEPT !.todo = @ \ {c}])

\* Mutant: only a refresh of the window keeps an element from being reused.
Reusable_IgnoresNotify(c) ==
    /\ cache[c] # NoState
    /\ ~refreshing /\ Len(open) = 1

\* A cached element is reused when its state is from the previous frame, its
\* view is not marked, nothing around it is being rendered anew and its bounds,
\* content mask and text style are the same.
Reusable(c) ==
    /\ cache[c] # NoState
    /\ c \notin marked
    /\ ~refreshing /\ Len(open) = 1

Reused(c) == {d \in rendered \ {Root} : d = c \/ c \in Ancestors[d]}

Reuse(c) ==
    /\ Visiting(c)
    /\ Reusable(c)
    /\ open' = WithoutChild(c)
    /\ accessed' = accessed \union cache[c]
    /\ next' = next \union Reused(c)
    /\ next_cache' = [d \in Views |-> IF d \in Reused(c) THEN cache[d] ELSE next_cache[d]]
    /\ next_focus' = IF focus \in Reused(c) THEN focus ELSE next_focus
    /\ UNCHANGED <<invalidator, phase, refreshing, marked, tracked, rendered, cache,
                   focus, handleMap, active, focusing, notices, ops>>

RenderCached(c, reads, shown, layout_changed) ==
    /\ Visiting(c)
    /\ ~Reusable(c) \/ layout_changed
    /\ Render(c, reads, shown, WithoutChild(c))

\* A cached view is done: its element state remembers the entities that were
\* accessed in detect_accessed_entities and not before.
EndView ==
    /\ phase = "prepaint" /\ open # <<>> /\ Top.todo = {}
    /\ open' = Below
    /\ next_cache' = IF Top.view = Root THEN next_cache
                     ELSE [next_cache EXCEPT ![Top.view] = accessed \ Top.start]
    /\ UNCHANGED <<invalidator, phase, refreshing, marked, accessed, tracked, rendered,
                   cache, next, next_focus, focus, handleMap, active, focusing, notices,
                   ops>>

\* Between the frame on the screen and the next one.
FocusChanged == next_focus # frame_focus \/ active # frame_active

\* The frames are swapped and the focus compared.  If it changed the listeners
\* run, and if it was lost the focus-lost listeners before them.
SwapFrames ==
    /\ phase = "prepaint" /\ open = <<>> /\ Root \in next
    /\ marked' = {}
    /\ rendered' = next /\ cache' = next_cache
    /\ frame_focus' = next_focus /\ frame_active' = active
    /\ phase' = CASE ~FocusChanged -> "done"
                  [] FocusChanged /\ next_focus = None /\ frame_focus # None -> "lost"
                  [] OTHER -> "focus"
    /\ focus_before' = focus
    /\ lost_moved' = FALSE
    /\ told' = CASE ~FocusChanged -> told
                 [] FocusChanged /\ active -> next_focus
                 [] OTHER -> None
    /\ UNCHANGED <<invalidator, refreshing, accessed, tracked, next, next_cache,
                   next_focus, open, focus, handleMap, active, notices, ops>>

\* The focus-lost listeners are done: only what the others do is compared.
FocusLostDone ==
    /\ phase = "lost"
    /\ phase' = "focus"
    /\ focus_before' = focus
    /\ UNCHANGED <<invalidator, refreshing, marked, accessed, tracked, frames, open,
                   focus, handleMap, active, frame_focus, frame_active, told, lost_moved,
                   notices, ops>>

\* Mutant: no further frame when a listener moved the focus.
EndDraw_NoRefresh ==
    /\ phase \in {"focus", "done"}
    /\ phase' = "none"
    /\ tracked' = accessed
    /\ refreshing' = FALSE
    /\ UNCHANGED <<dirty, dirty_views, marked, accessed, frames, open, focus, handleMap,
                   active, focusing, notices, ops>>

\* record_entities_accessed, and another frame if a listener moved the focus.
EndDraw ==
    /\ phase \in {"focus", "done"}
    /\ phase' = "none"
    /\ tracked' = accessed
    /\ refreshing' = (focus # focus_before)
    /\ dirty' = (dirty \/ focus # focus_before)
    /\ UNCHANGED <<dirty_views, marked, accessed, frames, open, focus, handleMap,
                   active, focusing, notices, ops>>

-----------------------------------------------------------------------------
UserCall ==
    \/ \E e \in Entities : Notify(e)
    \/ Refresh
    \/ \E f \in Entities : Focus(f)
    \/ Blur
    \/ \E f \in Entities : DropFocusHandle(f)
    \/ ActiveStatusChange

DrawStep ==
    \/ \E reads \in SUBSET Entities :
          \/ \E shown \in SUBSET Children(Root) : RenderRoot(reads, shown)
          \/ \E c \in Views : \E shown \in SUBSET Children(c), b \in BOOLEAN :
                RenderCached(c, reads, shown, b)
    \/ \E c \in Views : Reuse(c)
    \/ EndView \/ SwapFrames \/ FocusLostDone \/ EndDraw

ForceRender == ops < MaxOps /\ BeginDraw(TRUE) /\ ops' = ops + 1
Draw == BeginDraw(FALSE) /\ UNCHANGED ops

Next == UserCall \/ ReleaseFocusHandles \/ Draw \/ ForceRender \/ DrawStep

Spec == Init /\ [][Next]_vars

\* A dirty window gets a frame (module DisplayLink), and a draw runs to its end.
FairSpec == Spec /\ WF_vars(Draw) /\ WF_vars(DrawStep)

-----------------------------------------------------------------------------
(* Properties                                                               *)

\* A notification this window was told of is never lost: the view on the
\* screen was rendered since, or it is in the invalidator's dirty_views and
\* cannot be reused by the next draw - though notifications arrive while
\* views are rendered and reused, and a view may hide in the cached element of
\* another.
NoInvalidationLost ==
    not_drawing => heard \intersect rendered \subseteq dirty_views

\* One draw is enough: a view of whose notification the window was told outside
\* of a draw is rendered in the next draw that shows it, whatever cached
\* elements it is shown in, and until then the window is dirty.
NextDrawRenders ==
    /\ not_drawing /\ ~dirty => due \intersect rendered = {}
    /\ phase \in {"lost", "focus", "done"} => due \intersect rendered = {}

\* A view of whose notification the window was told outside of a draw is
\* rendered again or disappears.
NotifiedIsRedrawn ==
    \A v \in Entities :
        (v \in due /\ not_drawing) ~> (v \notin due \/ v \notin rendered)

\* The focus listeners know the focus.  What they were told last is the focus
\* of the frame on the screen, and nothing while the window is inactive; and
\* when the window is clean that is the current focus, also if a listener moved
\* it - only a focus-lost listener may do so unnoticed.
ListenersKnowFocus ==
    not_drawing =>
        /\ told = IF frame_active THEN frame_focus ELSE None
        /\ ~dirty /\ ~lost_moved /\ focus \in refs =>
              told = IF active /\ focus \in rendered THEN focus ELSE None

\* The focus never is a handle that has gone from the FocusMap: one without
\* references stays there until the flush that releases it, and that flush
\* blurs the window.
FocusIsKnown == focus # None => focus \in handles

\* What the comment of AnyView::cached says: a view is recycled from the
\* previous frame unless notify was called on it since it was rendered.
RecycledIsFresh ==
    [][\A c \in Views : Reuse(c) => c \notin owed]_vars

=============================================================================
