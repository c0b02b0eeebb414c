----------------------------- MODULE DisplayLink ----------------------------
(* Frame pacing of macOS windows: the registry of display links and         *)
(* WindowFrameSource (crates/gpui_macos/src/display_link.rs), the window's  *)
(* demand gate (crates/gpui_macos/src/window.rs) and the frame callback     *)
(* that Window::new installs (crates/gpui/src/window.rs).                   *)
(*                                                                          *)
(* Everything runs on the main thread except OutputCallback, which the io   *)
(* thread of a display runs under the registry's lock.  It reads what start *)
(* and stop write one by one; a tick that falls between two of their writes *)
(* has the effect of one before or after them.  Restart tasks of one window *)
(* are kept as a set: they are alike, and after the first has run the       *)
(* others find a running source or no request.  AppKit changes what it      *)
(* reports of a window together with telling the window.                    *)
EXTENDS Naturals, FiniteSets

CONSTANTS
    Windows, Displays,
    None,           \* no display, no frame
    MaxOps          \* bound on events from AppKit and calls of user code

\* A frame callback in progress, and how far it has come.
Frame == [window: Windows, sync: BOOLEAN, stage: {"begin", "callbacks", "draw", "end"}]

ASSUME DisplayAssumption == None \notin Displays /\ None \notin Frame
ASSUME OpsAssumption == MaxOps \in Nat

VARIABLES
    links,          \* the DisplayEntry of each display, with its CVDisplayLink
    registration,   \* WindowFrameSource::registration: the display
    frame_requested,
    signalled,      \* the window's dispatch source has data
    restarts,       \* the windows with a queued restart task
    visible, screen,        \* what AppKit reports of the window
    status,                 \* of the window's life
    dirty, needs_present,   \* work left for the next frame
    callbacks, high_rate,
    frame,                  \* the frame callback in progress, or None
    asleep, wake_queued,    \* the displays sleep; restart_frame_sources is queued
    failed,                 \* history: the last start of the window's link failed
    ops

source == <<links, registration, frame_requested, failed>>
appkit == <<visible, screen, status>>
work == <<dirty, needs_present, callbacks, high_rate>>
power == <<asleep, wake_queued>>
vars == <<source, signalled, restarts, appkit, work, frame, power, ops>>

Link == [subscribers: SUBSET Windows, running: BOOLEAN,
         ticking: BOOLEAN,      \* the state of the CVDisplayLink itself
         stopping: BOOLEAN]     \* a last output callback may follow its stop

Entry(subscribers, running, ticking, stopping) ==
    [subscribers |-> subscribers, running |-> running, ticking |-> ticking,
     stopping |-> stopping]

TypeOK ==
    /\ links \in [Displays -> Link]
    /\ \A d \in Displays : links[d].ticking => links[d].running
    /\ registration \in [Windows -> Displays \union {None}]
    /\ frame_requested \in [Windows -> BOOLEAN]
    /\ signalled \subseteq Windows /\ restarts \subseteq Windows
    /\ visible \in [Windows -> BOOLEAN]
    /\ screen \in [Windows -> Displays \union {None}]
    /\ status \in [Windows -> {"open", "dropped", "closed", "gone"}]
    /\ dirty \subseteq Windows /\ needs_present \subseteq Windows
    /\ callbacks \subseteq Windows /\ high_rate \subseteq Windows
    /\ frame = None \/ frame \in Frame
    /\ asleep \in BOOLEAN /\ wake_queued \in BOOLEAN
    /\ failed \subseteq Windows
    /\ ops \in 0..MaxOps

Init ==
    /\ links = [d \in Displays |-> Entry({}, FALSE, FALSE, FALSE)]
    /\ registration = [w \in Windows |-> None]
    /\ frame_requested = [w \in Windows |-> TRUE]
    /\ signalled = {} /\ restarts = {}
    /\ visible = [w \in Windows |-> FALSE]
    /\ screen \in [Windows -> Displays]
    /\ status = [w \in Windows |-> "open"]
    /\ dirty = Windows /\ needs_present = {} /\ callbacks = {} /\ high_rate = {}
    /\ frame = None
    /\ asleep = FALSE /\ wake_queued = FALSE
    /\ failed = {} /\ ops = 0

Counted == ops < MaxOps /\ ops' = ops + 1

MainIdle == frame = None

-----------------------------------------------------------------------------
(* The registry                                                             *)

\* unsubscribe: the last subscriber stops the link.
unsubscribe(ls, d, w) ==
    IF d = None THEN ls
    ELSE LET rest == ls[d].subscribers \ {w}
             stops == rest = {} /\ ls[d].running
         IN  [ls EXCEPT ![d] = Entry(rest, ls[d].running /\ ~stops,
                                     ls[d].ticking /\ ~stops, ls[d].stopping \/ stops)]

\* subscribe: the first subscriber starts the link.  It does not tick while
\* the displays are asleep.
subscribe(ls, d, w) ==
    [ls EXCEPT ![d] = Entry(ls[d].subscribers \union {w}, TRUE,
                            IF ls[d].running THEN ls[d].ticking ELSE ~asleep,
                            ls[d].stopping)]

\* WindowFrameSource::stop
Stopped(w) == unsubscribe(links, registration[w], w)

stop_display_link(w) ==
    /\ links' = Stopped(w)
    /\ registration' = [registration EXCEPT ![w] = None]
    /\ frame_requested' = [frame_requested EXCEPT ![w] = FALSE]
    /\ UNCHANGED failed

\* start_display_link: stops first; then the window must be visible on a
\* screen.  Starting the link may fail.
start_display_link(w, shown, d) ==
    \/ /\ shown /\ d # None
       /\ links' = subscribe(Stopped(w), d, w)
       /\ registration' = [registration EXCEPT ![w] = d]
       /\ frame_requested' = [frame_requested EXCEPT ![w] = TRUE]
       /\ failed' = failed \ {w}
    \/ /\ shown /\ d # None
       /\ ~Stopped(w)[d].running
       /\ links' = Stopped(w)
       /\ registration' = [registration EXCEPT ![w] = None]
       /\ frame_requested' = [frame_requested EXCEPT ![w] = FALSE]
       /\ failed' = failed \union {w}
    \/ /\ ~shown \/ d = None
       /\ stop_display_link(w)

\* display_link_output_callback
OutputCallback(d) ==
    /\ links[d].ticking \/ links[d].stopping
    /\ links' = IF links[d].ticking THEN links
                ELSE [links EXCEPT ![d] = Entry(links[d].subscribers, links[d].running,
                                                FALSE, FALSE)]
    /\ signalled' = signalled \union {w \in links[d].subscribers : frame_requested[w]}
    /\ UNCHANGED <<registration, frame_requested, failed, restarts, appkit, work, frame,
                   power, ops>>

-----------------------------------------------------------------------------
(* Demand for frames: calls of user code, which also runs inside of the     *)
(* frame callback                                                           *)

\* Mutant: the request is latched and no restart task is queued.
request_frame_NoTask(w) ==
    /\ frame_requested' = [frame_requested EXCEPT ![w] = TRUE]
    /\ UNCHANGED <<restarts, links, registration, failed>>

\* The closure of frame_requester: the first request queues a restart task.
request_frame(w) ==
    /\ frame_requested' = [frame_requested EXCEPT ![w] = TRUE]
    /\ restarts' = IF frame_requested[w] THEN restarts ELSE restarts \union {w}
    /\ UNCHANGED <<links, registration, failed>>

\* User code runs at any time except between the stages of a frame.
UserCodeRuns == frame # None => frame.stage \in {"callbacks", "draw"}
Drawing(w) == frame # None /\ frame.window = w /\ frame.stage = "draw"

\* set_dirty(true) and invalidate_view; while the window is drawn a
\* notification does not make it dirty.
Invalidate(w) ==
    /\ Counted /\ UserCodeRuns
    /\ status[w] = "open" /\ ~Drawing(w)
    /\ dirty' = dirty \union {w}
    /\ request_frame(w)
    /\ UNCHANGED <<signalled, appkit, needs_present, callbacks, high_rate, frame, power>>

\* An entity of a window that is gone from the App is notified: the
\* invalidator lives on in window_invalidators_by_entity.
InvalidateDropped(w) ==
    /\ Counted /\ UserCodeRuns
    /\ status[w] \in {"dropped", "closed"}
    /\ request_frame(w)
    /\ UNCHANGED <<signalled, appkit, work, frame, power>>

OnNextFrame(w) ==
    /\ Counted /\ UserCodeRuns
    /\ status[w] = "open"
    /\ callbacks' = callbacks \union {w}
    /\ request_frame(w)
    /\ UNCHANGED <<signalled, appkit, dirty, needs_present, high_rate, frame, power>>

\* dispatch_event of an input that invalidated something, at a high rate.
HighRateInput(w) ==
    /\ Counted /\ MainIdle
    /\ status[w] = "open"
    /\ dirty' = dirty \union {w} /\ high_rate' = high_rate \union {w}
    /\ request_frame(w)
    /\ UNCHANGED <<signalled, appkit, needs_present, callbacks, frame, power>>

\* The rate was not sustained for a second, or the window is inactive.
HighRateEnds(w) ==
    /\ w \in high_rate
    /\ high_rate' = high_rate \ {w}
    /\ UNCHANGED <<source, signalled, restarts, appkit, dirty, needs_present, callbacks,
                   frame, power, ops>>

\* dispatch_key_event draws a dirty window and leaves presenting it to a frame.
DrawForKey(w) ==
    /\ MainIdle
    /\ status[w] = "open" /\ w \in dirty
    /\ dirty' = dirty \ {w} /\ needs_present' = needs_present \union {w}
    /\ UNCHANGED <<source, signalled, restarts, appkit, callbacks, high_rate, frame,
                   power, ops>>

\* MacWindow is dropped: by remove_window, or by close_window, which sets
\* "closed" before.
DropWindow(w, how) ==
    /\ Counted /\ UserCodeRuns
    /\ status[w] = "open"
    /\ status' = [status EXCEPT ![w] = how]
    /\ stop_display_link(w)
    /\ signalled' = signalled \ {w}
    /\ UNCHANGED <<restarts, visible, screen, work, frame, power>>

-----------------------------------------------------------------------------
(* Events of AppKit and tasks of the main thread                            *)

WindowAlive(w) == status[w] # "gone"

\* window_did_change_occlusion_state, until the delegate is removed.
ChangeOcclusion(w) ==
    /\ Counted /\ MainIdle
    /\ status[w] = "open"
    /\ visible' = [visible EXCEPT ![w] = ~@]
    /\ IF visible[w] THEN stop_display_link(w) ELSE start_display_link(w, TRUE, screen[w])
    /\ UNCHANGED <<signalled, restarts, screen, status, work, frame, power>>

\* window_did_change_screen
ChangeScreen(w, d) ==
    /\ Counted /\ MainIdle
    /\ status[w] = "open" /\ screen[w] # d
    /\ screen' = [screen EXCEPT ![w] = d]
    /\ start_display_link(w, visible[w], d)
    /\ UNCHANGED <<signalled, restarts, visible, status, work, frame, power>>

\* The restart task of frame_requester.
RestartTask(w) ==
    /\ MainIdle
    /\ w \in restarts
    /\ restarts' = restarts \ {w}
    /\ IF /\ status[w] \in {"open", "dropped"}
          /\ frame_requested[w]
          /\ registration[w] = None
       THEN start_display_link(w, visible[w], screen[w])
       ELSE UNCHANGED source
    /\ UNCHANGED <<signalled, appkit, work, frame, power, ops>>

\* The task of MacWindow's drop closes the native window ...
CloseTask(w) ==
    /\ MainIdle
    /\ status[w] = "dropped"
    /\ status' = [status EXCEPT ![w] = "closed"]
    /\ UNCHANGED <<source, signalled, restarts, visible, screen, work, frame, power, ops>>

\* Mutant: the source is not stopped.
Deallocate_NoStop(w) ==
    /\ MainIdle
    /\ status[w] = "closed"
    /\ status' = [status EXCEPT ![w] = "gone"]
    /\ signalled' = signalled \ {w} /\ restarts' = restarts \ {w}
    /\ UNCHANGED <<source, visible, screen, work, frame, power, ops>>

\* ... which is then deallocated, with a source that was started again.
Deallocate(w) ==
    /\ MainIdle
    /\ status[w] = "closed"
    /\ status' = [status EXCEPT ![w] = "gone"]
    /\ stop_display_link(w)
    /\ signalled' = signalled \ {w} /\ restarts' = restarts \ {w}
    /\ UNCHANGED <<visible, screen, work, frame, power, ops>>

\* The displays sleep, and wake: on_frame_source_wake queues a restart.
Sleep ==
    /\ Counted /\ ~asleep
    /\ asleep' = TRUE
    /\ links' = [d \in Displays |-> Entry(links[d].subscribers, links[d].running, FALSE,
                                          links[d].stopping)]
    /\ UNCHANGED <<registration, frame_requested, failed, signalled, restarts, appkit,
                   work, frame, wake_queued>>

Wake ==
    /\ asleep
    /\ asleep' = FALSE /\ wake_queued' = TRUE
    /\ UNCHANGED <<source, signalled, restarts, appkit, work, frame, ops>>

\* restart_frame_sources: all windows are stopped before any is started, and
\* with them all links; then every window that is visible on a display
\* subscribes, unless starting its link fails.
Restartable == {w \in Windows : /\ status[w] \in {"open", "dropped"}
                                /\ visible[w] /\ screen[w] # None}

\* Mutant: the windows are restarted one by one, so that a link with several
\* subscribers is neither stopped nor started.
restart_frame_sources_OneByOne ==
    /\ MainIdle /\ wake_queued
    /\ wake_queued' = FALSE
    /\ LET on(d) == {w \in Restartable : screen[w] = d}
       IN  links' = [d \in Displays |->
              Entry(on(d), on(d) # {},
                    IF Cardinality(links[d].subscribers) > 1 THEN links[d].ticking
                    ELSE on(d) # {} /\ ~asleep,
                    links[d].stopping \/ links[d].running)]
    /\ registration' = [w \in Windows |->
          IF w \in Restartable THEN screen[w] ELSE None]
    /\ frame_requested' = [w \in Windows |->
          IF WindowAlive(w) THEN w \in Restartable ELSE frame_requested[w]]
    /\ failed' = failed \ Restartable
    /\ UNCHANGED <<signalled, restarts, appkit, work, frame, asleep, ops>>

restart_frame_sources ==
    /\ MainIdle /\ wake_queued
    /\ wake_queued' = FALSE
    /\ \E started \in SUBSET Restartable :
          LET on(d) == {w \in started : screen[w] = d}
          IN  /\ links' = [d \in Displays |->
                    Entry(on(d), on(d) # {}, on(d) # {} /\ ~asleep,
                          links[d].stopping \/ links[d].running)]
              /\ registration' = [w \in Windows |->
                    IF w \in started THEN screen[w] ELSE None]
              /\ frame_requested' = [w \in Windows |->
                    IF WindowAlive(w) THEN w \in started ELSE frame_requested[w]]
              /\ failed' = (failed \ started) \union (Restartable \ started)
    /\ UNCHANGED <<signalled, restarts, appkit, work, frame, asleep, ops>>

-----------------------------------------------------------------------------
(* The frame callback                                                       *)

\* step: the dispatch source's handler.
Step(w) ==
    /\ MainIdle
    /\ w \in signalled
    /\ signalled' = signalled \ {w}
    /\ frame' = [window |-> w, sync |-> FALSE, stage |-> "begin"]
    /\ UNCHANGED <<source, restarts, appkit, work, power, ops>>

\* display_layer, or windowDidBecomeKey after the first: a synchronous frame,
\* with the link stopped.
SyncFrame(w) ==
    /\ Counted /\ MainIdle
    /\ status[w] = "open"
    /\ stop_display_link(w)
    /\ frame' = [window |-> w, sync |-> TRUE, stage |-> "begin"]
    /\ UNCHANGED <<signalled, restarts, appkit, work, power>>

At(stage) == frame # None /\ frame.stage = stage

\* The frame is too early for an inactive window or under thermal pressure;
\* counted, since time passes between two ticks.
Throttle ==
    /\ At("begin") /\ Counted
    /\ frame.window \in callbacks
    /\ frame' = None
    /\ IF frame.sync
       THEN start_display_link(frame.window, visible[frame.window], screen[frame.window])
       ELSE UNCHANGED source
    /\ UNCHANGED <<signalled, restarts, appkit, work, power>>

\* next_frame_callbacks.take(); then the callbacks run.
TakeCallbacks ==
    /\ At("begin")
    /\ frame' = [frame EXCEPT !.stage = "callbacks"]
    /\ callbacks' = callbacks \ {frame.window}
    /\ UNCHANGED <<source, signalled, restarts, appkit, dirty, needs_present, high_rate,
                   power, ops>>

\* A dirty window is drawn, another one presented if it needs to be.
BeginDraw ==
    /\ At("callbacks")
    /\ LET w == frame.window IN
       IF status[w] = "open" /\ w \in dirty
       THEN /\ frame' = [frame EXCEPT !.stage = "draw"]
            /\ dirty' = dirty \ {w} /\ UNCHANGED needs_present
       ELSE /\ frame' = [frame EXCEPT !.stage = "end"]
            /\ needs_present' = IF status[w] = "open" THEN needs_present \ {w}
                                                      ELSE needs_present
            /\ UNCHANGED dirty
    /\ UNCHANGED <<source, signalled, restarts, appkit, callbacks, high_rate, power, ops>>

\* The draw ends, refreshed if a focus listener moved the focus, and is
\* presented.
EndDraw(refresh) ==
    /\ At("draw")
    /\ frame' = [frame EXCEPT !.stage = "end"]
    /\ needs_present' = needs_present \ {frame.window}
    /\ IF refresh /\ status[frame.window] = "open"
       THEN /\ Counted
            /\ dirty' = dirty \union {frame.window} /\ request_frame(frame.window)
       ELSE UNCHANGED <<dirty, source, restarts, ops>>
    /\ UNCHANGED <<signalled, appkit, callbacks, high_rate, power>>

\* Mutant: callbacks for the next frame do not keep the link running.
Idle_NoCallbacks(w) == w \notin dirty \union needs_present \union high_rate

Idle(w) == w \notin dirty \union needs_present \union callbacks \union high_rate

\* Mutant: the frame requests of an idle window go on.
EndFrame_NoPause ==
    /\ At("end")
    /\ frame' = None
    /\ LET w == frame.window IN
       IF frame.sync THEN start_display_link(w, visible[w], screen[w])
       ELSE UNCHANGED source
    /\ UNCHANGED <<signalled, restarts, appkit, work, power, ops>>

\* The end of the callback: an idle window pauses its frame requests; after a
\* synchronous frame the link is started again.
EndFrame ==
    /\ At("end")
    /\ frame' = None
    /\ LET w == frame.window IN
       IF frame.sync THEN start_display_link(w, visible[w], screen[w])
       ELSE IF status[w] = "open" /\ Idle(w) THEN stop_display_link(w)
       ELSE UNCHANGED source
    /\ UNCHANGED <<signalled, restarts, appkit, work, power, ops>>

-----------------------------------------------------------------------------
UserCall ==
    \E w \in Windows :
        \/ Invalidate(w) \/ InvalidateDropped(w) \/ OnNextFrame(w) \/ HighRateInput(w)
        \/ HighRateEnds(w) \/ DrawForKey(w)
        \/ \E how \in {"dropped", "closed"} : DropWindow(w, how)

Event ==
    \/ \E w \in Windows :
          \/ ChangeOcclusion(w) \/ SyncFrame(w)
          \/ \E d \in Displays \union {None} : ChangeScreen(w, d)
    \/ Sleep \/ Wake

Task ==
    \/ \E w \in Windows : RestartTask(w) \/ CloseTask(w) \/ Deallocate(w) \/ Step(w)
    \/ restart_frame_sources

FrameStep == Throttle \/ TakeCallbacks \/ BeginDraw
             \/ (\E b \in BOOLEAN : EndDraw(b)) \/ EndFrame

Next == UserCall \/ Event \/ Task \/ FrameStep \/ \E d \in Displays : OutputCallback(d)

Spec == Init /\ [][Next]_vars

\* A link that ticks keeps ticking, the main thread goes on with the frame
\* callback and with one or another of its queued tasks, a window that was
\* dropped is closed in the end, and high-rate input ends after a second.
FairSpec ==
    /\ Spec
    /\ \A d \in Displays : WF_vars(links[d].ticking /\ OutputCallback(d))
    /\ WF_vars(FrameStep) /\ WF_vars(Task)
    /\ SF_vars(\E w \in Windows : CloseTask(w) \/ Deallocate(w))
    /\ WF_vars(\E w \in Windows : HighRateEnds(w))

-----------------------------------------------------------------------------
(* Properties                                                               *)

\* "A display's link runs iff it has subscribers": of the link itself, not of
\* the flag, whatever windows that share a display start, stop, move or close
\* - except between the sleep of the displays and the restart after it.
LinkRunsIffSubscribed ==
    ~asleep /\ ~wake_queued =>
        \A d \in Displays : links[d].ticking = (links[d].subscribers # {})

\* The registry and the windows agree: a window subscribes to at most one
\* display, the one of its registration.
RegistryAgrees ==
    \A w \in Windows, d \in Displays :
        w \in links[d].subscribers <=> registration[w] = d

\* The request latch of an open, visible window is never set in vain: a source that
\* is registered will deliver the frame, or a restart task is queued.
RequestIsServed ==
    \A w \in Windows :
        status[w] = "open" /\ visible[w] /\ frame_requested[w]
            => registration[w] # None \/ w \in restarts

\* A visible window with something left to do never stops asking for frames,
\* unless its link cannot be started; a synchronous frame starts it at its end.
\* And what it asked for comes: a start that failed leaves no request latched,
\* which would silence all later ones.
WorkHasFrames ==
    /\ RequestIsServed
    /\ \A w \in Windows :
          /\ status[w] = "open" /\ visible[w] /\ screen[w] # None
          /\ w \in dirty \union needs_present \union callbacks
          => \/ registration[w] # None \/ w \in restarts \/ w \in failed
             \/ frame # None /\ frame.window = w /\ frame.sync

\* Once a window is deallocated no output callback reaches its source, though
\* it may have been started again after the window was dropped.
GoneIsUnreachable ==
    \A w \in Windows : ~WindowAlive(w) =>
        w \notin signalled /\ \A d \in Displays : w \notin links[d].subscribers

\* A window that is invalidated is drawn and presented, unless it is hidden,
\* closed, asleep or its link cannot be started.
DirtyIsPresented ==
    \A w \in Windows :
        w \in dirty ~> \/ w \notin dirty \union needs_present
                       \/ ~visible[w] \/ screen[w] = None \/ status[w] # "open"
                       \/ asleep \/ w \in failed

\* A window with nothing to do stops its link.
IdleStops ==
    \A w \in Windows :
        registration[w] # None ~>
            \/ registration[w] = None \/ asleep \/ status[w] # "open"
            \/ w \in dirty \union needs_present \union callbacks \union high_rate

=============================================================================
