-------------------------- MODULE DisplayLinkProofs -------------------------
(* Proofs about DisplayLink, for any windows and displays.                  *)
EXTENDS DisplayLink, TLAPS

Awake == ~asleep /\ ~wake_queued

\* A registry ls and registrations reg that agree.
Agree(ls, reg) ==
    /\ ls \in [Displays -> Link]
    /\ reg \in [Windows -> Displays \union {None}]
    /\ \A w \in Windows, d \in Displays : w \in ls[d].subscribers <=> reg[w] = d
    /\ \A d \in Displays : ls[d].running <=> ls[d].subscribers # {}
    /\ \A d \in Displays : ls[d].ticking => ls[d].running

\* The links that are marked as running tick.
Ticks(ls) == \A d \in Displays : ls[d].running => ls[d].ticking

Registry == Agree(links, registration) /\ (Awake => Ticks(links))

\* Only a window that lives has a registration, data or a frame.
Alive ==
    /\ \A w \in Windows : status[w] = "gone" => registration[w] = None /\ w \notin signalled
    /\ frame # None => status[frame.window] # "gone"

\* WorkHasFrames in terms of the request latch.
Showing(w) == status[w] = "open" /\ visible[w] /\ screen[w] # None
Pending(w) == w \in dirty \union needs_present \union callbacks
InSync(w) == frame # None /\ frame.window = w /\ frame.sync
WorkRequested ==
    \A w \in Windows :
        Showing(w) /\ Pending(w) =>
            registration[w] # None \/ frame_requested[w] \/ w \in failed \/ InSync(w)

IInv == TypeOK /\ Registry /\ Alive /\ RequestIsServed /\ WorkRequested

-----------------------------------------------------------------------------
\* The fields of an entry.
LEMMA EntryFields ==
    ASSUME NEW s \in SUBSET Windows, NEW r \in BOOLEAN, NEW t \in BOOLEAN,
           NEW p \in BOOLEAN
    PROVE  /\ Entry(s, r, t, p) \in Link
           /\ Entry(s, r, t, p).subscribers = s
           /\ Entry(s, r, t, p).running = r
           /\ Entry(s, r, t, p).ticking = t
           /\ Entry(s, r, t, p).stopping = p
BY DEF Entry, Link

\* One entry of the registry is replaced, and one registration.
LEMMA ReplaceAgrees ==
    ASSUME NEW ls, NEW reg, Agree(ls, reg), NEW new \in [Displays -> Link],
           NEW w \in Windows, NEW d \in Displays, NEW target \in {d, None},
           reg[w] \in {d, None},
           \A e \in Displays : e # d => new[e] = ls[e],
           new[d].subscribers = IF target = d THEN ls[d].subscribers \union {w}
                                              ELSE ls[d].subscribers \ {w},
           new[d].running <=> new[d].subscribers # {},
           new[d].ticking => new[d].running
    PROVE  Agree(new, [reg EXCEPT ![w] = target])
<1> DEFINE reg2 == [reg EXCEPT ![w] = target]
<1>1. reg2 \in [Windows -> Displays \union {None}]
  BY DEF Agree
<1>2. \A v \in Windows, e \in Displays : v \in new[e].subscribers <=> reg2[v] = e
  <2> SUFFICES ASSUME NEW v \in Windows, NEW e \in Displays
               PROVE  v \in new[e].subscribers <=> reg2[v] = e
    OBVIOUS
  <2>1. reg2[v] = IF v = w THEN target ELSE reg[v]
    BY DEF Agree
  <2>2. None \notin Displays
    BY DisplayAssumption
  <2>3. v \in ls[e].subscribers <=> reg[v] = e
    BY DEF Agree
  <2> HIDE DEF reg2
  <2>4. CASE e = d
    BY <2>1, <2>2, <2>3, <2>4
  <2>5. CASE e # d
    BY <2>1, <2>2, <2>3, <2>5
  <2> QED
    BY <2>4, <2>5
<1>3. \A e \in Displays : new[e].running <=> new[e].subscribers # {}
  BY DEF Agree
<1>4. \A e \in Displays : new[e].ticking => new[e].running
  BY DEF Agree
<1> QED
  BY <1>1, <1>2, <1>3, <1>4 DEF Agree

\* unsubscribe keeps the registry in agreement with the registrations.
LEMMA UnsubscribeAgrees ==
    ASSUME NEW ls, NEW reg, NEW w \in Windows, Agree(ls, reg)
    PROVE  /\ Agree(unsubscribe(ls, reg[w], w), [reg EXCEPT ![w] = None])
           /\ Ticks(ls) => Ticks(unsubscribe(ls, reg[w], w))
<1>1. CASE reg[w] = None
  <2>1. [reg EXCEPT ![w] = None] = reg
    BY <1>1 DEF Agree
  <2> QED
    BY <1>1, <2>1 DEF unsubscribe
<1>2. CASE reg[w] # None
  <2> DEFINE d == reg[w]
             rest == ls[d].subscribers \ {w}
             new == unsubscribe(ls, d, w)
  <2>1. /\ d \in Displays /\ d # None /\ ls[d] \in Link
        /\ rest \in SUBSET Windows
        /\ ls[d].running = TRUE
        /\ ls[d].ticking \in BOOLEAN /\ ls[d].stopping \in BOOLEAN
    BY <1>2 DEF Agree, Link
  <2>2. new = [ls EXCEPT ![d] = new[d]] /\ \A e \in Displays : e # d => new[e] = ls[e]
    BY <2>1 DEF unsubscribe, Agree
  <2>3. /\ new[d] \in Link
        /\ new[d].subscribers = rest
        /\ new[d].running <=> rest # {}
        /\ new[d].ticking <=> ls[d].ticking /\ rest # {}
    <3>1. CASE rest = {}
      <4>1. new[d] = Entry({}, FALSE, FALSE, TRUE)
        BY <2>1, <3>1 DEF unsubscribe, Agree
      <4> QED
        BY <2>1, <3>1, <4>1 DEF Entry, Link
    <3>2. CASE rest # {}
      <4>1. new[d] = Entry(rest, TRUE, ls[d].ticking, ls[d].stopping)
        BY <2>1, <3>2 DEF unsubscribe, Agree
      <4> QED
        BY <2>1, <3>2, <4>1 DEF Entry, Link
    <3> QED
      BY <3>1, <3>2
  <2>4. new \in [Displays -> Link]
    BY <2>1, <2>2, <2>3 DEF Agree
  <2>5. Agree(new, [reg EXCEPT ![w] = None])
    <3> HIDE DEF new
    <3>1. new[d].subscribers = IF None = d THEN ls[d].subscribers \union {w}
                                           ELSE ls[d].subscribers \ {w}
      BY <2>1, <2>3
    <3>2. new[d].running <=> new[d].subscribers # {}
      BY <2>3
    <3>3. new[d].ticking => new[d].running
      BY <2>3
    <3>4. \A e \in Displays : e # d => new[e] = ls[e]
      BY <2>2
    <3>5. PICK f : f = d
      OBVIOUS
    <3>6. f \in Displays /\ reg[w] \in {f, None} /\ None \in {f, None}
      BY <2>1, <3>5
    <3>7. Agree(new, [reg EXCEPT ![w] = None])
      BY <2>4, <3>1, <3>2, <3>3, <3>4, <3>5, <3>6, ReplaceAgrees
    <3> QED
      BY <3>7
  <2>6. Ticks(ls) => Ticks(new)
    <3> HIDE DEF new
    <3> QED
      BY <2>1, <2>2, <2>3 DEF Ticks
  <2> QED
    BY <2>5, <2>6
<1> QED
  BY <1>1, <1>2

\* subscribe keeps it, for a window that has no registration.
LEMMA SubscribeAgrees ==
    ASSUME NEW ls, NEW reg, NEW w \in Windows, NEW d \in Displays, Agree(ls, reg),
           reg[w] = None, asleep \in BOOLEAN
    PROVE  /\ Agree(subscribe(ls, d, w), [reg EXCEPT ![w] = d])
           /\ Ticks(ls) /\ ~asleep => Ticks(subscribe(ls, d, w))
<1> DEFINE s == ls[d].subscribers \union {w}
           t == IF ls[d].running THEN ls[d].ticking ELSE ~asleep
           p == ls[d].stopping
           new == subscribe(ls, d, w)
<1>1. /\ ls[d] \in Link
      /\ s \in SUBSET Windows
      /\ s # {}
      /\ p \in BOOLEAN
  BY DEF Agree, Link
<1>2. t \in BOOLEAN
  BY <1>1 DEF Link
<1>3. /\ new = [ls EXCEPT ![d] = Entry(s, TRUE, t, p)]
      /\ new[d] = Entry(s, TRUE, t, p)
      /\ \A e \in Displays : e # d => new[e] = ls[e]
  BY DEF subscribe, Agree
<1>4. Ticks(ls) /\ ~asleep => t
  BY DEF Ticks
<1>5. s = IF d = d THEN ls[d].subscribers \union {w} ELSE ls[d].subscribers \ {w}
  OBVIOUS
<1> HIDE DEF s, t, p, new
<1>6. /\ new[d] \in Link
      /\ new[d].subscribers = s
      /\ new[d].running
      /\ new[d].ticking <=> t
  BY <1>1, <1>2, <1>3 DEF Entry, Link
<1>7. new \in [Displays -> Link]
  BY <1>3, <1>6 DEF Agree
<1>8. Agree(new, [reg EXCEPT ![w] = d])
  <2>1. reg[w] \in {d, None} /\ d \in {d, None}
    OBVIOUS
  <2>2. new[d].subscribers = IF d = d THEN ls[d].subscribers \union {w}
                                      ELSE ls[d].subscribers \ {w}
    BY <1>5, <1>6
  <2>3. new[d].running <=> new[d].subscribers # {}
    BY <1>1, <1>6
  <2>4. new[d].ticking => new[d].running
    BY <1>6
  <2> QED
    BY <1>3, <1>7, <2>1, <2>2, <2>3, <2>4, ReplaceAgrees
<1>9. Ticks(ls) /\ ~asleep => Ticks(new)
  BY <1>3, <1>4, <1>6 DEF Ticks
<1> QED
  BY <1>8, <1>9 DEF new

-----------------------------------------------------------------------------
\* What stopping or starting the link of window w may change.
OnlyWindow(w) ==
    /\ frame_requested' \in [Windows -> BOOLEAN]
    /\ failed' \subseteq Windows
    /\ \A v \in Windows \ {w} : /\ registration'[v] = registration[v]
                                /\ frame_requested'[v] = frame_requested[v]
                                /\ v \in failed' <=> v \in failed

\* stop_display_link keeps the registry and clears the request of its window.
LEMMA StopEffect ==
    ASSUME TypeOK, Registry, NEW w \in Windows, stop_display_link(w), UNCHANGED power
    PROVE  /\ Registry' /\ OnlyWindow(w)
           /\ registration'[w] = None /\ frame_requested'[w] = FALSE
<1>1. Agree(links', registration') /\ (Ticks(links) => Ticks(links'))
  BY UnsubscribeAgrees DEF Registry, stop_display_link, Stopped
<1>2. Registry'
  BY <1>1 DEF Registry, Awake, power
<1> QED
  BY <1>2 DEF OnlyWindow, stop_display_link, TypeOK

\* start_display_link keeps the registry; a request is left only with a
\* registration, and a window on a screen has one or has failed.
LEMMA StartEffect ==
    ASSUME TypeOK, Registry, NEW w \in Windows, NEW shown \in BOOLEAN,
           NEW d \in Displays \union {None}, start_display_link(w, shown, d),
           UNCHANGED power
    PROVE  /\ Registry' /\ OnlyWindow(w)
           /\ frame_requested'[w] => registration'[w] # None
           /\ shown /\ d # None => registration'[w] # None \/ w \in failed'
<1> DEFINE reg == [registration EXCEPT ![w] = None]
<1>1. /\ Agree(Stopped(w), reg)
      /\ Ticks(links) => Ticks(Stopped(w))
  BY UnsubscribeAgrees DEF Registry, Stopped
<1>2. CASE /\ shown /\ d # None
           /\ links' = subscribe(Stopped(w), d, w)
           /\ registration' = [registration EXCEPT ![w] = d]
           /\ frame_requested' = [frame_requested EXCEPT ![w] = TRUE]
           /\ failed' = failed \ {w}
  <2>1. d \in Displays /\ reg[w] = None /\ asleep \in BOOLEAN
    BY <1>2 DEF TypeOK
  <2>2. [reg EXCEPT ![w] = d] = registration'
    BY <1>2 DEF TypeOK
  <2> HIDE DEF reg
  <2>3. /\ Agree(links', registration')
        /\ Ticks(Stopped(w)) /\ ~asleep => Ticks(links')
    <3>1. PICK ls : ls = Stopped(w)
      OBVIOUS
    <3>2. PICK r : r = reg
      OBVIOUS
    <3>3. Agree(ls, r) /\ r[w] = None
      BY <1>1, <2>1, <3>1, <3>2
    <3>4. /\ Agree(subscribe(ls, d, w), [r EXCEPT ![w] = d])
          /\ Ticks(ls) /\ ~asleep => Ticks(subscribe(ls, d, w))
      BY <2>1, <3>3, SubscribeAgrees
    <3> QED
      BY <1>2, <2>2, <3>1, <3>2, <3>4
  <2>4. Registry'
    BY <1>1, <2>3 DEF Registry, Awake, power
  <2> QED
    BY <1>2, <2>4 DEF OnlyWindow, TypeOK
<1>3. CASE /\ links' = Stopped(w)
           /\ registration' = [registration EXCEPT ![w] = None]
           /\ frame_requested' = [frame_requested EXCEPT ![w] = FALSE]
           /\ failed' = failed \union {w}
  <2>1. Registry'
    BY <1>1, <1>3 DEF Registry, Awake, power
  <2> QED
    BY <1>3, <2>1 DEF OnlyWindow, TypeOK
<1>4. CASE (~shown \/ d = None) /\ stop_display_link(w)
  BY <1>4, StopEffect
<1> QED
  BY <1>2, <1>3, <1>4 DEF start_display_link

-----------------------------------------------------------------------------
\* Steps that leave the registry alone.
LEMMA SameRegistry ==
    ASSUME Registry, UNCHANGED <<links, registration, power>>
    PROVE  Registry'
BY DEF Registry, Awake, power

\* request_frame sets the latch of its window; a request that was not latched
\* queues a restart task.
LEMMA RequestEffect ==
    ASSUME TypeOK, NEW w \in Windows, request_frame(w)
    PROVE  /\ UNCHANGED <<links, registration, failed>>
           /\ frame_requested' \in [Windows -> BOOLEAN]
           /\ frame_requested'[w] = TRUE
           /\ \A v \in Windows \ {w} : frame_requested'[v] = frame_requested[v]
           /\ restarts \subseteq restarts' /\ restarts' \subseteq Windows
           /\ frame_requested[w] \/ w \in restarts'
BY DEF request_frame, TypeOK

LEMMA CountedType ==
    ASSUME TypeOK, Counted
    PROVE  ops' \in 0..MaxOps
BY OpsAssumption DEF TypeOK, Counted

\* What start and stop leave behind is of the right type.
SourceType ==
    /\ links' \in [Displays -> Link]
    /\ \A d \in Displays : links'[d].ticking => links'[d].running
    /\ registration' \in [Windows -> Displays \union {None}]
    /\ frame_requested' \in [Windows -> BOOLEAN]
    /\ failed' \subseteq Windows

LEMMA SourceTyped ==
    ASSUME NEW w \in Windows, Registry', OnlyWindow(w)
    PROVE  SourceType
BY DEF Registry, Agree, OnlyWindow, SourceType

\* The calls of user code.
LEMMA UserCallKeeps ==
    ASSUME IInv, UserCall
    PROVE  IInv'
<1> SUFFICES ASSUME NEW w \in Windows,
                    \/ Invalidate(w) \/ InvalidateDropped(w) \/ OnNextFrame(w)
                    \/ HighRateInput(w) \/ HighRateEnds(w) \/ DrawForKey(w)
                    \/ \E how \in {"dropped", "closed"} : DropWindow(w, how)
             PROVE  IInv'
  BY DEF UserCall
<1> USE DEF IInv
<1>1. CASE \/ Invalidate(w) \/ InvalidateDropped(w) \/ OnNextFrame(w)
           \/ HighRateInput(w)
  <2>1. /\ request_frame(w) /\ Counted
        /\ UNCHANGED <<signalled, appkit, needs_present, frame, power>>
        /\ dirty' \in {dirty, dirty \union {w}}
        /\ callbacks' \in {callbacks, callbacks \union {w}}
        /\ high_rate' \in {high_rate, high_rate \union {w}}
    BY <1>1 DEF Invalidate, InvalidateDropped, OnNextFrame, HighRateInput, work
  <2>2. Registry'
    BY <2>1, RequestEffect, SameRegistry
  <2>3. TypeOK'
    BY <2>1, RequestEffect, CountedType DEF TypeOK, appkit, power
  <2>4. Alive'
    BY <2>1, RequestEffect DEF Alive, appkit
  <2>5. RequestIsServed'
    BY <2>1, RequestEffect DEF RequestIsServed, appkit
  <2>6. WorkRequested'
    BY <2>1, RequestEffect DEF WorkRequested, Showing, Pending, InSync, appkit
  <2> QED
    BY <2>2, <2>3, <2>4, <2>5, <2>6
<1>2. CASE HighRateEnds(w) \/ DrawForKey(w)
  <2>1. Registry'
    BY <1>2, SameRegistry DEF HighRateEnds, DrawForKey, source
  <2>2. TypeOK'
    BY <1>2 DEF TypeOK, HighRateEnds, DrawForKey, source, appkit, power
  <2>3. Alive' /\ RequestIsServed'
    BY <1>2 DEF Alive, RequestIsServed, HighRateEnds, DrawForKey, source, appkit
  <2>4. WorkRequested'
    BY <1>2 DEF WorkRequested, Showing, Pending, InSync, HighRateEnds, DrawForKey,
                source, appkit
  <2> QED
    BY <2>1, <2>2, <2>3, <2>4
<1>3. CASE \E how \in {"dropped", "closed"} : DropWindow(w, how)
  <2>1. PICK how \in {"dropped", "closed"} : DropWindow(w, how)
    BY <1>3
  <2>2. /\ Registry' /\ OnlyWindow(w)
        /\ registration'[w] = None /\ frame_requested'[w] = FALSE
    BY <2>1, StopEffect DEF DropWindow
  <2>3. status' = [status EXCEPT ![w] = how]
    BY <2>1 DEF DropWindow
  <2>4. TypeOK'
    <3>1. SourceType /\ ops' \in 0..MaxOps
      BY <2>1, <2>2, SourceTyped, CountedType DEF DropWindow
    <3>2. status' \in [Windows -> {"open", "dropped", "closed", "gone"}]
      BY <2>3 DEF TypeOK
    <3> QED
      BY <2>1, <3>1, <3>2 DEF TypeOK, SourceType, DropWindow, power, work
  <2>5. Alive'
    BY <2>1, <2>2, <2>3 DEF TypeOK, Alive, DropWindow, OnlyWindow
  <2>6. RequestIsServed'
    BY <2>1, <2>2, <2>3 DEF TypeOK, RequestIsServed, DropWindow, OnlyWindow
  <2>7. WorkRequested'
    BY <2>1, <2>2, <2>3 DEF TypeOK, WorkRequested, Showing, Pending, InSync, DropWindow,
                            OnlyWindow, work
  <2> QED
    BY <2>2, <2>4, <2>5, <2>6, <2>7
<1> QED
  BY <1>1, <1>2, <1>3

\* The events of AppKit.
LEMMA EventKeeps ==
    ASSUME IInv, Event
    PROVE  IInv'
<1> USE DEF IInv
<1>1. ASSUME NEW w \in Windows, ChangeOcclusion(w) PROVE IInv'
  <2>1. visible' = [visible EXCEPT ![w] = ~visible[w]]
    BY <1>1 DEF ChangeOcclusion
  <2>2. /\ Registry' /\ OnlyWindow(w)
        /\ frame_requested'[w] => registration'[w] # None
        /\ ~visible[w] /\ screen[w] # None => registration'[w] # None \/ w \in failed'
    <3>1. CASE visible[w]
      BY <1>1, <3>1, StopEffect DEF ChangeOcclusion
    <3>2. CASE ~visible[w]
      <4>1. start_display_link(w, TRUE, screen[w]) /\ UNCHANGED power
        BY <1>1, <3>2 DEF ChangeOcclusion
      <4>2. screen[w] \in Displays \union {None}
        BY DEF TypeOK
      <4> QED
        BY <3>2, <4>1, <4>2, StartEffect
    <3> QED
      BY <3>1, <3>2
  <2>3. TypeOK'
    <3>1. SourceType /\ ops' \in 0..MaxOps
      BY <1>1, <2>2, SourceTyped, CountedType DEF ChangeOcclusion
    <3>2. visible' \in [Windows -> BOOLEAN]
      BY <2>1 DEF TypeOK
    <3> QED
      BY <1>1, <3>1, <3>2 DEF TypeOK, SourceType, ChangeOcclusion, power, work
  <2>4. Alive'
    BY <1>1, <2>2 DEF Alive, ChangeOcclusion, OnlyWindow
  <2>5. RequestIsServed'
    BY <1>1, <2>1, <2>2 DEF TypeOK, RequestIsServed, ChangeOcclusion, OnlyWindow
  <2>6. WorkRequested'
    BY <1>1, <2>1, <2>2 DEF TypeOK, WorkRequested, Showing, Pending, InSync,
                            ChangeOcclusion, OnlyWindow, work
  <2> QED
    BY <2>2, <2>3, <2>4, <2>5, <2>6
<1>2. ASSUME NEW w \in Windows, NEW d \in Displays \union {None}, ChangeScreen(w, d)
      PROVE  IInv'
  <2>1. screen' = [screen EXCEPT ![w] = d]
    BY <1>2 DEF ChangeScreen
  <2>2. /\ Registry' /\ OnlyWindow(w)
        /\ frame_requested'[w] => registration'[w] # None
        /\ visible[w] /\ d # None => registration'[w] # None \/ w \in failed'
    <3>1. visible[w] \in BOOLEAN
      BY DEF TypeOK
    <3> QED
      BY <1>2, <3>1, StartEffect DEF ChangeScreen
  <2>3. TypeOK'
    <3>1. SourceType /\ ops' \in 0..MaxOps
      BY <1>2, <2>2, SourceTyped, CountedType DEF ChangeScreen
    <3>2. screen' \in [Windows -> Displays \union {None}]
      BY <2>1 DEF TypeOK
    <3> QED
      BY <1>2, <3>1, <3>2 DEF TypeOK, SourceType, ChangeScreen, power, work
  <2>4. Alive'
    BY <1>2, <2>2 DEF Alive, ChangeScreen, OnlyWindow
  <2>5. RequestIsServed'
    BY <1>2, <2>2 DEF TypeOK, RequestIsServed, ChangeScreen, OnlyWindow
  <2>6. WorkRequested'
    BY <1>2, <2>1, <2>2 DEF TypeOK, WorkRequested, Showing, Pending, InSync,
                            ChangeScreen, OnlyWindow, work
  <2> QED
    BY <2>2, <2>3, <2>4, <2>5, <2>6
<1>3. ASSUME NEW w \in Windows, SyncFrame(w) PROVE IInv'
  <2>1. /\ Registry' /\ OnlyWindow(w)
        /\ registration'[w] = None /\ frame_requested'[w] = FALSE
    BY <1>3, StopEffect DEF SyncFrame
  <2>2. /\ frame = None /\ frame' \in Frame /\ frame' # None
        /\ frame'.window = w /\ frame'.sync = TRUE
    <3>1. frame' = [window |-> w, sync |-> TRUE, stage |-> "begin"]
      BY <1>3 DEF SyncFrame
    <3>2. frame' \in Frame
      BY <3>1 DEF Frame
    <3> QED
      <4>1. frame = None
        BY <1>3 DEF SyncFrame, MainIdle
      <4>2. frame' # None
        BY <3>2, DisplayAssumption
      <4>3. frame'.window = w /\ frame'.sync = TRUE
        BY <3>1
      <4> QED
        BY <3>2, <4>1, <4>2, <4>3
  <2>3. TypeOK'
    <3>1. SourceType /\ ops' \in 0..MaxOps
      BY <1>3, <2>1, SourceTyped, CountedType DEF SyncFrame
    <3> QED
      BY <1>3, <2>2, <3>1 DEF TypeOK, SourceType, SyncFrame, power, work, appkit
  <2>4. Alive'
    BY <1>3, <2>1, <2>2 DEF Alive, SyncFrame, OnlyWindow, appkit
  <2>5. RequestIsServed'
    BY <1>3, <2>1 DEF RequestIsServed, SyncFrame, OnlyWindow, appkit
  <2>6. WorkRequested'
    BY <1>3, <2>1, <2>2 DEF WorkRequested, Showing, Pending, InSync, SyncFrame,
                            OnlyWindow, work, appkit
  <2> QED
    BY <2>1, <2>3, <2>4, <2>5, <2>6
<1>4. CASE Sleep
  <2>1. \A d \in Displays :
           /\ links'[d] \in Link
           /\ links'[d].subscribers = links[d].subscribers
           /\ links'[d].running = links[d].running
           /\ links'[d].ticking = FALSE
    <3> SUFFICES ASSUME NEW d \in Displays
                 PROVE  /\ links'[d] \in Link
                        /\ links'[d].subscribers = links[d].subscribers
                        /\ links'[d].running = links[d].running
                        /\ links'[d].ticking = FALSE
      OBVIOUS
    <3>1. /\ links[d].subscribers \in SUBSET Windows /\ links[d].running \in BOOLEAN
          /\ links[d].stopping \in BOOLEAN
      BY DEF TypeOK, Link
    <3>2. links'[d] = Entry(links[d].subscribers, links[d].running, FALSE,
                            links[d].stopping)
      BY <1>4 DEF Sleep
    <3> QED
      BY <3>1, <3>2 DEF Entry, Link
  <2>2. links' \in [Displays -> Link] /\ asleep' = TRUE
        /\ UNCHANGED <<registration, frame_requested, failed, signalled, restarts,
                       appkit, work, frame, wake_queued>>
    BY <1>4, <2>1 DEF Sleep
  <2>3. Registry'
    BY <2>1, <2>2 DEF Registry, Agree, Awake
  <2>4. TypeOK'
    <3>1. ops' \in 0..MaxOps
      BY <1>4, CountedType DEF Sleep
    <3> QED
      BY <2>1, <2>2, <3>1 DEF TypeOK, appkit, work
  <2>5. Alive' /\ RequestIsServed'
    BY <2>2 DEF Alive, RequestIsServed, appkit
  <2>6. WorkRequested'
    BY <2>2 DEF WorkRequested, Showing, Pending, InSync, appkit, work
  <2> QED
    BY <2>3, <2>4, <2>5, <2>6
<1>5. CASE Wake
  <2>1. Registry'
    BY <1>5 DEF Wake, Registry, Awake, source
  <2>2. TypeOK'
    BY <1>5 DEF TypeOK, Wake, source, appkit, work
  <2>3. Alive' /\ RequestIsServed'
    BY <1>5 DEF Wake, Alive, RequestIsServed, appkit, source
  <2>4. WorkRequested'
    BY <1>5 DEF Wake, WorkRequested, Showing, Pending, InSync, appkit, work, source
  <2> QED
    BY <2>1, <2>2, <2>3, <2>4
<1> QED
  BY <1>1, <1>2, <1>3, <1>4, <1>5 DEF Event

\* The tasks of the main thread, except the restart after a wake.
LEMMA TaskKeeps ==
    ASSUME IInv, NEW w \in Windows,
           RestartTask(w) \/ CloseTask(w) \/ Deallocate(w) \/ Step(w)
    PROVE  IInv'
<1> USE DEF IInv
<1>1. CASE RestartTask(w)
  <2>1. /\ restarts' = restarts \ {w} /\ frame = None
        /\ UNCHANGED <<signalled, appkit, work, frame, power, ops>>
    BY <1>1 DEF RestartTask, MainIdle
  <2>2. CASE /\ status[w] \in {"open", "dropped"}
             /\ frame_requested[w]
             /\ registration[w] = None
    <3>1. /\ Registry' /\ OnlyWindow(w)
          /\ frame_requested'[w] => registration'[w] # None
          /\ visible[w] /\ screen[w] # None => registration'[w] # None \/ w \in failed'
      <4>1. start_display_link(w, visible[w], screen[w])
        BY <1>1, <2>2 DEF RestartTask
      <4>2. visible[w] \in BOOLEAN /\ screen[w] \in Displays \union {None}
        BY DEF TypeOK
      <4> QED
        BY <2>1, <4>1, <4>2, StartEffect
    <3>2. TypeOK'
      <4>1. SourceType
        BY <3>1, SourceTyped
      <4> QED
        BY <2>1, <4>1 DEF TypeOK, SourceType, power, work, appkit
    <3>3. Alive'
      BY <2>1, <2>2, <3>1 DEF Alive, OnlyWindow, appkit
    <3>4. RequestIsServed'
      BY <2>1, <3>1 DEF RequestIsServed, OnlyWindow, appkit
    <3>5. WorkRequested'
      BY <2>1, <3>1 DEF WorkRequested, Showing, Pending, InSync, OnlyWindow, appkit, work
    <3> QED
      BY <3>1, <3>2, <3>3, <3>4, <3>5
  <2>3. CASE ~(/\ status[w] \in {"open", "dropped"}
               /\ frame_requested[w]
               /\ registration[w] = None)
    <3>1. UNCHANGED source
      BY <1>1, <2>3 DEF RestartTask
    <3>2. Registry'
      BY <2>1, <3>1, SameRegistry DEF source
    <3>3. TypeOK'
      BY <2>1, <3>1 DEF TypeOK, source, power, work, appkit
    <3>4. Alive'
      BY <2>1, <3>1 DEF Alive, source, appkit
    <3>5. RequestIsServed'
      BY <2>1, <2>3, <3>1 DEF RequestIsServed, source, appkit
    <3>6. WorkRequested'
      BY <2>1, <3>1 DEF WorkRequested, Showing, Pending, InSync, source, appkit, work
    <3> QED
      BY <3>2, <3>3, <3>4, <3>5, <3>6
  <2> QED
    BY <2>2, <2>3
<1>2. CASE CloseTask(w)
  <2>1. /\ status' = [status EXCEPT ![w] = "closed"] /\ frame = None
        /\ status[w] = "dropped"
        /\ UNCHANGED <<source, signalled, restarts, visible, screen, work, frame, power,
                       ops>>
    BY <1>2 DEF CloseTask, MainIdle
  <2>2. Registry'
    BY <2>1, SameRegistry DEF source
  <2>3. TypeOK'
    <3>1. status' \in [Windows -> {"open", "dropped", "closed", "gone"}]
      BY <2>1 DEF TypeOK
    <3> QED
      BY <2>1, <3>1 DEF TypeOK, source, power, work
  <2>4. Alive' /\ RequestIsServed'
    BY <2>1 DEF TypeOK, Alive, RequestIsServed, source
  <2>5. WorkRequested'
    BY <2>1 DEF TypeOK, WorkRequested, Showing, Pending, InSync, source, work
  <2> QED
    BY <2>2, <2>3, <2>4, <2>5
<1>3. CASE Deallocate(w)
  <2>1. /\ Registry' /\ OnlyWindow(w)
        /\ registration'[w] = None /\ frame_requested'[w] = FALSE
    BY <1>3, StopEffect DEF Deallocate
  <2>2. /\ status' = [status EXCEPT ![w] = "gone"] /\ frame = None
        /\ signalled' = signalled \ {w} /\ restarts' = restarts \ {w}
        /\ UNCHANGED <<visible, screen, work, frame, power, ops>>
    BY <1>3 DEF Deallocate, MainIdle
  <2>3. TypeOK'
    <3>1. SourceType
      BY <2>1, SourceTyped
    <3>2. status' \in [Windows -> {"open", "dropped", "closed", "gone"}]
      BY <2>2 DEF TypeOK
    <3> QED
      BY <2>2, <3>1, <3>2 DEF TypeOK, SourceType, power, work
  <2>4. Alive' /\ RequestIsServed'
    BY <2>1, <2>2 DEF TypeOK, Alive, RequestIsServed, OnlyWindow
  <2>5. WorkRequested'
    BY <2>1, <2>2 DEF TypeOK, WorkRequested, Showing, Pending, InSync, OnlyWindow, work
  <2> QED
    BY <2>1, <2>3, <2>4, <2>5
<1>4. CASE Step(w)
  <2>1. /\ frame' = [window |-> w, sync |-> FALSE, stage |-> "begin"] /\ frame = None
        /\ w \in signalled /\ signalled' = signalled \ {w}
        /\ UNCHANGED <<source, restarts, appkit, work, power, ops>>
    BY <1>4 DEF Step, MainIdle
  <2>2. frame' \in Frame /\ frame'.window = w
    BY <2>1 DEF Frame
  <2>3. Registry'
    BY <2>1, SameRegistry DEF source
  <2>4. TypeOK'
    BY <2>1, <2>2 DEF TypeOK, source, power, work, appkit
  <2>5. Alive' /\ RequestIsServed'
    BY <2>1, <2>2 DEF Alive, RequestIsServed, source, appkit
  <2>6. WorkRequested'
    BY <2>1 DEF WorkRequested, Showing, Pending, InSync, source, work, appkit
  <2> QED
    BY <2>3, <2>4, <2>5, <2>6
<1> QED
  BY <1>1, <1>2, <1>3, <1>4

\* The restart after a wake: every link has the subscribers that started.
LEMMA RestartKeeps ==
    ASSUME IInv, restart_frame_sources
    PROVE  IInv'
<1> USE DEF IInv
<1> DEFINE on(S, d) == {w \in S : screen[w] = d}
<1>1. PICK started \in SUBSET Restartable :
         /\ links' = [d \in Displays |->
               Entry(on(started, d), on(started, d) # {}, on(started, d) # {} /\ ~asleep,
                     links[d].stopping \/ links[d].running)]
         /\ registration' = [w \in Windows |->
               IF w \in started THEN screen[w] ELSE None]
         /\ frame_requested' = [w \in Windows |->
               IF WindowAlive(w) THEN w \in started ELSE frame_requested[w]]
         /\ failed' = (failed \ started) \union (Restartable \ started)
  BY DEF restart_frame_sources
<1>2. /\ frame = None /\ wake_queued' = FALSE
      /\ UNCHANGED <<signalled, restarts, appkit, work, frame, asleep, ops>>
  BY DEF restart_frame_sources, MainIdle
<1>3. \A d \in Displays :
         /\ links'[d] \in Link
         /\ links'[d].subscribers = on(started, d)
         /\ links'[d].running <=> on(started, d) # {}
         /\ links'[d].ticking <=> on(started, d) # {} /\ ~asleep
  <2> SUFFICES ASSUME NEW d \in Displays
               PROVE  /\ links'[d] \in Link
                      /\ links'[d].subscribers = on(started, d)
                      /\ links'[d].running <=> on(started, d) # {}
                      /\ links'[d].ticking <=> on(started, d) # {} /\ ~asleep
    OBVIOUS
  <2>1. PICK s : s = on(started, d)
    OBVIOUS
  <2>2. s \in SUBSET Windows
    BY <2>1 DEF Restartable
  <2>3. PICK p : p = (links[d].stopping \/ links[d].running)
    OBVIOUS
  <2>4. p \in BOOLEAN
    BY <2>3
  <2>5. links'[d] = Entry(s, s # {}, s # {} /\ ~asleep, p)
    BY <1>1, <2>1, <2>3
  <2> HIDE DEF on
  <2>6. CASE s = {}
    <3>1. links'[d] = Entry({}, FALSE, FALSE, p)
      BY <2>5, <2>6
    <3> QED
      BY <2>1, <2>4, <2>6, <3>1 DEF Entry, Link
  <2>7. CASE s # {} /\ asleep
    <3>1. links'[d] = Entry(s, TRUE, FALSE, p)
      BY <2>5, <2>7
    <3> QED
      BY <2>1, <2>2, <2>4, <2>7, <3>1 DEF Entry, Link
  <2>8. CASE s # {} /\ ~asleep
    <3>1. links'[d] = Entry(s, TRUE, TRUE, p)
      BY <2>5, <2>8
    <3> QED
      BY <2>1, <2>2, <2>4, <2>8, <3>1 DEF Entry, Link
  <2> QED
    BY <2>6, <2>7, <2>8
<1>4. links' \in [Displays -> Link]
  BY <1>1, <1>3
<1>5. /\ registration' \in [Windows -> Displays \union {None}]
      /\ \A w \in Windows : registration'[w] = IF w \in started THEN screen[w] ELSE None
      /\ \A w \in started : screen[w] # None
  BY <1>1 DEF TypeOK, Restartable
<1>6. Registry'
  <2>1. \A w \in Windows, d \in Displays :
           w \in links'[d].subscribers <=> registration'[w] = d
    BY <1>3, <1>5, DisplayAssumption
  <2>2. Agree(links', registration')
    BY <1>3, <1>4, <1>5, <2>1 DEF Agree
  <2>3. Awake' => Ticks(links')
    BY <1>2, <1>3 DEF Awake, Ticks
  <2> QED
    BY <2>2, <2>3 DEF Registry
<1>7. /\ frame_requested' \in [Windows -> BOOLEAN]
      /\ \A w \in Windows : status[w] = "open" => (frame_requested'[w] <=> w \in started)
  <2>1. \A w \in Windows :
           /\ status[w] # "gone" /\ w \in started => frame_requested'[w] = TRUE
           /\ status[w] # "gone" /\ w \notin started => frame_requested'[w] = FALSE
           /\ status[w] = "gone" => frame_requested'[w] = frame_requested[w]
    <3> SUFFICES ASSUME NEW w \in Windows
                 PROVE  /\ status[w] # "gone" /\ w \in started => frame_requested'[w] = TRUE
                        /\ status[w] # "gone" /\ w \notin started => frame_requested'[w] = FALSE
                        /\ status[w] = "gone" => frame_requested'[w] = frame_requested[w]
      OBVIOUS
    <3>1. frame_requested' = [v \in Windows |->
             IF WindowAlive(v) THEN v \in started ELSE frame_requested[v]]
      BY <1>1
    <3>2. frame_requested'[w] = IF WindowAlive(w) THEN w \in started ELSE frame_requested[w]
      BY <3>1, Zenon
    <3>3. w \in started => (w \in started) = TRUE
      OBVIOUS
    <3>4. w \notin started => (w \in started) = FALSE
      OBVIOUS
    <3>5. CASE WindowAlive(w)
      <4>1. frame_requested'[w] = (w \in started)
        BY <3>2, <3>5, Zenon
      <4> QED
        BY <3>3, <3>4, <3>5, <4>1, Zenon DEF WindowAlive
    <3>6. CASE ~WindowAlive(w)
      <4>1. frame_requested'[w] = frame_requested[w]
        BY <3>2, <3>6, Zenon
      <4> QED
        BY <3>6, <4>1, Zenon DEF WindowAlive
    <3> QED
      BY <3>5, <3>6
  <2>2. \A w \in Windows : frame_requested'[w] \in BOOLEAN
    BY <2>1 DEF TypeOK
  <2>3. frame_requested' = [w \in Windows |-> frame_requested'[w]]
    BY <1>1
  <2>4. frame_requested' \in [Windows -> BOOLEAN]
    BY <2>2, <2>3
  <2> QED
    BY <2>1, <2>4
<1>8. TypeOK'
  <2>1. failed' \subseteq Windows
    BY <1>1 DEF TypeOK, Restartable
  <2>2. \A d \in Displays : links'[d].ticking => links'[d].running
    BY <1>3
  <2> QED
    BY <1>2, <1>4, <1>5, <1>7, <2>1, <2>2 DEF TypeOK, appkit, work
<1>9. Alive'
  BY <1>2, <1>5 DEF Alive, Restartable, appkit
<1>10. RequestIsServed'
  BY <1>2, <1>5, <1>7 DEF RequestIsServed, appkit
<1>11. WorkRequested'
  BY <1>1, <1>2, <1>5 DEF WorkRequested, Showing, Restartable, appkit
<1> QED
  BY <1>6, <1>8, <1>9, <1>10, <1>11

\* The frame callback.
LEMMA FrameKeeps ==
    ASSUME IInv, FrameStep
    PROVE  IInv'
<1> USE DEF IInv
<1> DEFINE w == frame.window
<1>1. /\ frame # None /\ frame \in Frame
      /\ w \in Windows /\ frame.sync \in BOOLEAN /\ status[w] # "gone"
      /\ visible[w] \in BOOLEAN /\ screen[w] \in Displays \union {None}
  <2>1. frame # None
    BY DEF FrameStep, At, Throttle, TakeCallbacks, BeginDraw, EndDraw, EndFrame
  <2>2. frame \in Frame
    BY <2>1 DEF TypeOK
  <2> QED
    BY <2>1, <2>2 DEF TypeOK, Alive, Frame
<1>2. CASE TakeCallbacks \/ BeginDraw
  <2>1. UNCHANGED <<source, signalled, restarts, appkit, high_rate, power, ops>>
    BY <1>2 DEF TakeCallbacks, BeginDraw
  <2>2. /\ frame' \in Frame /\ frame'.window = w /\ frame'.sync = frame.sync
    BY <1>1, <1>2 DEF TakeCallbacks, BeginDraw, Frame
  <2>3. /\ dirty' \subseteq dirty /\ needs_present' \subseteq needs_present
        /\ callbacks' \subseteq callbacks
    BY <1>2 DEF TakeCallbacks, BeginDraw
  <2> HIDE DEF w
  <2>4. frame' # None
    BY <2>2, DisplayAssumption
  <2>5. Registry'
    BY <2>1, SameRegistry DEF source
  <2>6. TypeOK'
    BY <2>1, <2>2, <2>3 DEF TypeOK, source, power, appkit
  <2>7. Alive' /\ RequestIsServed'
    BY <1>1, <2>1, <2>2 DEF Alive, RequestIsServed, source, appkit
  <2>8. WorkRequested'
    BY <2>1, <2>2, <2>3, <2>4 DEF WorkRequested, Showing, Pending, InSync, source, appkit, w
  <2> QED
    BY <2>5, <2>6, <2>7, <2>8
<1>3. ASSUME NEW b \in BOOLEAN, EndDraw(b) PROVE IInv'
  <2>1. /\ UNCHANGED <<signalled, appkit, callbacks, high_rate, power>>
        /\ needs_present' = needs_present \ {w}
    BY <1>3 DEF EndDraw
  <2>2. /\ frame' \in Frame /\ frame'.window = w /\ frame'.sync = frame.sync
    BY <1>1, <1>3 DEF EndDraw, Frame
  <2>3. \/ /\ Counted /\ dirty' = dirty \union {w} /\ request_frame(w)
        \/ UNCHANGED <<dirty, source, restarts, ops>>
    BY <1>3 DEF EndDraw
  <2> HIDE DEF w
  <2>4. frame' # None
    BY <2>2, DisplayAssumption
  <2>5. CASE Counted /\ dirty' = dirty \union {w} /\ request_frame(w)
    <3>1. Registry'
      BY <1>1, <2>1, <2>5, RequestEffect, SameRegistry
    <3>2. TypeOK'
      BY <1>1, <2>1, <2>2, <2>5, RequestEffect, CountedType DEF TypeOK, appkit, power
    <3>3. Alive'
      BY <1>1, <2>1, <2>2, <2>5, RequestEffect DEF Alive, appkit
    <3>4. RequestIsServed'
      BY <1>1, <2>1, <2>5, RequestEffect DEF RequestIsServed, appkit
    <3>5. WorkRequested'
      BY <1>1, <2>1, <2>2, <2>4, <2>5, RequestEffect
         DEF WorkRequested, Showing, Pending, InSync, appkit, w
    <3> QED
      BY <3>1, <3>2, <3>3, <3>4, <3>5
  <2>6. CASE UNCHANGED <<dirty, source, restarts, ops>>
    <3>1. Registry'
      BY <2>1, <2>6, SameRegistry DEF source
    <3>2. TypeOK'
      BY <1>1, <2>1, <2>2, <2>6 DEF TypeOK, source, appkit, power
    <3>3. Alive' /\ RequestIsServed'
      BY <1>1, <2>1, <2>2, <2>6 DEF Alive, RequestIsServed, source, appkit
    <3>4. WorkRequested'
      BY <2>1, <2>2, <2>4, <2>6 DEF WorkRequested, Showing, Pending, InSync, source,
                                    appkit, w
    <3> QED
      BY <3>1, <3>2, <3>3, <3>4
  <2> QED
    BY <2>3, <2>5, <2>6
<1>4. CASE Throttle \/ EndFrame
  <2>1. /\ frame' = None /\ UNCHANGED <<signalled, restarts, appkit, work, power>>
        /\ ops' \in 0..MaxOps
    BY <1>4, CountedType DEF Throttle, EndFrame, TypeOK
  <2>2. \/ frame.sync /\ start_display_link(w, visible[w], screen[w])
        \/ ~frame.sync /\ status[w] = "open" /\ Idle(w) /\ stop_display_link(w)
        \/ ~frame.sync /\ UNCHANGED source
    BY <1>4 DEF Throttle, EndFrame
  <2>3. w = frame.window
    OBVIOUS
  <2> HIDE DEF w
  <2>4. CASE \/ frame.sync /\ start_display_link(w, visible[w], screen[w])
             \/ status[w] = "open" /\ Idle(w) /\ ~frame.sync /\ stop_display_link(w)
    <3>1. /\ Registry' /\ OnlyWindow(w)
          /\ frame_requested'[w] => registration'[w] # None
          /\ \/ visible[w] /\ screen[w] # None => registration'[w] # None \/ w \in failed'
             \/ ~Pending(w)
      <4>1. CASE frame.sync /\ start_display_link(w, visible[w], screen[w])
        BY <1>1, <2>1, <4>1, StartEffect
      <4>2. CASE Idle(w) /\ stop_display_link(w)
        <5>1. ~Pending(w)
          BY <4>2 DEF Idle, Pending
        <5> QED
          BY <1>1, <2>1, <4>2, <5>1, StopEffect
      <4> QED
        BY <2>4, <4>1, <4>2
    <3>2. TypeOK'
      <4>1. SourceType
        BY <1>1, <3>1, SourceTyped
      <4> QED
        BY <2>1, <4>1 DEF TypeOK, SourceType, power, work, appkit
    <3>3. Alive'
      BY <1>1, <2>1, <3>1 DEF Alive, OnlyWindow, appkit
    <3>4. RequestIsServed'
      BY <2>1, <3>1 DEF RequestIsServed, OnlyWindow, appkit
    <3>5. WorkRequested'
      BY <1>1, <2>1, <2>3, <3>1 DEF WorkRequested, Showing, Pending, InSync, OnlyWindow,
                                    appkit, work
    <3> QED
      BY <3>1, <3>2, <3>3, <3>4, <3>5
  <2>5. CASE ~frame.sync /\ UNCHANGED source
    <3>1. Registry'
      BY <2>1, <2>5, SameRegistry DEF source
    <3>2. TypeOK'
      BY <2>1, <2>5 DEF TypeOK, source, appkit, power, work
    <3>3. Alive' /\ RequestIsServed'
      BY <2>1, <2>5 DEF Alive, RequestIsServed, source, appkit
    <3>4. WorkRequested'
      BY <2>1, <2>5 DEF WorkRequested, Showing, Pending, InSync, source, appkit, work
    <3> QED
      BY <3>1, <3>2, <3>3, <3>4
  <2> QED
    BY <2>2, <2>4, <2>5
<1> QED
  BY <1>2, <1>3, <1>4 DEF FrameStep

\* The output callback of a display: only subscribers are signalled, and they
\* live.
LEMMA OutputKeeps ==
    ASSUME IInv, NEW d \in Displays, OutputCallback(d)
    PROVE  IInv'
<1> USE DEF IInv
<1>1. /\ UNCHANGED <<registration, frame_requested, failed, restarts, appkit, work,
                     frame, power, ops>>
      /\ signalled' = signalled \union {w \in links[d].subscribers : frame_requested[w]}
  BY DEF OutputCallback
<1>2. /\ links' \in [Displays -> Link]
      /\ \A e \in Displays : /\ links'[e].subscribers = links[e].subscribers
                             /\ links'[e].running = links[e].running
                             /\ links'[e].ticking <=> links[e].ticking
  <2>1. CASE links[d].ticking
    <3>1. links' = links
      BY <2>1 DEF OutputCallback
    <3> QED
      BY <3>1 DEF TypeOK
  <2>2. CASE ~links[d].ticking
    <3>1. links' = [links EXCEPT ![d] = Entry(links[d].subscribers, links[d].running,
                                              FALSE, FALSE)]
      BY <2>2 DEF OutputCallback
    <3>2. links[d].subscribers \in SUBSET Windows /\ links[d].running \in BOOLEAN
      BY DEF TypeOK, Link
    <3>3. PICK new : new = Entry(links[d].subscribers, links[d].running, FALSE, FALSE)
      OBVIOUS
    <3>4. /\ new \in Link /\ new.subscribers = links[d].subscribers
          /\ new.running = links[d].running /\ new.ticking = FALSE
      BY <3>2, <3>3 DEF Entry, Link
    <3>5. links' = [links EXCEPT ![d] = new]
      BY <3>1, <3>3
    <3> QED
      BY <2>2, <3>4, <3>5 DEF TypeOK
  <2> QED
    BY <2>1, <2>2
<1>3. Registry'
  <2>1. Agree(links', registration')
    BY <1>1, <1>2 DEF Registry, Agree
  <2>2. Ticks(links) => Ticks(links')
    BY <1>2 DEF Ticks
  <2> QED
    BY <1>1, <2>1, <2>2 DEF Registry, Awake, power
<1>4. links[d].subscribers \subseteq Windows
  BY DEF TypeOK, Link
<1>5. TypeOK'
  BY <1>1, <1>2, <1>4 DEF TypeOK, appkit, work, power
<1>6. Alive'
  <2>1. \A w \in links[d].subscribers : status[w] # "gone"
    BY <1>4, DisplayAssumption DEF Registry, Agree, Alive
  <2> QED
    BY <1>1, <2>1 DEF Alive, appkit
<1>7. RequestIsServed'
  BY <1>1 DEF RequestIsServed, appkit
<1>8. WorkRequested'
  BY <1>1 DEF WorkRequested, Showing, Pending, InSync, appkit, work
<1> QED
  BY <1>3, <1>5, <1>6, <1>7, <1>8

-----------------------------------------------------------------------------
LEMMA InitIInv ==
    ASSUME Init
    PROVE  IInv
<1>1. \A d \in Displays : /\ links[d] \in Link
                          /\ links[d].subscribers = {} /\ links[d].running = FALSE
                          /\ links[d].ticking = FALSE
  BY DEF Init, Entry, Link
<1>2. links \in [Displays -> Link]
  BY <1>1 DEF Init
<1>3. TypeOK
  <2>1. 0 \in 0..MaxOps
    BY OpsAssumption
  <2>2. /\ registration \in [Windows -> Displays \union {None}]
        /\ frame_requested \in [Windows -> BOOLEAN]
        /\ visible \in [Windows -> BOOLEAN]
        /\ screen \in [Windows -> Displays \union {None}]
        /\ status \in [Windows -> {"open", "dropped", "closed", "gone"}]
    BY DEF Init
  <2>3. \A d \in Displays : links[d].ticking => links[d].running
    BY <1>1
  <2> QED
    BY <1>2, <2>1, <2>2, <2>3 DEF Init, TypeOK
<1>4. Registry
  BY <1>1, <1>2, DisplayAssumption DEF Init, Registry, Agree, Ticks
<1>5. Alive /\ RequestIsServed /\ WorkRequested
  BY DEF Init, Alive, RequestIsServed, WorkRequested, Showing
<1> QED
  BY <1>3, <1>4, <1>5 DEF IInv

LEMMA NextIInv ==
    ASSUME IInv, [Next]_vars
    PROVE  IInv'
<1>1. CASE Next
  BY <1>1, UserCallKeeps, EventKeeps, TaskKeeps, RestartKeeps, FrameKeeps, OutputKeeps
     DEF Next, Task
<1>2. CASE UNCHANGED vars
  <2>1. Registry'
    BY <1>2, SameRegistry DEF IInv, vars, source
  <2>2. TypeOK' /\ Alive' /\ RequestIsServed'
    BY <1>2 DEF IInv, TypeOK, Alive, RequestIsServed, vars, source, appkit, work, power
  <2>3. WorkRequested'
    BY <1>2 DEF IInv, WorkRequested, Showing, Pending, InSync, vars, source, appkit, work
  <2> QED
    BY <2>1, <2>2, <2>3 DEF IInv
<1> QED
  BY <1>1, <1>2

\* The inductive invariant holds: the registry agrees with the registrations,
\* a link's flag with its subscribers and, when awake, with the link.
THEOREM Invariant == Spec => []IInv
<1>1. Init => IInv
  BY InitIInv
<1>2. IInv /\ [Next]_vars => IInv'
  BY NextIInv
<1> QED
  BY <1>1, <1>2, PTL DEF Spec

\* The state of registry, windows and frame callback has its type, for any
\* number of windows and displays; a ticking link is marked as running.
THEOREM TypeCorrect == Spec => []TypeOK
<1>1. IInv => TypeOK
  BY DEF IInv
<1> QED
  BY <1>1, Invariant, PTL

\* subscribe, unsubscribe and restart_frame_sources keep the registry and the
\* registrations in agreement.
THEOREM RegistryCorrect == Spec => []RegistryAgrees
<1>1. IInv => RegistryAgrees
  BY DEF IInv, Registry, Agree, RegistryAgrees
<1> QED
  BY <1>1, Invariant, PTL

\* However many windows share a display, its link ticks iff it has
\* subscribers, outside of sleep.
THEOREM LinksCorrect == Spec => []LinkRunsIffSubscribed
<1>1. IInv => LinkRunsIffSubscribed
  <2> SUFFICES ASSUME IInv, ~asleep, ~wake_queued, NEW d \in Displays
               PROVE  links[d].ticking = (links[d].subscribers # {})
    BY DEF LinkRunsIffSubscribed
  <2>1. links[d].ticking <=> links[d].subscribers # {}
    BY DEF IInv, Registry, Agree, Awake, Ticks
  <2>2. links[d].ticking \in BOOLEAN
    BY DEF IInv, TypeOK, Link
  <2> QED
    BY <2>1, <2>2
<1> QED
  BY <1>1, Invariant, PTL

\* No request of frame_requester is latched without a source or a restart
\* task that serves it.
THEOREM RequestsCorrect == Spec => []RequestIsServed
<1>1. IInv => RequestIsServed
  BY DEF IInv
<1> QED
  BY <1>1, Invariant, PTL

\* A pause of the frame requests never meets work that is left.
THEOREM WorkCorrect == Spec => []WorkHasFrames
<1>1. IInv => WorkHasFrames
  BY DEF IInv, WorkRequested, Showing, Pending, InSync, RequestIsServed, WorkHasFrames
<1> QED
  BY <1>1, Invariant, PTL

\* No output callback reaches the source of a deallocated window.
THEOREM GoneCorrect == Spec => []GoneIsUnreachable
<1>1. IInv => GoneIsUnreachable
  BY DisplayAssumption DEF IInv, Registry, Agree, Alive, WindowAlive, GoneIsUnreachable
<1> QED
  BY <1>1, Invariant, PTL

=============================================================================
