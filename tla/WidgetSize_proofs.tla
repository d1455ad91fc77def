-------------------------- MODULE WidgetSize_proofs --------------------------
(***************************************************************************)
(* Proofs about WidgetSize: whatever the views and rectangles, a visible   *)
(* and connected widget has sent its present size and place or awaits the  *)
(* ack after which it will.                                                *)
(*                                                                         *)
(* What is in the channels does not matter for it: the host decides by     *)
(* what it sent last and by its pending flags alone.  So the invariant     *)
(* speaks of the host, its view and the life of the renderer.              *)
(***************************************************************************)
EXTENDS WidgetSize, FiniteSetTheorems, FunctionTheorems, TLAPS

(* Old parameters that differ in no field from the view's are the view's. *)
LEMMA CleanIsSame ==
  ASSUME NEW h \in HostType, NEW v \in Views, ~ Dirty(h, v)
  PROVE  h.old = v
<1>1. h.old # NoParams /\ h.old.size = v.size /\ h.old.backing = v.backing
  BY DEF Dirty, Changed
<1>2. h.old \in Views \cup {Params(None, w.backing) : w \in Views}
  BY <1>1 DEF HostType, OldParams
<1>3. h.old = [size |-> h.old.size, backing |-> h.old.backing]
  BY <1>2, SizeAssumption DEF Params
<1>4. v = [size |-> v.size, backing |-> v.backing]
  BY SizeAssumption
<1> QED BY <1>1, <1>3, <1>4

(* WasResized on a connected host: it awaits an ack or v was sent last, and *)
(* what concerns the rectangles stays as it was. *)
LEMMA WasResizedKnows ==
  ASSUME NEW st, st.h \in HostType, NEW v \in Views
  PROVE  /\ WasResized(st, v).h \in HostType
         /\ life = "up" /\ st.h.renderer_initialized =>
              WasResized(st, v).h.resize_ack_pending \/ WasResized(st, v).h.old = v
         /\ WasResized(st, v).h.hidden = st.h.hidden
         /\ WasResized(st, v).h.renderer_initialized = st.h.renderer_initialized
         /\ WasResized(st, v).h.waiting_for_screen_rects_ack
              = st.h.waiting_for_screen_rects_ack
         /\ WasResized(st, v).h.last_rect = st.h.last_rect
<1>1. CASE MayResize(st.h) /\ Dirty(st.h, v)
  <2> DEFINE ack == NeedsResizeAck(st.h, v)
             g   == [st.h EXCEPT !.resize_ack_pending = ack, !.old = v]
  <2>1. ack \in BOOLEAN
    BY DEF NeedsResizeAck, Drawable
  <2>2. v \in OldParams
    BY DEF OldParams
  <2>3. WasResized(st, v).h = g
    BY <1>1 DEF WasResized, Emit, With
  <2> HIDE DEF ack
  <2>4. /\ g \in HostType /\ g.old = v /\ g.hidden = st.h.hidden
        /\ g.renderer_initialized = st.h.renderer_initialized
        /\ g.waiting_for_screen_rects_ack = st.h.waiting_for_screen_rects_ack
        /\ g.last_rect = st.h.last_rect
    BY <2>1, <2>2 DEF HostType
  <2> QED BY <2>3, <2>4
<1>2. CASE ~ (MayResize(st.h) /\ Dirty(st.h, v))
  <2>1. WasResized(st, v) = st
    BY <1>2 DEF WasResized
  <2>2. ASSUME life = "up", st.h.renderer_initialized
        PROVE  st.h.resize_ack_pending \/ st.h.old = v
    <3>1. st.h.resize_ack_pending \/ ~ Dirty(st.h, v)
      BY <1>2, <2>2 DEF MayResize
    <3> QED BY <3>1, CleanIsSame
  <2> QED BY <2>1, <2>2
<1> QED BY <1>1, <1>2

(* SendScreenRects on a visible, initialised host: it awaits an ack, with r *)
(* sent if it did not before; what concerns the size stays as it was. *)
LEMMA SendScreenRectsKnows ==
  ASSUME NEW st, st.h \in HostType, NEW r \in Rects
  PROVE  /\ SendScreenRects(st, r).h \in HostType
         /\ st.h.renderer_initialized /\ ~ st.h.hidden =>
              SendScreenRects(st, r).h.waiting_for_screen_rects_ack
         /\ SendScreenRects(st, r).h.hidden = st.h.hidden
         /\ SendScreenRects(st, r).h.renderer_initialized = st.h.renderer_initialized
         /\ SendScreenRects(st, r).h.resize_ack_pending = st.h.resize_ack_pending
         /\ SendScreenRects(st, r).h.old = st.h.old
<1> DEFINE may == /\ st.h.renderer_initialized /\ ~ st.h.waiting_for_screen_rects_ack
                  /\ ~ st.h.hidden
<1>1. CASE may
  <2> DEFINE g == [st.h EXCEPT !.waiting_for_screen_rects_ack = TRUE, !.last_rect = r]
  <2>1. SendScreenRects(st, r).h = g
    BY <1>1 DEF SendScreenRects, Emit, With
  <2>2. /\ g \in HostType /\ g.waiting_for_screen_rects_ack /\ g.hidden = st.h.hidden
        /\ g.renderer_initialized = st.h.renderer_initialized
        /\ g.resize_ack_pending = st.h.resize_ack_pending /\ g.old = st.h.old
    BY DEF HostType
  <2> QED BY <2>1, <2>2
<1>2. CASE ~ may
  BY <1>2 DEF SendScreenRects, HostType
<1> QED BY <1>1, <1>2

-----------------------------------------------------------------------------
(* The inductive invariant.  A widget whose renderer has exited is hidden,   *)
(* so that the reload, which sends a size but no rectangles, breaks nothing. *)
Known ==
  /\ view \in Views /\ rect \in Rects /\ host \in HostType
  /\ life = "down" => host.hidden
  /\ SizeKnown /\ RectsKnown

LEMMA KnownInit == Init => Known
<1> SUFFICES ASSUME Init PROVE Known
  OBVIOUS
<1>1. host \in HostType /\ ~ host.renderer_initialized
  BY DEF Init, HostType, OldParams
<1> QED BY <1>1 DEF Init, Known, SizeKnown, RectsKnown, Connected

(* A step that leaves the browser's side alone, or only loses the connection. *)
LEMMA KnownElsewhere ==
  ASSUME Known, UNCHANGED <<view, rect, host>>, life' = life \/ life' = "dying"
  PROVE  Known'
BY DEF Known, SizeKnown, RectsKnown, Connected, HostType, OldParams

(* A handler of the connected or dying browser: what it makes of the host    *)
(* decides.                                                                  *)
LEMMA KnownAfter ==
  ASSUME Known, NEW st, Do(st), st.h \in HostType, UNCHANGED life,
         view' \in Views, rect' \in Rects, life # "down",
         life = "up" /\ st.h.renderer_initialized /\ ~ st.h.hidden =>
           /\ st.h.resize_ack_pending \/ st.h.old = view'
           /\ st.h.waiting_for_screen_rects_ack \/ st.h.last_rect = rect'
  PROVE  Known'
BY DEF Known, SizeKnown, RectsKnown, Connected, HostType, OldParams, Do

LEMMA KnownInitWidget == Known /\ InitWidget => Known'
<1> SUFFICES ASSUME Known, InitWidget PROVE Known'
  OBVIOUS
<1> DEFINE h  == [host EXCEPT !.renderer_initialized = TRUE]
           s1 == SendScreenRects(Step(h), rect)
           s2 == WasResized(s1, view)
<1>1. h \in HostType /\ h.renderer_initialized /\ h.hidden = host.hidden
  BY DEF Known, HostType
<1>2. Step(h).h = h
  BY DEF Step
<1>3. view \in Views /\ rect \in Rects /\ life = "up" /\ Do(s2)
      /\ UNCHANGED <<view, rect, life>>
  BY DEF Known, InitWidget
<1> HIDE DEF h
<1>4. /\ s1.h \in HostType /\ s1.h.renderer_initialized
      /\ ~ s1.h.hidden => s1.h.waiting_for_screen_rects_ack
  BY <1>1, <1>2, <1>3, SendScreenRectsKnows
<1> HIDE DEF s1
<1>5. /\ s2.h \in HostType
      /\ s2.h.resize_ack_pending \/ s2.h.old = view
      /\ ~ s2.h.hidden => s2.h.waiting_for_screen_rects_ack
  BY <1>3, <1>4, WasResizedKnows
<1> HIDE DEF s2
<1> QED BY <1>3, <1>5, KnownAfter

LEMMA KnownViewResized == Known /\ ViewResized => Known'
<1> SUFFICES ASSUME Known, ViewResized PROVE Known'
  OBVIOUS
<1>1. PICK v \in Views : view' = v /\ Do(WasResized(Step(host), v))
  BY DEF ViewResized
<1> DEFINE st == WasResized(Step(host), v)
<1>2. Step(host).h = host /\ host \in HostType
  BY DEF Step, Known
<1>3. /\ st.h \in HostType
      /\ life = "up" /\ host.renderer_initialized =>
           st.h.resize_ack_pending \/ st.h.old = v
      /\ st.h.hidden = host.hidden /\ st.h.last_rect = host.last_rect
      /\ st.h.renderer_initialized = host.renderer_initialized
      /\ st.h.waiting_for_screen_rects_ack = host.waiting_for_screen_rects_ack
  BY <1>2, WasResizedKnows
<1> HIDE DEF st
<1>4. life # "down" /\ UNCHANGED <<rect, life>> /\ rect \in Rects
  BY DEF ViewResized, UserMayAct, Known
<1>5. life = "up" /\ st.h.renderer_initialized /\ ~ st.h.hidden =>
        st.h.waiting_for_screen_rects_ack \/ st.h.last_rect = rect
  BY <1>3 DEF Known, RectsKnown, Connected
<1>6. Do(st) /\ view' = v
  BY <1>1 DEF st
<1> QED BY <1>3, <1>4, <1>5, <1>6, KnownAfter

LEMMA KnownViewMoved == Known /\ ViewMoved => Known'
<1> SUFFICES ASSUME Known, ViewMoved PROVE Known'
  OBVIOUS
<1>1. PICK r \in Rects : rect' = r /\ Do(SendScreenRects(Step(host), r))
  BY DEF ViewMoved
<1> DEFINE st == SendScreenRects(Step(host), r)
<1>2. Step(host).h = host /\ host \in HostType
  BY DEF Step, Known
<1>3. /\ st.h \in HostType
      /\ host.renderer_initialized /\ ~ host.hidden =>
           st.h.waiting_for_screen_rects_ack
      /\ st.h.hidden = host.hidden /\ st.h.old = host.old
      /\ st.h.renderer_initialized = host.renderer_initialized
      /\ st.h.resize_ack_pending = host.resize_ack_pending
  BY <1>2, SendScreenRectsKnows
<1> HIDE DEF st
<1>4. life # "down" /\ UNCHANGED <<view, life>> /\ view \in Views
  BY DEF ViewMoved, UserMayAct, Known
<1>5. life = "up" /\ st.h.renderer_initialized /\ ~ st.h.hidden =>
        st.h.resize_ack_pending \/ st.h.old = view
  BY <1>3 DEF Known, SizeKnown, Connected
<1>6. Do(st) /\ rect' = r
  BY <1>1 DEF st
<1> QED BY <1>3, <1>4, <1>5, <1>6, KnownAfter

LEMMA KnownWasHidden == Known /\ WasHidden => Known'
<1> SUFFICES ASSUME Known, WasHidden PROVE Known'
  OBVIOUS
<1> DEFINE h  == [host EXCEPT !.hidden = TRUE]
           st == Emit(Step(h), [t |-> "hidden"])
<1>1. h \in HostType /\ h.hidden
  BY DEF Known, HostType
<1>2. st.h = h
  BY DEF Emit, Step
<1>3. Do(st) /\ life # "down" /\ UNCHANGED <<view, rect, life>>
      /\ view \in Views /\ rect \in Rects
  BY DEF WasHidden, UserMayAct, Known
<1> HIDE DEF h, st
<1> QED BY <1>1, <1>2, <1>3, KnownAfter

LEMMA KnownWasShown == Known /\ WasShown => Known'
<1> SUFFICES ASSUME Known, WasShown PROVE Known'
  OBVIOUS
<1> DEFINE h  == [host EXCEPT !.hidden = FALSE]
           s1 == SendScreenRects(Step(h), rect)
           s2 == Emit(s1, [t |-> "shown"])
           s3 == WasResized(s2, view)
<1>1. /\ h \in HostType /\ ~ h.hidden
      /\ h.renderer_initialized = host.renderer_initialized
  BY DEF Known, HostType
<1>2. Step(h).h = h
  BY DEF Step
<1>3. view \in Views /\ rect \in Rects /\ life # "down" /\ Do(s3)
      /\ UNCHANGED <<view, rect, life>>
  BY DEF Known, WasShown, UserMayAct, Restored
<1> HIDE DEF h
<1>4. /\ s1.h \in HostType
      /\ s1.h.renderer_initialized => s1.h.waiting_for_screen_rects_ack
  BY <1>1, <1>2, <1>3, SendScreenRectsKnows
<1>5. s2.h = s1.h
  BY DEF Emit
<1> HIDE DEF s1, s2
<1>6. /\ s3.h \in HostType
      /\ life = "up" /\ s3.h.renderer_initialized =>
           /\ s3.h.resize_ack_pending \/ s3.h.old = view
           /\ s3.h.waiting_for_screen_rects_ack
  BY <1>3, <1>4, <1>5, WasResizedKnows
<1> HIDE DEF s3
<1> QED BY <1>3, <1>6, KnownAfter

LEMMA KnownScheduleComposite == Known /\ ScheduleComposite => Known'
<1> SUFFICES ASSUME Known, ScheduleComposite PROVE Known'
  OBVIOUS
<1> DEFINE h  == [host EXCEPT !.repaint_ack_pending = TRUE]
           st == Emit(Step(h), [t |-> "repaint"])
<1>1. /\ h \in HostType /\ h.hidden = host.hidden /\ h.old = host.old
      /\ h.renderer_initialized = host.renderer_initialized
      /\ h.resize_ack_pending = host.resize_ack_pending
      /\ h.waiting_for_screen_rects_ack = host.waiting_for_screen_rects_ack
      /\ h.last_rect = host.last_rect
  BY DEF Known, HostType
<1>2. st.h = h
  BY DEF Emit, Step
<1>3. Do(st) /\ life # "down" /\ UNCHANGED <<view, rect, life>>
      /\ view \in Views /\ rect \in Rects
  BY DEF ScheduleComposite, UserMayAct, Known
<1> HIDE DEF h, st
<1>4. life = "up" /\ h.renderer_initialized /\ ~ h.hidden =>
        /\ h.resize_ack_pending \/ h.old = view
        /\ h.waiting_for_screen_rects_ack \/ h.last_rect = rect
  BY <1>1 DEF Known, SizeKnown, RectsKnown, Connected
<1> QED BY <1>1, <1>2, <1>3, <1>4, KnownAfter

(* OnUpdateRect: clearing the flag of a visible widget is followed by        *)
(* WasResized; clearing it while hidden is not, and need not be.             *)
LEMMA KnownUpdate ==
  ASSUME Known, NEW m, Do(Updated(host, m)), life = "up", UNCHANGED <<view, rect, life>>
  PROVE  Known'
<1> DEFINE flag  == host.resize_ack_pending /\ ~ m.resize_ack
           flag2 == host.repaint_ack_pending /\ ~ m.repaint_ack
           h == [host EXCEPT !.resize_ack_pending = flag, !.repaint_ack_pending = flag2]
           st == Updated(host, m)
<1>1. flag \in BOOLEAN /\ flag2 \in BOOLEAN
  OBVIOUS
<1>2. flag \/ ~ host.resize_ack_pending \/ m.resize_ack
  OBVIOUS
<1>3. st = IF m.resize_ack /\ ~ host.hidden THEN WasResized(Step(h), view) ELSE Step(h)
  BY DEF Updated
<1> HIDE DEF flag, flag2, st
<1>4. /\ h \in HostType /\ h.hidden = host.hidden /\ h.old = host.old
      /\ h.renderer_initialized = host.renderer_initialized
      /\ h.resize_ack_pending = flag
      /\ h.waiting_for_screen_rects_ack = host.waiting_for_screen_rects_ack
      /\ h.last_rect = host.last_rect
  BY <1>1 DEF Known, HostType
<1> HIDE DEF h
<1>5. Step(h).h = h
  BY DEF Step
<1>6. view \in Views /\ rect \in Rects /\ Do(st)
  BY DEF Known, st
<1>7. host.renderer_initialized /\ ~ host.hidden =>
        /\ host.resize_ack_pending \/ host.old = view
        /\ host.waiting_for_screen_rects_ack \/ host.last_rect = rect
  BY DEF Known, SizeKnown, RectsKnown, Connected
<1>8. CASE m.resize_ack /\ ~ host.hidden
  <2>1. st = WasResized(Step(h), view)
    BY <1>3, <1>8
  <2>2. /\ st.h \in HostType
        /\ h.renderer_initialized => st.h.resize_ack_pending \/ st.h.old = view
        /\ st.h.hidden = h.hidden /\ st.h.last_rect = h.last_rect
        /\ st.h.renderer_initialized = h.renderer_initialized
        /\ st.h.waiting_for_screen_rects_ack = h.waiting_for_screen_rects_ack
    BY <1>4, <1>5, <1>6, <2>1, WasResizedKnows
  <2> QED BY <1>4, <1>6, <1>7, <2>2, KnownAfter
<1>9. CASE ~ (m.resize_ack /\ ~ host.hidden)
  <2>1. st.h = h
    BY <1>3, <1>5, <1>9
  <2>2. h.renderer_initialized /\ ~ h.hidden =>
          /\ h.resize_ack_pending \/ h.old = view
          /\ h.waiting_for_screen_rects_ack \/ h.last_rect = rect
    BY <1>2, <1>4, <1>7, <1>9
  <2> QED BY <1>4, <1>6, <2>1, <2>2, KnownAfter
<1> QED BY <1>8, <1>9

(* OnUpdateScreenRectsAck: the rectangle is still the last one sent, or it   *)
(* is sent.                                                                  *)
LEMMA KnownRectsAck ==
  ASSUME Known, Do(RectsAcked(host)), life = "up", UNCHANGED <<view, rect, life>>
  PROVE  Known'
<1> DEFINE h  == [host EXCEPT !.waiting_for_screen_rects_ack = FALSE]
           st == RectsAcked(host)
<1>1. /\ h \in HostType /\ h.hidden = host.hidden /\ h.old = host.old
      /\ h.renderer_initialized = host.renderer_initialized
      /\ h.resize_ack_pending = host.resize_ack_pending
      /\ h.last_rect = host.last_rect
  BY DEF Known, HostType
<1>2. st = IF host.last_rect = rect THEN Step(h) ELSE SendScreenRects(Step(h), rect)
  BY DEF RectsAcked
<1> HIDE DEF h, st
<1>3. Step(h).h = h
  BY DEF Step
<1>4. view \in Views /\ rect \in Rects /\ Do(st)
  BY DEF Known, st
<1>5. host.renderer_initialized /\ ~ host.hidden =>
        host.resize_ack_pending \/ host.old = view
  BY DEF Known, SizeKnown, Connected
<1>6. CASE host.last_rect = rect
  <2>1. st.h = h
    BY <1>2, <1>3, <1>6
  <2> QED BY <1>1, <1>4, <1>5, <1>6, <2>1, KnownAfter
<1>7. CASE host.last_rect # rect
  <2>1. st = SendScreenRects(Step(h), rect)
    BY <1>2, <1>7
  <2>2. /\ st.h \in HostType
        /\ h.renderer_initialized /\ ~ h.hidden => st.h.waiting_for_screen_rects_ack
        /\ st.h.hidden = h.hidden /\ st.h.old = h.old
        /\ st.h.renderer_initialized = h.renderer_initialized
        /\ st.h.resize_ack_pending = h.resize_ack_pending
    BY <1>1, <1>3, <1>4, <2>1, SendScreenRectsKnows
  <2> QED BY <1>1, <1>4, <1>5, <2>2, KnownAfter
<1> QED BY <1>6, <1>7

LEMMA KnownRendererExited == Known /\ RendererExited => Known'
<1> SUFFICES ASSUME Known, RendererExited PROVE Known'
  OBVIOUS
<1> DEFINE last == IF host.old = NoParams THEN host.old
                   ELSE [host.old EXCEPT !.size = None]
<1>1. last \in OldParams
  <2>1. CASE host.old = NoParams
    BY <2>1 DEF OldParams
  <2>2. CASE host.old # NoParams
    <3>1. PICK v \in Views : host.old = v \/ host.old = Params(None, v.backing)
      BY <2>2 DEF Known, HostType, OldParams
    <3>2. host.old = [size |-> host.old.size, backing |-> v.backing]
      BY <3>1, SizeAssumption DEF Params
    <3>3. last = [size |-> None, backing |-> v.backing]
      BY <2>2, <3>2
    <3> QED BY <3>3 DEF OldParams, Params
  <2> QED BY <2>1, <2>2
<1>2. host' = [host EXCEPT !.renderer_initialized = FALSE,
                           !.waiting_for_screen_rects_ack = FALSE,
                           !.resize_ack_pending = FALSE, !.repaint_ack_pending = FALSE,
                           !.old = last, !.hidden = TRUE]
  BY DEF RendererExited, Exited
<1> HIDE DEF last
<1>3. host' \in HostType /\ host'.hidden
  BY <1>1, <1>2 DEF Known, HostType
<1>4. UNCHANGED <<view, rect>>
  BY DEF RendererExited
<1> QED BY <1>3, <1>4 DEF Known, SizeKnown, RectsKnown, HostType, OldParams

LEMMA KnownCreateRenderView == Known /\ CreateRenderView => Known'
<1> SUFFICES ASSUME Known, CreateRenderView PROVE Known'
  OBVIOUS
<1> DEFINE ack == NeedsResizeAck(host, view)
<1>1. ack \in BOOLEAN
  BY DEF NeedsResizeAck, Drawable
<1>2. host' = [host EXCEPT !.renderer_initialized = TRUE,
                           !.resize_ack_pending = ack, !.old = view]
      /\ UNCHANGED <<view, rect>> /\ host.hidden
  BY DEF CreateRenderView, Known
<1>3. view \in OldParams
  BY DEF Known, OldParams
<1> HIDE DEF ack
<1>4. host' \in HostType /\ host'.hidden
  BY <1>1, <1>2, <1>3 DEF Known, HostType
<1> QED BY <1>2, <1>4 DEF Known, SizeKnown, RectsKnown, HostType, OldParams

LEMMA KnownNext == Known /\ [Next]_vars => Known'
<1> SUFFICES ASSUME Known, [Next]_vars PROVE Known'
  OBVIOUS
<1>1. CASE OnMessageReceived
  <2>1. life = "up" /\ UNCHANGED <<view, rect, life>>
    BY <1>1 DEF OnMessageReceived
  <2>2. Do(Updated(host, Head(to_browser))) \/ Do(RectsAcked(host))
    BY <1>1 DEF OnMessageReceived
  <2> QED BY <2>1, <2>2, KnownUpdate, KnownRectsAck
<1>2. CASE OnRendererMessage \/ OnEnableDeviceEmulation \/ OnDisableDeviceEmulation
             \/ ContentChanges \/ Draw \/ DidCompleteSwapBuffers \/ ConnectionLost
  <2>1. UNCHANGED <<view, rect, host>> /\ (life' = life \/ life' = "dying")
    BY <1>2 DEF OnRendererMessage, OnEnableDeviceEmulation, OnDisableDeviceEmulation,
                ContentChanges, Draw, DidCompleteSwapBuffers, ConnectionLost
  <2> QED BY <2>1, KnownElsewhere
<1>3. CASE UNCHANGED vars
  BY <1>3, KnownElsewhere DEF vars
<1> QED BY <1>1, <1>2, <1>3, KnownInitWidget, KnownViewResized, KnownViewMoved,
           KnownWasHidden, KnownWasShown, KnownScheduleComposite,
           KnownRendererExited, KnownCreateRenderView DEF Next

LEMMA AlwaysKnown == Spec => []Known
<1> QED BY KnownInit, KnownNext, PTL DEF Spec

(* A visible, connected widget has sent the size its view asks for, or       *)
(* awaits an ack after which it will (WasResized, OnUpdateRect, WasShown).   *)
THEOREM SizeIsKnown == Spec => []SizeKnown
<1>1. Known => SizeKnown
  BY DEF Known
<1> QED BY <1>1, AlwaysKnown, PTL

(* The same for the place on the screen (SendScreenRects and its ack).       *)
THEOREM RectsAreKnown == Spec => []RectsKnown
<1>1. Known => RectsKnown
  BY DEF Known
<1> QED BY <1>1, AlwaysKnown, PTL
-----------------------------------------------------------------------------
(* The acks.  The next invariant keeps the books of the two channels: of     *)
(* each kind of ack at most one is under way, and it is exactly the one the  *)
(* host waits for.                                                           *)

LEMMA CountEmpty ==
  ASSUME NEW kind
  PROVE  Count(<<>>, kind) = 0
<1>1. {i \in DOMAIN <<>> : Bears((<<>>)[i], kind)} = {}
  OBVIOUS
<1> QED BY <1>1, FS_EmptySet DEF Count

LEMMA CountIsNat ==
  ASSUME NEW S, NEW q \in Seq(S), NEW kind
  PROVE  /\ Count(q, kind) \in Nat
         /\ IsFiniteSet({i \in DOMAIN q : Bears(q[i], kind)})
<1>1. IsFiniteSet(1..Len(q))
  BY FS_Interval
<1>2. {i \in DOMAIN q : Bears(q[i], kind)} \subseteq 1..Len(q)
  OBVIOUS
<1>3. IsFiniteSet({i \in DOMAIN q : Bears(q[i], kind)})
  BY <1>1, <1>2, FS_Subset
<1> QED BY <1>3, FS_CardinalityType DEF Count

LEMMA CountAppend ==
  ASSUME NEW S, NEW q \in Seq(S), NEW m \in S, NEW kind
  PROVE  Count(Append(q, m), kind) = Count(q, kind) + Owed(Bears(m, kind))
<1> DEFINE A == {i \in DOMAIN q : Bears(q[i], kind)}
           B == {i \in DOMAIN Append(q, m) : Bears(Append(q, m)[i], kind)}
           n == Len(q) + 1
<1>1. /\ DOMAIN Append(q, m) = 1..n /\ DOMAIN q = 1..Len(q) /\ n \notin DOMAIN q
      /\ Append(q, m)[n] = m /\ \A i \in DOMAIN q : Append(q, m)[i] = q[i]
      /\ 1..n = (1..Len(q)) \cup {n}
  OBVIOUS
<1>2. IsFiniteSet(A) /\ Cardinality(A) \in Nat /\ n \notin A
  BY <1>1, CountIsNat DEF Count
<1>3. Count(q, kind) = Cardinality(A) /\ Count(Append(q, m), kind) = Cardinality(B)
  BY DEF Count
<1>4. CASE Bears(m, kind)
  <2>1. B = A \cup {n}
    BY <1>1, <1>4
  <2>2. Cardinality(A \cup {n}) = Cardinality(A) + 1
    BY <1>2, FS_AddElement
  <2> HIDE DEF A, B
  <2> QED BY <1>3, <1>4, <2>1, <2>2 DEF Owed
<1>5. CASE ~ Bears(m, kind)
  <2>1. B = A
    BY <1>1, <1>5
  <2> HIDE DEF A, B
  <2> QED BY <1>2, <1>3, <1>5, <2>1 DEF Owed
<1> QED BY <1>4, <1>5

LEMMA CountTail ==
  ASSUME NEW S, NEW q \in Seq(S), q # <<>>, NEW kind
  PROVE  Count(q, kind) = Count(Tail(q), kind) + Owed(Bears(Head(q), kind))
<1> DEFINE A == {i \in DOMAIN q : Bears(q[i], kind)}
           B == {i \in DOMAIN Tail(q) : Bears(Tail(q)[i], kind)}
           f == [i \in B |-> i + 1]
<1>1. /\ Len(q) \in Nat /\ Len(q) >= 1 /\ DOMAIN q = 1..Len(q) /\ Head(q) = q[1]
      /\ Tail(q) \in Seq(S) /\ DOMAIN Tail(q) = 1..(Len(q) - 1)
      /\ \A i \in 1..(Len(q) - 1) : Tail(q)[i] = q[i + 1]
  OBVIOUS
<1>2. IsFiniteSet(B) /\ IsFiniteSet(A) /\ Cardinality(B) \in Nat
  BY <1>1, CountIsNat DEF Count
<1>3. Cardinality(A \ {1}) = Cardinality(B)
  <2>1. \A i \in B : f[i] \in A \ {1}
    BY <1>1
  <2>2. ASSUME NEW k \in A \ {1} PROVE \E i \in B : f[i] = k
    <3>1. k - 1 \in B /\ f[k - 1] = k
      BY <1>1
    <3> QED BY <3>1
  <2>3. \A i, j \in B : f[i] = f[j] => i = j
    BY <1>1
  <2>4. f \in Bijection(B, A \ {1})
    BY <2>1, <2>2, <2>3, Fun_IsBij
  <2>5. ExistsBijection(B, A \ {1})
    BY <2>4 DEF ExistsBijection
  <2> QED BY <1>2, <2>5, FS_Bijection
<1>4. Count(q, kind) = Cardinality(A) /\ Count(Tail(q), kind) = Cardinality(B)
  BY DEF Count
<1>5. CASE Bears(Head(q), kind)
  <2>1. 1 \in A
    BY <1>1, <1>5
  <2>2. Cardinality(A \ {1}) = Cardinality(A) - 1 /\ Cardinality(A) \in Nat
    BY <1>2, <2>1, FS_RemoveElement, FS_CardinalityType
  <2> HIDE DEF A, B
  <2> QED BY <1>2, <1>3, <1>4, <1>5, <2>2 DEF Owed
<1>6. CASE ~ Bears(Head(q), kind)
  <2>1. A \ {1} = A
    BY <1>1, <1>6
  <2> HIDE DEF A, B
  <2>2. Cardinality(A) = Cardinality(B)
    BY <1>3, <2>1, Zenon
  <2> QED BY <1>2, <1>4, <1>6, <2>2 DEF Owed
<1> QED BY <1>5, <1>6

(* The size the renderer will have been given after each message under way:  *)
(* f[0] is the one it has, and the last is the one the host sent last.  A    *)
(* new size in which it can draw comes with a request for an ack, so that an *)
(* emulator, which decides by itself, never acks unasked.                    *)
Tells(f, q) ==
  \A i \in 1..Len(q) :
    IF q[i].t = "resize"
      THEN /\ f[i] = q[i].params.size
           /\ Drawable(q[i].params) /\ f[i - 1] # f[i] => q[i].ack
      ELSE f[i] = f[i - 1]

Told(old, q, s) ==
  \E f \in [0..Len(q) -> Sizes] :
    f[0] = s /\ Tells(f, q) /\ (old # NoParams => f[Len(q)] = old.size)

(* A host h, messages q and b under way to and from a widget w.              *)
Square(h, q, b, w, r) ==
  /\ Count(q, "resize") + Owed(w.next_resize_ack) + Count(b, "resize")
       = Owed(h.resize_ack_pending /\ ~ r)
  /\ Count(q, "repaint") + Owed(w.next_repaint_ack) + Count(b, "repaint")
       = Owed(h.repaint_ack_pending)
  /\ Count(q, "rects") + Count(b, "rects") = Owed(h.waiting_for_screen_rects_ack)
  /\ r => h.resize_ack_pending
  /\ Told(h.old, q, Given(w).size)

(* Only an emulator gives a widget the emulated size.                        *)
Plain(w) == ~ w.emulated => w.size \in Sizes /\ w.backing \in Backings

Books ==
  /\ TypeOK /\ Plain(rw)
  /\ life = "up" => Square(host, to_renderer, to_browser, rw, refused)
  /\ life # "up" => /\ to_renderer = <<>> /\ to_browser = <<>>
                    /\ rw = Fresh(TRUE) /\ ~ refused
  /\ life = "down" => /\ ~ host.resize_ack_pending /\ ~ host.repaint_ack_pending
                      /\ ~ host.waiting_for_screen_rects_ack
                      /\ host.old = NoParams \/ host.old.size = None

LEMMA ToldAppend ==
  ASSUME NEW q \in Seq(ToRenderer), NEW m \in ToRenderer, NEW old, NEW new, NEW s,
         Told(old, q, s),
         IF m.t = "resize"
           THEN /\ new = m.params
                /\ Drawable(new) /\ (old = NoParams \/ old.size # new.size) => m.ack
           ELSE new = old
  PROVE  Told(new, Append(q, m), s)
<1>1. PICK f \in [0..Len(q) -> Sizes] :
        f[0] = s /\ Tells(f, q) /\ (old # NoParams => f[Len(q)] = old.size)
  BY DEF Told
<1> DEFINE n    == Len(q) + 1
           last == IF m.t = "resize" THEN m.params.size ELSE f[Len(q)]
           g    == [i \in 0..n |-> IF i = n THEN last ELSE f[i]]
           p    == Append(q, m)
<1>2. /\ Len(q) \in Nat /\ Len(p) = n /\ p[n] = m /\ n \in Nat
      /\ \A i \in 1..Len(q) : p[i] = q[i]
  OBVIOUS
<1>3. last \in Sizes
  <2>1. CASE m.t = "resize"
    <3>1. m.params \in Views
      BY <2>1 DEF ToRenderer
    <3> QED BY <2>1, <3>1 DEF Sizes
  <2>2. CASE m.t # "resize"
    BY <1>1, <1>2, <2>2
  <2> QED BY <2>1, <2>2
<1> HIDE DEF p
<1>4. /\ g[0] = s /\ g[n] = last /\ g[n - 1] = f[Len(q)]
      /\ \A i \in 1..Len(q) : g[i] = f[i] /\ g[i - 1] = f[i - 1]
  BY <1>1, <1>2
<1>5. g \in [0..n -> Sizes]
  BY <1>1, <1>2, <1>3
<1>6. m.t = "resize" =>
        /\ last = m.params.size
        /\ Drawable(m.params) /\ f[Len(q)] # last => m.ack
  BY <1>1
<1>7. m.t # "resize" => last = f[Len(q)]
  OBVIOUS
<1>8. new # NoParams => last = new.size
  BY <1>1, <1>6
<1> HIDE DEF g, last
<1>9. Tells(g, p)
  <2> SUFFICES ASSUME NEW i \in 1..n
               PROVE  IF p[i].t = "resize"
                        THEN /\ g[i] = p[i].params.size
                             /\ Drawable(p[i].params) /\ g[i - 1] # g[i] => p[i].ack
                        ELSE g[i] = g[i - 1]
    BY <1>2 DEF Tells
  <2>1. CASE i = n
    BY <1>2, <1>4, <1>6, <1>7, <2>1
  <2>2. CASE i # n
    <3>1. i \in 1..Len(q)
      BY <1>2, <2>2
    <3> QED BY <1>1, <1>2, <1>4, <3>1 DEF Tells
  <2> QED BY <2>1, <2>2
<1> QED BY <1>2, <1>4, <1>5, <1>8, <1>9 DEF Told, p

LEMMA ToldTail ==
  ASSUME NEW q \in Seq(ToRenderer), q # <<>>, NEW old, NEW s, Told(old, q, s)
  PROVE  IF Head(q).t = "resize"
           THEN /\ Drawable(Head(q).params) /\ s # Head(q).params.size => Head(q).ack
                /\ Told(old, Tail(q), Head(q).params.size)
           ELSE Told(old, Tail(q), s)
<1>1. PICK f \in [0..Len(q) -> Sizes] :
        f[0] = s /\ Tells(f, q) /\ (old # NoParams => f[Len(q)] = old.size)
  BY DEF Told
<1> DEFINE n == Len(q) - 1
           g == [i \in 0..n |-> f[i + 1]]
           p == Tail(q)
<1>2. /\ Len(q) \in Nat /\ n \in Nat /\ Len(p) = n /\ Head(q) = q[1]
      /\ 1 \in 1..Len(q) /\ \A i \in 1..n : p[i] = q[i + 1]
  OBVIOUS
<1>3. g \in [0..n -> Sizes] /\ g[0] = f[1] /\ g[n] = f[Len(q)]
  BY <1>1, <1>2
<1>4. \A i \in 1..n : g[i] = f[i + 1] /\ g[i - 1] = f[i]
  BY <1>2
<1> HIDE DEF p, g
<1>5. Tells(g, p)
  <2> SUFFICES ASSUME NEW i \in 1..n
               PROVE  IF p[i].t = "resize"
                        THEN /\ g[i] = p[i].params.size
                             /\ Drawable(p[i].params) /\ g[i - 1] # g[i] => p[i].ack
                        ELSE g[i] = g[i - 1]
    BY <1>2 DEF Tells
  <2>1. i + 1 \in 1..Len(q) /\ (i + 1) - 1 = i
    BY <1>2
  <2> QED BY <1>1, <1>2, <1>4, <2>1 DEF Tells
<1>6. Told(old, p, f[1])
  BY <1>1, <1>2, <1>3, <1>5 DEF Told
<1>7. IF q[1].t = "resize"
        THEN f[1] = q[1].params.size /\ (Drawable(q[1].params) /\ f[1 - 1] # f[1] => q[1].ack)
        ELSE f[1] = f[1 - 1]
  BY <1>1, <1>2 DEF Tells
<1> QED BY <1>1, <1>2, <1>6, <1>7 DEF p

-----------------------------------------------------------------------------
(* What the browser sends keeps the books.  st is a step that the host has   *)
(* made so far, its messages to be added to q.                               *)

Fine(st, q, b, w, r) ==
  /\ st.h \in HostType /\ st.out \in Seq(ToRenderer)
  /\ Square(st.h, q \o st.out, b, w, r)

LEMMA OneMore ==
  ASSUME NEW q \in Seq(ToRenderer), NEW out \in Seq(ToRenderer), NEW m \in ToRenderer
  PROVE  /\ Append(out, m) \in Seq(ToRenderer) /\ q \o out \in Seq(ToRenderer)
         /\ q \o Append(out, m) = Append(q \o out, m)
OBVIOUS

LEMMA FineEmit ==
  ASSUME NEW q \in Seq(ToRenderer), NEW b \in Seq(ToBrowser), NEW w, NEW r,
         NEW st, Fine(st, q, b, w, r), NEW m \in [t : {"hidden", "shown"}]
  PROVE  Fine(Emit(st, m), q, b, w, r)
<1>1. m \in ToRenderer /\ m.t \notin {"resize", "repaint", "rects", "update", "rects_ack"}
  BY DEF ToRenderer
<1> DEFINE p == q \o st.out
<1>2. /\ Append(st.out, m) \in Seq(ToRenderer) /\ p \in Seq(ToRenderer)
      /\ q \o Append(st.out, m) = Append(p, m)
  BY <1>1, OneMore DEF Fine
<1>3. ~ Bears(m, "resize") /\ ~ Bears(m, "repaint") /\ ~ Bears(m, "rects")
  BY <1>1 DEF Bears
<1>4. Square(st.h, p, b, w, r)
  BY DEF Fine
<1> HIDE DEF p
<1>5. \A kind \in {"resize", "repaint", "rects"} :
        Count(p, kind) \in Nat /\ Count(Append(p, m), kind) = Count(p, kind)
  <2> TAKE kind \in {"resize", "repaint", "rects"}
  <2>1. ~ Bears(m, kind)
    BY <1>3
  <2>2. Count(p, kind) \in Nat
    BY <1>2, CountIsNat
  <2>3. Count(Append(p, m), kind) = Count(p, kind) + Owed(Bears(m, kind))
    BY <1>1, <1>2, CountAppend
  <2> QED BY <2>1, <2>2, <2>3 DEF Owed
<1>6. Told(st.h.old, Append(p, m), Given(w).size)
  BY <1>1, <1>2, <1>4, ToldAppend DEF Square
<1>7. Square(st.h, Append(p, m), b, w, r)
  BY <1>4, <1>5, <1>6 DEF Square
<1> QED BY <1>2, <1>7 DEF Fine, Emit

LEMMA FineWasResized ==
  ASSUME NEW q \in Seq(ToRenderer), NEW b \in Seq(ToBrowser), NEW w \in WidgetType,
         NEW r \in BOOLEAN, NEW st, Fine(st, q, b, w, r), NEW v \in Views
  PROVE  Fine(WasResized(st, v), q, b, w, r)
<1>1. CASE MayResize(st.h) /\ Dirty(st.h, v)
  <2> DEFINE ack == NeedsResizeAck(st.h, v)
             g   == [st.h EXCEPT !.resize_ack_pending = ack, !.old = v]
             m   == [t |-> "resize", params |-> v, ack |-> ack]
             p   == q \o st.out
  <2>1. ack \in BOOLEAN /\ v \in OldParams
    BY DEF NeedsResizeAck, Drawable, OldParams
  <2>2. WasResized(st, v).h = g /\ WasResized(st, v).out = Append(st.out, m)
    BY <1>1 DEF WasResized, Emit, With
  <2>3. Drawable(v) /\ (st.h.old = NoParams \/ st.h.old.size # v.size) => ack
    BY DEF NeedsResizeAck, Changed
  <2> HIDE DEF ack
  <2>4. /\ g \in HostType /\ g.old = v /\ g.resize_ack_pending = ack
        /\ g.repaint_ack_pending = st.h.repaint_ack_pending
        /\ g.waiting_for_screen_rects_ack = st.h.waiting_for_screen_rects_ack
    BY <2>1 DEF HostType, Fine
  <2>5. m \in ToRenderer /\ m.t = "resize" /\ m.ack = ack /\ m.params = v
    BY <2>1 DEF ToRenderer
  <2>6. (Bears(m, "resize") <=> ack) /\ ~ Bears(m, "repaint") /\ ~ Bears(m, "rects")
    BY <2>1 DEF Bears
  <2> HIDE DEF g, m
  <2>7. /\ Append(st.out, m) \in Seq(ToRenderer) /\ p \in Seq(ToRenderer)
        /\ q \o Append(st.out, m) = Append(p, m)
    BY <2>5, OneMore DEF Fine
  <2>8. Square(st.h, p, b, w, r)
    BY DEF Fine
  <2> HIDE DEF p
  <2>9. /\ Count(p, "resize") \in Nat /\ Count(p, "repaint") \in Nat
        /\ Count(p, "rects") \in Nat /\ Count(b, "resize") \in Nat
    BY <2>7, CountIsNat
  <2>10. /\ Count(Append(p, m), "resize") = Count(p, "resize") + Owed(Bears(m, "resize"))
         /\ Count(Append(p, m), "repaint") = Count(p, "repaint") + Owed(Bears(m, "repaint"))
         /\ Count(Append(p, m), "rects") = Count(p, "rects") + Owed(Bears(m, "rects"))
    BY <2>5, <2>7, CountAppend
  <2>11. ~ st.h.resize_ack_pending
    BY <1>1 DEF MayResize
  <2>12. ~ r /\ Count(p, "resize") + Owed(w.next_resize_ack) + Count(b, "resize") = 0
    BY <2>8, <2>11 DEF Square, Owed
  <2>13. /\ Count(Append(p, m), "resize") = Count(p, "resize") + Owed(ack)
         /\ Count(Append(p, m), "repaint") = Count(p, "repaint")
         /\ Count(Append(p, m), "rects") = Count(p, "rects")
    BY <2>6, <2>9, <2>10 DEF Owed
  <2>14. Told(v, Append(p, m), Given(w).size)
    BY <2>3, <2>5, <2>7, <2>8, ToldAppend DEF Square
  <2>15. Owed(ack) \in Nat /\ Owed(w.next_resize_ack) \in Nat
    BY DEF Owed
  <2>16. Square(g, Append(p, m), b, w, r)
    <3>1. Count(Append(p, m), "resize") + Owed(w.next_resize_ack) + Count(b, "resize")
            = Owed(ack)
      BY <2>9, <2>12, <2>13, <2>15
    <3>2. Owed(g.resize_ack_pending /\ ~ r) = Owed(ack)
      BY <2>4, <2>12 DEF Owed
    <3> QED BY <2>4, <2>8, <2>12, <2>13, <2>14, <3>1, <3>2 DEF Square
  <2> QED BY <2>2, <2>4, <2>7, <2>16 DEF Fine
<1>2. CASE ~ (MayResize(st.h) /\ Dirty(st.h, v))
  BY <1>2 DEF WasResized
<1> QED BY <1>1, <1>2

LEMMA FineSendScreenRects ==
  ASSUME NEW q \in Seq(ToRenderer), NEW b \in Seq(ToBrowser), NEW w \in WidgetType,
         NEW r \in BOOLEAN, NEW st, Fine(st, q, b, w, r), NEW place \in Rects
  PROVE  Fine(SendScreenRects(st, place), q, b, w, r)
<1> DEFINE may == /\ st.h.renderer_initialized /\ ~ st.h.waiting_for_screen_rects_ack
                  /\ ~ st.h.hidden
<1>1. CASE may
  <2> DEFINE g == [st.h EXCEPT !.waiting_for_screen_rects_ack = TRUE, !.last_rect = place]
             m == [t |-> "rects"]
             p == q \o st.out
  <2>1. SendScreenRects(st, place).h = g /\ SendScreenRects(st, place).out = Append(st.out, m)
    BY <1>1 DEF SendScreenRects, Emit, With
  <2>2. /\ g \in HostType /\ g.old = st.h.old /\ g.waiting_for_screen_rects_ack
        /\ g.resize_ack_pending = st.h.resize_ack_pending
        /\ g.repaint_ack_pending = st.h.repaint_ack_pending
    BY DEF HostType, Fine
  <2>3. m \in ToRenderer /\ m.t # "resize"
    BY DEF ToRenderer
  <2>4. ~ Bears(m, "resize") /\ ~ Bears(m, "repaint") /\ Bears(m, "rects")
    BY DEF Bears
  <2> HIDE DEF g, m
  <2>5. /\ Append(st.out, m) \in Seq(ToRenderer) /\ p \in Seq(ToRenderer)
        /\ q \o Append(st.out, m) = Append(p, m)
    BY <2>3, OneMore DEF Fine
  <2>6. Square(st.h, p, b, w, r)
    BY DEF Fine
  <2> HIDE DEF p
  <2>7. /\ Count(p, "resize") \in Nat /\ Count(p, "repaint") \in Nat
        /\ Count(p, "rects") \in Nat /\ Count(b, "rects") \in Nat
    BY <2>5, CountIsNat
  <2>8. /\ Count(Append(p, m), "resize") = Count(p, "resize") + Owed(Bears(m, "resize"))
        /\ Count(Append(p, m), "repaint") = Count(p, "repaint") + Owed(Bears(m, "repaint"))
        /\ Count(Append(p, m), "rects") = Count(p, "rects") + Owed(Bears(m, "rects"))
    BY <2>3, <2>5, CountAppend
  <2>9. /\ Count(Append(p, m), "resize") = Count(p, "resize")
        /\ Count(Append(p, m), "repaint") = Count(p, "repaint")
        /\ Count(Append(p, m), "rects") = Count(p, "rects") + 1
    BY <2>4, <2>7, <2>8 DEF Owed
  <2>10. Count(p, "rects") + Count(b, "rects") = 0
    BY <1>1, <2>6 DEF Square, Owed
  <2>11. Told(g.old, Append(p, m), Given(w).size)
    BY <2>2, <2>3, <2>5, <2>6, ToldAppend DEF Square
  <2>12. Count(Append(p, m), "rects") + Count(b, "rects")
           = Owed(g.waiting_for_screen_rects_ack)
    BY <2>2, <2>7, <2>9, <2>10 DEF Owed
  <2>13. Square(g, Append(p, m), b, w, r)
    BY <2>2, <2>6, <2>9, <2>11, <2>12 DEF Square
  <2> QED BY <2>1, <2>2, <2>5, <2>13 DEF Fine
<1>2. CASE ~ may
  BY <1>2 DEF SendScreenRects
<1> QED BY <1>1, <1>2

LEMMA SquareSame ==
  ASSUME NEW h, NEW g, NEW q, NEW b, NEW w, NEW r, Square(h, q, b, w, r),
         g.old = h.old, g.resize_ack_pending = h.resize_ack_pending,
         g.repaint_ack_pending = h.repaint_ack_pending,
         g.waiting_for_screen_rects_ack = h.waiting_for_screen_rects_ack
  PROVE  Square(g, q, b, w, r)
BY DEF Square

LEMMA FineStart ==
  ASSUME NEW h \in HostType, NEW q \in Seq(ToRenderer), NEW b, NEW w, NEW r,
         Square(h, q, b, w, r)
  PROVE  Fine(Step(h), q, b, w, r)
<1>1. Step(h).h = h /\ Step(h).out = <<>> /\ q \o <<>> = q /\ <<>> \in Seq(ToRenderer)
  BY DEF Step
<1> QED BY <1>1 DEF Fine

LEMMA BooksAfter ==
  ASSUME Books, NEW st, Do(st), UNCHANGED <<life, rw, refused>>, life # "down",
         view' \in Views, rect' \in Rects, current_size' \in Sizes \cup {EmulatedSize},
         to_browser' \in Seq(ToBrowser), st.h \in HostType,
         life = "up" => Fine(st, to_renderer, to_browser', rw, refused),
         life # "up" => to_browser' = to_browser
  PROVE  Books'
<1>1. host' = st.h
  BY DEF Do
<1>2. CASE life = "up"
  <2>1. to_renderer' = to_renderer \o st.out
    BY <1>2 DEF Do
  <2>2. /\ st.out \in Seq(ToRenderer) /\ to_renderer \in Seq(ToRenderer)
        /\ Square(st.h, to_renderer \o st.out, to_browser', rw, refused)
    BY <1>2 DEF Fine, Books, TypeOK
  <2>3. to_renderer' \in Seq(ToRenderer)
    BY <2>1, <2>2
  <2>4. TypeOK'
    BY <1>1, <2>3 DEF Books, TypeOK
  <2>5. Square(host', to_renderer', to_browser', rw', refused')
    BY <1>1, <2>1, <2>2
  <2>6. Plain(rw')
    BY DEF Books
  <2> QED BY <1>2, <2>4, <2>5, <2>6 DEF Books
<1>3. CASE life # "up"
  <2>1. to_renderer' = to_renderer
    BY <1>3 DEF Do
  <2>2. TypeOK'
    BY <1>1, <1>3, <2>1 DEF Books, TypeOK
  <2>3. Plain(rw')
    BY DEF Books
  <2> QED BY <1>3, <2>1, <2>2, <2>3 DEF Books
<1> QED BY <1>2, <1>3

LEMMA BooksRenderer ==
  ASSUME Books, life = "up", UNCHANGED <<view, rect, host, current_size, life>>,
         rw' \in WidgetType, Plain(rw'), to_renderer' \in Seq(ToRenderer),
         to_browser' \in Seq(ToBrowser), refused' \in BOOLEAN,
         Square(host, to_renderer', to_browser', rw', refused')
  PROVE  Books'
<1>1. TypeOK'
  BY DEF Books, TypeOK
<1> QED BY <1>1 DEF Books

LEMMA BooksInit == Init => Books
<1> SUFFICES ASSUME Init PROVE Books
  OBVIOUS
<1>1. /\ to_renderer = <<>> /\ to_browser = <<>> /\ rw = Fresh(FALSE) /\ ~ refused
      /\ refused \in BOOLEAN /\ life = "up" /\ current_size = None
      /\ view \in Views /\ rect \in Rects
  BY DEF Init
<1>2. host \in HostType
  BY DEF Init, HostType, OldParams
<1>3. /\ host.old = NoParams /\ ~ host.resize_ack_pending /\ ~ host.repaint_ack_pending
      /\ ~ host.waiting_for_screen_rects_ack
  BY DEF Init
<1>4. rw \in WidgetType /\ ~ rw.next_resize_ack /\ ~ rw.next_repaint_ack /\ ~ rw.emulated
      /\ rw.size = None /\ rw.backing = None
  BY <1>1 DEF Fresh, WidgetType, Sizes, Backings, Params
<1>5. TypeOK
  <2>1. to_renderer \in Seq(ToRenderer) /\ to_browser \in Seq(ToBrowser)
    BY <1>1
  <2>2. current_size \in Sizes \cup {EmulatedSize} /\ life \in {"up", "dying", "down"}
    BY <1>1 DEF Sizes
  <2> QED BY <1>1, <1>2, <1>4, <2>1, <2>2 DEF TypeOK
<1>6. Plain(rw)
  BY <1>4 DEF Plain, Sizes, Backings
<1>7. Told(host.old, <<>>, Given(rw).size)
  <2> DEFINE f == [i \in 0..0 |-> None]
  <2>1. Given(rw).size = None
    BY <1>4 DEF Given, Params
  <2>2. f \in [0..Len(<<>>) -> Sizes] /\ f[0] = None /\ Tells(f, <<>>)
    BY DEF Sizes, Tells
  <2> QED BY <1>3, <2>1, <2>2 DEF Told
<1>8. Square(host, <<>>, <<>>, rw, refused)
  <2>1. /\ Count(<<>>, "resize") = 0 /\ Count(<<>>, "repaint") = 0
        /\ Count(<<>>, "rects") = 0
    BY CountEmpty
  <2>2. /\ Owed(rw.next_resize_ack) = 0 /\ Owed(rw.next_repaint_ack) = 0
        /\ Owed(host.resize_ack_pending /\ ~ refused) = 0
        /\ Owed(host.repaint_ack_pending) = 0
        /\ Owed(host.waiting_for_screen_rects_ack) = 0
    BY <1>3, <1>4 DEF Owed
  <2>3. refused => host.resize_ack_pending
    BY <1>1
  <2>4. Count(<<>>, "resize") + Owed(rw.next_resize_ack) + Count(<<>>, "resize")
          = Owed(host.resize_ack_pending /\ ~ refused)
    BY <2>1, <2>2
  <2>5. Count(<<>>, "repaint") + Owed(rw.next_repaint_ack) + Count(<<>>, "repaint")
          = Owed(host.repaint_ack_pending)
    BY <2>1, <2>2
  <2>6. Count(<<>>, "rects") + Count(<<>>, "rects")
          = Owed(host.waiting_for_screen_rects_ack)
    BY <2>1, <2>2
  <2> QED BY <1>7, <2>3, <2>4, <2>5, <2>6 DEF Square
<1> QED BY <1>1, <1>5, <1>6, <1>8 DEF Books

-----------------------------------------------------------------------------
(* The actions of the browser.                                               *)

LEMMA BooksInitWidget == Books /\ InitWidget => Books'
<1> SUFFICES ASSUME Books, InitWidget PROVE Books'
  OBVIOUS
<1> DEFINE h  == [host EXCEPT !.renderer_initialized = TRUE]
           s1 == SendScreenRects(Step(h), rect)
           s2 == WasResized(s1, view)
<1>1. /\ host \in HostType /\ view \in Views /\ rect \in Rects /\ rw \in WidgetType
      /\ to_renderer \in Seq(ToRenderer) /\ to_browser \in Seq(ToBrowser)
      /\ refused \in BOOLEAN /\ current_size \in Sizes \cup {EmulatedSize}
  BY DEF Books, TypeOK
<1>2. life = "up" /\ Do(s2) /\ UNCHANGED <<view, rect, current_size, life, to_browser, rw, refused>>
  BY DEF InitWidget
<1>3. /\ h \in HostType /\ h.old = host.old
      /\ h.resize_ack_pending = host.resize_ack_pending
      /\ h.repaint_ack_pending = host.repaint_ack_pending
      /\ h.waiting_for_screen_rects_ack = host.waiting_for_screen_rects_ack
  BY <1>1 DEF HostType
<1>4. Square(host, to_renderer, to_browser, rw, refused)
  BY <1>2 DEF Books
<1> HIDE DEF h
<1>5. Square(h, to_renderer, to_browser, rw, refused)
  BY <1>3, <1>4, SquareSame
<1>6. Fine(Step(h), to_renderer, to_browser, rw, refused)
  BY <1>1, <1>3, <1>5, FineStart
<1>7. Fine(s1, to_renderer, to_browser, rw, refused)
  BY <1>1, <1>6, FineSendScreenRects
<1> HIDE DEF s1
<1>8. Fine(s2, to_renderer, to_browser, rw, refused)
  BY <1>1, <1>7, FineWasResized
<1> HIDE DEF s2
<1>9. s2.h \in HostType
  BY <1>8 DEF Fine
<1> QED BY <1>1, <1>2, <1>8, <1>9, BooksAfter

LEMMA BooksViewResized == Books /\ ViewResized => Books'
<1> SUFFICES ASSUME Books, ViewResized PROVE Books'
  OBVIOUS
<1>1. PICK v \in Views : view' = v /\ Do(WasResized(Step(host), v))
  BY DEF ViewResized
<1> DEFINE st == WasResized(Step(host), v)
<1>2. /\ host \in HostType /\ rect \in Rects /\ rw \in WidgetType
      /\ to_renderer \in Seq(ToRenderer) /\ to_browser \in Seq(ToBrowser)
      /\ refused \in BOOLEAN /\ current_size \in Sizes \cup {EmulatedSize}
  BY DEF Books, TypeOK
<1>3. life # "down" /\ UNCHANGED <<rect, current_size, life, to_browser, rw, refused>>
  BY DEF ViewResized, UserMayAct
<1>4. life = "up" => Fine(st, to_renderer, to_browser, rw, refused)
  <2>1. life = "up" => Square(host, to_renderer, to_browser, rw, refused)
    BY DEF Books
  <2>2. life = "up" => Fine(Step(host), to_renderer, to_browser, rw, refused)
    BY <1>2, <2>1, FineStart
  <2> QED BY <1>2, <2>2, FineWasResized
<1>5. st.h \in HostType
  <2>1. Step(host).h \in HostType
    BY <1>2 DEF Step
  <2> QED BY <2>1, WasResizedKnows
<1>6. Do(st)
  BY <1>1
<1> HIDE DEF st
<1> QED BY <1>1, <1>2, <1>3, <1>4, <1>5, <1>6, BooksAfter

LEMMA BooksViewMoved == Books /\ ViewMoved => Books'
<1> SUFFICES ASSUME Books, ViewMoved PROVE Books'
  OBVIOUS
<1>1. PICK r \in Rects : rect' = r /\ Do(SendScreenRects(Step(host), r))
  BY DEF ViewMoved
<1> DEFINE st == SendScreenRects(Step(host), r)
<1>2. /\ host \in HostType /\ view \in Views /\ rw \in WidgetType
      /\ to_renderer \in Seq(ToRenderer) /\ to_browser \in Seq(ToBrowser)
      /\ refused \in BOOLEAN /\ current_size \in Sizes \cup {EmulatedSize}
  BY DEF Books, TypeOK
<1>3. life # "down" /\ UNCHANGED <<view, current_size, life, to_browser, rw, refused>>
  BY DEF ViewMoved, UserMayAct
<1>4. life = "up" => Fine(st, to_renderer, to_browser, rw, refused)
  <2>1. life = "up" => Square(host, to_renderer, to_browser, rw, refused)
    BY DEF Books
  <2>2. life = "up" => Fine(Step(host), to_renderer, to_browser, rw, refused)
    BY <1>2, <2>1, FineStart
  <2> QED BY <1>2, <2>2, FineSendScreenRects
<1>5. st.h \in HostType
  <2>1. Step(host).h \in HostType
    BY <1>2 DEF Step
  <2> QED BY <2>1, SendScreenRectsKnows
<1>6. Do(st)
  BY <1>1
<1> HIDE DEF st
<1> QED BY <1>1, <1>2, <1>3, <1>4, <1>5, <1>6, BooksAfter

LEMMA BooksWasHidden == Books /\ WasHidden => Books'
<1> SUFFICES ASSUME Books, WasHidden PROVE Books'
  OBVIOUS
<1> DEFINE h  == [host EXCEPT !.hidden = TRUE]
           m  == [t |-> "hidden"]
           st == Emit(Step(h), m)
<1>1. /\ host \in HostType /\ view \in Views /\ rect \in Rects /\ rw \in WidgetType
      /\ to_renderer \in Seq(ToRenderer) /\ to_browser \in Seq(ToBrowser)
      /\ refused \in BOOLEAN /\ current_size \in Sizes \cup {EmulatedSize}
  BY DEF Books, TypeOK
<1>2. /\ life # "down" /\ Do(st)
      /\ UNCHANGED <<view, rect, current_size, life, to_browser, rw, refused>>
  BY DEF WasHidden, UserMayAct
<1>3. /\ h \in HostType /\ h.old = host.old
      /\ h.resize_ack_pending = host.resize_ack_pending
      /\ h.repaint_ack_pending = host.repaint_ack_pending
      /\ h.waiting_for_screen_rects_ack = host.waiting_for_screen_rects_ack
  BY <1>1 DEF HostType
<1>4. st.h = h
  BY DEF Emit, Step
<1>5. m \in [t : {"hidden", "shown"}]
  OBVIOUS
<1> HIDE DEF h, m
<1>6. life = "up" => Fine(st, to_renderer, to_browser, rw, refused)
  <2>1. life = "up" => Square(h, to_renderer, to_browser, rw, refused)
    BY <1>3, SquareSame DEF Books
  <2>2. life = "up" => Fine(Step(h), to_renderer, to_browser, rw, refused)
    BY <1>1, <1>3, <2>1, FineStart
  <2> QED BY <1>1, <1>5, <2>2, FineEmit
<1> HIDE DEF st
<1> QED BY <1>1, <1>2, <1>3, <1>4, <1>6, BooksAfter

LEMMA BooksWasShown == Books /\ WasShown => Books'
<1> SUFFICES ASSUME Books, WasShown PROVE Books'
  OBVIOUS
<1> DEFINE h  == [host EXCEPT !.hidden = FALSE]
           m  == [t |-> "shown"]
           s1 == SendScreenRects(Step(h), rect)
           s2 == Emit(s1, m)
           s3 == WasResized(s2, view)
<1>1. /\ host \in HostType /\ view \in Views /\ rect \in Rects /\ rw \in WidgetType
      /\ to_renderer \in Seq(ToRenderer) /\ to_browser \in Seq(ToBrowser)
      /\ refused \in BOOLEAN /\ current_size \in Sizes \cup {EmulatedSize}
  BY DEF Books, TypeOK
<1>2. /\ life # "down" /\ Do(s3)
      /\ UNCHANGED <<view, rect, current_size, life, to_browser, rw, refused>>
  BY DEF WasShown, UserMayAct, Restored
<1>3. /\ h \in HostType /\ h.old = host.old
      /\ h.resize_ack_pending = host.resize_ack_pending
      /\ h.repaint_ack_pending = host.repaint_ack_pending
      /\ h.waiting_for_screen_rects_ack = host.waiting_for_screen_rects_ack
  BY <1>1 DEF HostType
<1>4. m \in [t : {"hidden", "shown"}] /\ Step(h).h = h
  BY DEF Step
<1> HIDE DEF h, m
<1>5. s1.h \in HostType
  BY <1>1, <1>3, <1>4, SendScreenRectsKnows
<1>6. life = "up" => Fine(s1, to_renderer, to_browser, rw, refused)
  <2>1. life = "up" => Square(h, to_renderer, to_browser, rw, refused)
    BY <1>3, SquareSame DEF Books
  <2>2. life = "up" => Fine(Step(h), to_renderer, to_browser, rw, refused)
    BY <1>1, <1>3, <2>1, FineStart
  <2> QED BY <1>1, <2>2, FineSendScreenRects
<1>7. s2.h = s1.h
  BY DEF Emit
<1> HIDE DEF s1
<1>8. life = "up" => Fine(s2, to_renderer, to_browser, rw, refused)
  BY <1>1, <1>4, <1>6, FineEmit
<1> HIDE DEF s2
<1>9. s3.h \in HostType
  BY <1>1, <1>5, <1>7, WasResizedKnows
<1>10. life = "up" => Fine(s3, to_renderer, to_browser, rw, refused)
  BY <1>1, <1>8, FineWasResized
<1> HIDE DEF s3
<1> QED BY <1>1, <1>2, <1>9, <1>10, BooksAfter

LEMMA BooksScheduleComposite == Books /\ ScheduleComposite => Books'
<1> SUFFICES ASSUME Books, ScheduleComposite PROVE Books'
  OBVIOUS
<1> DEFINE h  == [host EXCEPT !.repaint_ack_pending = TRUE]
           m  == [t |-> "repaint"]
           st == Emit(Step(h), m)
           q  == to_renderer
<1>1. /\ host \in HostType /\ view \in Views /\ rect \in Rects /\ rw \in WidgetType
      /\ to_renderer \in Seq(ToRenderer) /\ to_browser \in Seq(ToBrowser)
      /\ refused \in BOOLEAN /\ current_size \in Sizes \cup {EmulatedSize}
  BY DEF Books, TypeOK
<1>2. /\ life # "down" /\ Do(st) /\ ~ host.repaint_ack_pending
      /\ UNCHANGED <<view, rect, current_size, life, to_browser, rw, refused>>
  BY DEF ScheduleComposite, UserMayAct
<1>3. /\ h \in HostType /\ h.old = host.old /\ h.repaint_ack_pending
      /\ h.resize_ack_pending = host.resize_ack_pending
      /\ h.waiting_for_screen_rects_ack = host.waiting_for_screen_rects_ack
  BY <1>1 DEF HostType
<1>4. st.h = h /\ st.out = Append(<<>>, m)
  BY DEF Emit, Step
<1>5. /\ m \in ToRenderer /\ m.t # "resize" /\ Bears(m, "repaint")
      /\ ~ Bears(m, "resize") /\ ~ Bears(m, "rects")
  BY DEF ToRenderer, Bears
<1> HIDE DEF h, m
<1>6. st.out \in Seq(ToRenderer) /\ q \o st.out = Append(q, m)
  BY <1>1, <1>4, <1>5
<1>7. ASSUME life = "up" PROVE Fine(st, q, to_browser, rw, refused)
  <2>1. Square(host, q, to_browser, rw, refused)
    BY <1>7 DEF Books
  <2>2. Told(h.old, Append(q, m), Given(rw).size)
    BY <1>1, <1>3, <1>5, <2>1, ToldAppend DEF Square
  <2>3. /\ Count(q, "resize") \in Nat /\ Count(q, "repaint") \in Nat
        /\ Count(q, "rects") \in Nat /\ Count(to_browser, "repaint") \in Nat
    BY <1>1, CountIsNat
  <2>4. /\ Count(Append(q, m), "resize") = Count(q, "resize") + Owed(Bears(m, "resize"))
        /\ Count(Append(q, m), "repaint") = Count(q, "repaint") + Owed(Bears(m, "repaint"))
        /\ Count(Append(q, m), "rects") = Count(q, "rects") + Owed(Bears(m, "rects"))
    BY <1>1, <1>5, CountAppend
  <2>5. /\ Count(Append(q, m), "resize") = Count(q, "resize")
        /\ Count(Append(q, m), "repaint") = Count(q, "repaint") + 1
        /\ Count(Append(q, m), "rects") = Count(q, "rects")
    BY <1>5, <2>3, <2>4 DEF Owed
  <2>6. Count(q, "repaint") + Owed(rw.next_repaint_ack) + Count(to_browser, "repaint") = 0
    BY <1>2, <2>1 DEF Square, Owed
  <2>7. Count(Append(q, m), "repaint") + Owed(rw.next_repaint_ack)
          + Count(to_browser, "repaint") = Owed(h.repaint_ack_pending)
    BY <1>3, <2>3, <2>5, <2>6 DEF Owed
  <2> HIDE DEF q
  <2>8. Square(h, Append(q, m), to_browser, rw, refused)
    BY <1>3, <2>1, <2>2, <2>5, <2>7 DEF Square
  <2> QED BY <1>3, <1>4, <1>6, <2>8 DEF Fine
<1> HIDE DEF st
<1> QED BY <1>1, <1>2, <1>3, <1>4, <1>7, BooksAfter

(* One of the acks under way arrives, or none does.                          *)
LEMMA OneArrives ==
  ASSUME NEW x \in Nat, NEW y \in Nat, NEW z \in Nat, NEW due, NEW wait \in BOOLEAN,
         NEW ack \in BOOLEAN, z = y + Owed(ack), x + Owed(due) + z = Owed(wait)
  PROVE  /\ x + Owed(due) + y = Owed(wait /\ ~ ack)
         /\ ack => wait
<1>1. Owed(due) \in {0, 1}
  BY DEF Owed
<1>2. CASE ack
  <2>1. Owed(ack) = 1
    BY <1>2 DEF Owed
  <2>2. wait
    BY <1>1, <2>1 DEF Owed
  <2>3. Owed(wait) = 1
    BY <2>2 DEF Owed
  <2>4. Owed(wait /\ ~ ack) = 0
    BY <1>2 DEF Owed
  <2>5. x + Owed(due) + y = 0
    BY <1>1, <2>1, <2>3
  <2> QED BY <2>2, <2>4, <2>5
<1>3. CASE ~ ack
  <2>1. Owed(ack) = 0
    BY <1>3 DEF Owed
  <2>2. Owed(wait /\ ~ ack) = Owed(wait)
    BY <1>3 DEF Owed
  <2> QED BY <1>1, <1>3, <2>1, <2>2
<1> QED BY <1>2, <1>3

(* OnUpdateRect: the ack a paint brings is the one the host waits for.       *)
LEMMA BooksUpdate ==
  ASSUME Books, life = "up", NEW m \in ToBrowser, m.t = "update",
         to_browser # <<>>, m = Head(to_browser), to_browser' = Tail(to_browser),
         Do(Updated(host, m)), current_size' = m.size,
         UNCHANGED <<view, rect, life, rw, refused>>
  PROVE  Books'
<1> DEFINE flag  == host.resize_ack_pending /\ ~ m.resize_ack
           flag2 == host.repaint_ack_pending /\ ~ m.repaint_ack
           h  == [host EXCEPT !.resize_ack_pending = flag, !.repaint_ack_pending = flag2]
           st == Updated(host, m)
           q  == to_renderer
           b  == to_browser
           p  == Tail(to_browser)
<1>1. /\ host \in HostType /\ view \in Views /\ rect \in Rects /\ rw \in WidgetType
      /\ q \in Seq(ToRenderer) /\ b \in Seq(ToBrowser) /\ refused \in BOOLEAN
  BY DEF Books, TypeOK
<1>2. /\ m.size \in Sizes \cup {EmulatedSize} /\ m.resize_ack \in BOOLEAN
      /\ m.repaint_ack \in BOOLEAN
  BY DEF ToBrowser
<1>3. p \in Seq(ToBrowser) /\ b # <<>> /\ Head(b) = m
  BY <1>1
<1>4. st = IF m.resize_ack /\ ~ host.hidden THEN WasResized(Step(h), view) ELSE Step(h)
  BY DEF Updated
<1>5. flag \in BOOLEAN /\ flag2 \in BOOLEAN
  OBVIOUS
<1>6. /\ h \in HostType /\ h.old = host.old
      /\ h.resize_ack_pending = (host.resize_ack_pending /\ ~ m.resize_ack)
      /\ h.repaint_ack_pending = (host.repaint_ack_pending /\ ~ m.repaint_ack)
      /\ h.waiting_for_screen_rects_ack = host.waiting_for_screen_rects_ack
  <2> HIDE DEF flag, flag2
  <2>1. /\ h \in HostType /\ h.old = host.old
        /\ h.resize_ack_pending = flag /\ h.repaint_ack_pending = flag2
        /\ h.waiting_for_screen_rects_ack = host.waiting_for_screen_rects_ack
    BY <1>1, <1>5 DEF HostType
  <2> QED BY <2>1 DEF flag, flag2
<1>7. Do(st)
  OBVIOUS
<1> HIDE DEF h, flag, flag2, st
<1>8. /\ Bears(m, "resize") <=> m.resize_ack
      /\ Bears(m, "repaint") <=> m.repaint_ack
      /\ ~ Bears(m, "rects")
  BY <1>2 DEF Bears
<1>9. /\ Count(b, "resize") = Count(p, "resize") + Owed(m.resize_ack)
      /\ Count(b, "repaint") = Count(p, "repaint") + Owed(m.repaint_ack)
      /\ Count(b, "rects") = Count(p, "rects")
  <2>1. /\ Count(b, "resize") = Count(p, "resize") + Owed(Bears(m, "resize"))
        /\ Count(b, "repaint") = Count(p, "repaint") + Owed(Bears(m, "repaint"))
        /\ Count(b, "rects") = Count(p, "rects") + Owed(Bears(m, "rects"))
    BY <1>1, <1>3, CountTail
  <2>2. Count(p, "rects") \in Nat
    BY <1>3, CountIsNat
  <2> QED BY <1>8, <2>1, <2>2 DEF Owed
<1>10. /\ Count(q, "resize") \in Nat /\ Count(q, "repaint") \in Nat
       /\ Count(p, "resize") \in Nat /\ Count(p, "repaint") \in Nat
  BY <1>1, <1>3, CountIsNat
<1> HIDE DEF b, p, q
<1>11. Square(host, q, b, rw, refused)
  BY DEF Books, b, q
<1>12. /\ Count(q, "resize") + Owed(rw.next_resize_ack) + Count(p, "resize")
            = Owed(h.resize_ack_pending /\ ~ refused)
       /\ refused => h.resize_ack_pending
  <2> DEFINE wait == host.resize_ack_pending /\ ~ refused
  <2>1. /\ Count(q, "resize") + Owed(rw.next_resize_ack) + Count(b, "resize") = Owed(wait)
        /\ refused => host.resize_ack_pending
    BY <1>11 DEF Square
  <2>2. wait \in BOOLEAN /\ Count(b, "resize") \in Nat
    BY <1>1, CountIsNat
  <2> HIDE DEF wait
  <2>3. /\ Count(q, "resize") + Owed(rw.next_resize_ack) + Count(p, "resize")
             = Owed(wait /\ ~ m.resize_ack)
        /\ m.resize_ack => wait
    BY <1>2, <1>9, <1>10, <2>1, <2>2, OneArrives
  <2>4. Owed(wait /\ ~ m.resize_ack) = Owed(h.resize_ack_pending /\ ~ refused)
    BY <1>6 DEF Owed, wait
  <2>5. refused => h.resize_ack_pending
    BY <1>6, <2>1, <2>3 DEF wait
  <2> QED BY <2>3, <2>4, <2>5
<1>13. Count(q, "repaint") + Owed(rw.next_repaint_ack) + Count(p, "repaint")
         = Owed(h.repaint_ack_pending)
  <2>1. Count(q, "repaint") + Owed(rw.next_repaint_ack) + Count(b, "repaint")
          = Owed(host.repaint_ack_pending)
    BY <1>11 DEF Square
  <2>2. host.repaint_ack_pending \in BOOLEAN /\ Count(b, "repaint") \in Nat
    BY <1>1, CountIsNat DEF HostType
  <2>3. Count(q, "repaint") + Owed(rw.next_repaint_ack) + Count(p, "repaint")
          = Owed(host.repaint_ack_pending /\ ~ m.repaint_ack)
    BY <1>2, <1>9, <1>10, <2>1, <2>2, OneArrives, SMTT(30)
  <2> QED BY <1>6, <2>3
<1>14. Square(h, q, p, rw, refused)
  BY <1>6, <1>9, <1>11, <1>12, <1>13 DEF Square
<1>15. Fine(Step(h), q, p, rw, refused)
  BY <1>1, <1>6, <1>14, FineStart DEF q
<1>16. Fine(st, q, p, rw, refused)
  <2>1. Fine(WasResized(Step(h), view), q, p, rw, refused)
    BY <1>1, <1>3, <1>15, FineWasResized DEF q
  <2> QED BY <1>4, <1>15, <2>1
<1>17. st.h \in HostType
  BY <1>16 DEF Fine
<1>18. to_browser' = p
  BY DEF p
<1>19. /\ view' \in Views /\ rect' \in Rects
       /\ current_size' \in Sizes \cup {EmulatedSize} /\ life # "down"
  BY <1>1, <1>2
<1> QED BY <1>3, <1>7, <1>16, <1>17, <1>18, <1>19, BooksAfter DEF q

(* OnUpdateScreenRectsAck.                                                   *)
LEMMA BooksRectsAck ==
  ASSUME Books, life = "up", NEW m \in ToBrowser, m.t = "rects_ack",
         to_browser # <<>>, m = Head(to_browser), to_browser' = Tail(to_browser),
         Do(RectsAcked(host)), UNCHANGED <<view, rect, current_size, life, rw, refused>>
  PROVE  Books'
<1> DEFINE h  == [host EXCEPT !.waiting_for_screen_rects_ack = FALSE]
           st == RectsAcked(host)
           q  == to_renderer
           b  == to_browser
           p  == Tail(to_browser)
<1>1. /\ host \in HostType /\ view \in Views /\ rect \in Rects /\ rw \in WidgetType
      /\ q \in Seq(ToRenderer) /\ b \in Seq(ToBrowser) /\ refused \in BOOLEAN
      /\ current_size \in Sizes \cup {EmulatedSize}
  BY DEF Books, TypeOK
<1>2. p \in Seq(ToBrowser) /\ b # <<>> /\ Head(b) = m
  BY <1>1
<1>3. st = IF host.last_rect = rect THEN Step(h) ELSE SendScreenRects(Step(h), rect)
  BY DEF RectsAcked
<1>4. /\ h \in HostType /\ h.old = host.old
      /\ h.resize_ack_pending = host.resize_ack_pending
      /\ h.repaint_ack_pending = host.repaint_ack_pending
      /\ ~ h.waiting_for_screen_rects_ack
  BY <1>1 DEF HostType
<1>5. Do(st)
  OBVIOUS
<1> HIDE DEF h, st
<1>6. ~ Bears(m, "resize") /\ ~ Bears(m, "repaint") /\ Bears(m, "rects")
  BY DEF Bears
<1>7. /\ Count(b, "resize") = Count(p, "resize") /\ Count(b, "repaint") = Count(p, "repaint")
      /\ Count(b, "rects") = Count(p, "rects") + 1
  <2>1. /\ Count(b, "resize") = Count(p, "resize") + Owed(Bears(m, "resize"))
        /\ Count(b, "repaint") = Count(p, "repaint") + Owed(Bears(m, "repaint"))
        /\ Count(b, "rects") = Count(p, "rects") + Owed(Bears(m, "rects"))
    BY <1>1, <1>2, CountTail
  <2>2. Count(p, "resize") \in Nat /\ Count(p, "repaint") \in Nat
    BY <1>2, CountIsNat
  <2> QED BY <1>6, <2>1, <2>2 DEF Owed
<1>8. Count(q, "rects") \in Nat /\ Count(p, "rects") \in Nat
  BY <1>1, <1>2, CountIsNat
<1> HIDE DEF b, p, q
<1>9. Square(host, q, b, rw, refused)
  BY DEF Books, b, q
<1>10. Count(q, "rects") + Count(p, "rects") = Owed(h.waiting_for_screen_rects_ack)
  BY <1>4, <1>7, <1>8, <1>9 DEF Square, Owed
<1>11. Square(h, q, p, rw, refused)
  BY <1>4, <1>7, <1>9, <1>10 DEF Square
<1>12. Fine(Step(h), q, p, rw, refused)
  BY <1>1, <1>4, <1>11, FineStart DEF q
<1>13. Fine(st, q, p, rw, refused)
  <2>1. Fine(SendScreenRects(Step(h), rect), q, p, rw, refused)
    BY <1>1, <1>2, <1>12, FineSendScreenRects DEF q
  <2> QED BY <1>3, <1>12, <2>1
<1>14. st.h \in HostType
  BY <1>13 DEF Fine
<1>15. to_browser' = p
  BY DEF p
<1>16. /\ view' \in Views /\ rect' \in Rects
       /\ current_size' \in Sizes \cup {EmulatedSize} /\ life # "down"
  BY <1>1
<1> QED BY <1>2, <1>5, <1>13, <1>14, <1>15, <1>16, BooksAfter DEF q

LEMMA BooksOnMessageReceived == Books /\ OnMessageReceived => Books'
<1> SUFFICES ASSUME Books, OnMessageReceived PROVE Books'
  OBVIOUS
<1> DEFINE m == Head(to_browser)
<1>1. to_browser \in Seq(ToBrowser)
  BY DEF Books, TypeOK
<1>2. /\ life = "up" /\ to_browser # <<>> /\ to_browser' = Tail(to_browser)
      /\ UNCHANGED <<view, rect, life, rw, refused>>
      /\ \/ m.t = "update" /\ Do(Updated(host, m)) /\ current_size' = m.size
         \/ m.t = "rects_ack" /\ Do(RectsAcked(host)) /\ UNCHANGED current_size
  BY DEF OnMessageReceived
<1>3. m \in ToBrowser
  BY <1>1, <1>2
<1>4. PICK n \in ToBrowser : n = m
  BY <1>3
<1> HIDE DEF m
<1>5. n = Head(to_browser)
  BY <1>4 DEF m
<1>6. CASE n.t = "update" /\ Do(Updated(host, n)) /\ current_size' = n.size
  BY <1>2, <1>5, <1>6, BooksUpdate
<1>7. CASE n.t = "rects_ack" /\ Do(RectsAcked(host)) /\ UNCHANGED current_size
  BY <1>2, <1>5, <1>7, BooksRectsAck
<1> QED BY <1>2, <1>4, <1>6, <1>7

-----------------------------------------------------------------------------
(* Crash and reload: nothing is under way and nothing is awaited.            *)

LEMMA BooksConnectionLost == Books /\ ConnectionLost => Books'
<1> SUFFICES ASSUME Books, ConnectionLost PROVE Books'
  OBVIOUS
<1>1. /\ life' = "dying" /\ to_renderer' = <<>> /\ to_browser' = <<>>
      /\ rw' = Fresh(TRUE) /\ refused' = FALSE
      /\ UNCHANGED <<view, rect, host, current_size>>
  BY DEF ConnectionLost
<1>2. rw' \in WidgetType /\ Plain(rw')
  BY <1>1 DEF Fresh, WidgetType, Sizes, Backings, Params, Plain
<1>3. to_renderer' \in Seq(ToRenderer) /\ to_browser' \in Seq(ToBrowser)
  BY <1>1
<1>4. TypeOK'
  BY <1>1, <1>2, <1>3 DEF Books, TypeOK
<1> QED BY <1>1, <1>2, <1>4 DEF Books

LEMMA BooksRendererExited == Books /\ RendererExited => Books'
<1> SUFFICES ASSUME Books, RendererExited PROVE Books'
  OBVIOUS
<1> DEFINE last == IF host.old = NoParams THEN host.old
                   ELSE [host.old EXCEPT !.size = None]
<1>1. /\ host \in HostType /\ life = "dying" /\ life' = "down" /\ current_size' = None
      /\ UNCHANGED <<view, rect, to_renderer, to_browser, rw, refused>>
  BY DEF Books, TypeOK, RendererExited
<1>2. last \in OldParams /\ (last = NoParams \/ last.size = None)
  <2>1. CASE host.old = NoParams
    BY <2>1 DEF OldParams
  <2>2. CASE host.old # NoParams
    <3>1. PICK v \in Views : host.old = v \/ host.old = Params(None, v.backing)
      BY <1>1, <2>2 DEF HostType, OldParams
    <3>2. host.old = [size |-> host.old.size, backing |-> v.backing]
      BY <3>1, SizeAssumption DEF Params
    <3>3. last = [size |-> None, backing |-> v.backing]
      BY <2>2, <3>2
    <3> QED BY <3>3 DEF OldParams, Params
  <2> QED BY <2>1, <2>2
<1>3. host' = [host EXCEPT !.renderer_initialized = FALSE,
                           !.waiting_for_screen_rects_ack = FALSE,
                           !.resize_ack_pending = FALSE, !.repaint_ack_pending = FALSE,
                           !.old = last, !.hidden = TRUE]
  BY DEF RendererExited, Exited
<1> HIDE DEF last
<1>4. /\ host' \in HostType /\ host'.old = last /\ ~ host'.resize_ack_pending
      /\ ~ host'.repaint_ack_pending /\ ~ host'.waiting_for_screen_rects_ack
  BY <1>1, <1>2, <1>3 DEF HostType
<1>5. TypeOK'
  BY <1>1, <1>4 DEF Books, TypeOK, Sizes
<1> QED BY <1>1, <1>2, <1>4, <1>5 DEF Books

LEMMA BooksCreateRenderView == Books /\ CreateRenderView => Books'
<1> SUFFICES ASSUME Books, CreateRenderView PROVE Books'
  OBVIOUS
<1> DEFINE ack == NeedsResizeAck(host, view)
           m   == [t |-> "resize", params |-> view, ack |-> ack]
           w   == Fresh(host.hidden)
           g   == [host EXCEPT !.renderer_initialized = TRUE,
                               !.resize_ack_pending = ack, !.old = view]
<1>1. /\ host \in HostType /\ view \in Views /\ life = "down" /\ life' = "up"
      /\ host' = g /\ to_renderer' = <<m>> /\ rw' = w
      /\ to_browser = <<>> /\ ~ refused /\ refused \in BOOLEAN
      /\ UNCHANGED <<view, rect, current_size, to_browser, refused>>
  BY DEF CreateRenderView, Books, TypeOK
<1>2. /\ ~ host.repaint_ack_pending /\ ~ host.waiting_for_screen_rects_ack
      /\ host.old = NoParams \/ host.old.size = None
  BY <1>1 DEF Books
<1>3. ack \in BOOLEAN /\ view \in OldParams
  BY <1>1 DEF NeedsResizeAck, Drawable, OldParams
<1>4. Drawable(view) /\ (host.old = NoParams \/ host.old.size # view.size) => ack
  BY DEF NeedsResizeAck, Changed
<1> HIDE DEF ack
<1>5. /\ w \in WidgetType /\ ~ w.next_resize_ack /\ ~ w.next_repaint_ack
      /\ ~ w.emulated /\ w.size = None /\ w.backing = None
  BY <1>1 DEF Fresh, WidgetType, HostType, Sizes, Backings, Params
<1>6. /\ g \in HostType /\ g.old = view /\ g.resize_ack_pending = ack
      /\ g.repaint_ack_pending = host.repaint_ack_pending
      /\ g.waiting_for_screen_rects_ack = host.waiting_for_screen_rects_ack
  BY <1>1, <1>3 DEF HostType
<1>7. /\ m \in ToRenderer /\ m.t = "resize" /\ m.params = view /\ m.ack = ack
      /\ Bears(m, "resize") <=> ack
      /\ ~ Bears(m, "repaint") /\ ~ Bears(m, "rects")
  BY <1>1, <1>3 DEF ToRenderer, Bears
<1> HIDE DEF m, w, g
<1>8. /\ <<>> \in Seq(ToRenderer) /\ <<m>> = Append(<<>>, m)
      /\ <<m>> \in Seq(ToRenderer) /\ <<>> \in Seq(ToBrowser)
  BY <1>7
<1>9. /\ Count(<<>>, "resize") = 0 /\ Count(<<>>, "repaint") = 0
      /\ Count(<<>>, "rects") = 0
  BY CountEmpty
<1>10. /\ Count(<<m>>, "resize") = Owed(ack) /\ Count(<<m>>, "repaint") = 0
       /\ Count(<<m>>, "rects") = 0
  <2>1. /\ Count(Append(<<>>, m), "resize") = Count(<<>>, "resize") + Owed(Bears(m, "resize"))
        /\ Count(Append(<<>>, m), "repaint") = Count(<<>>, "repaint") + Owed(Bears(m, "repaint"))
        /\ Count(Append(<<>>, m), "rects") = Count(<<>>, "rects") + Owed(Bears(m, "rects"))
    BY <1>7, <1>8, CountAppend
  <2> QED BY <1>7, <1>8, <1>9, <2>1 DEF Owed
<1>11. Told(view, <<m>>, Given(w).size)
  <2> DEFINE f == [i \in 0..0 |-> None]
  <2>1. Given(w).size = None
    BY <1>5 DEF Given, Params
  <2>2. f \in [0..Len(<<>>) -> Sizes] /\ f[0] = None /\ Tells(f, <<>>)
    BY DEF Sizes, Tells
  <2>3. Told(host.old, <<>>, None)
    BY <1>2, <2>2 DEF Told
  <2>4. Told(view, Append(<<>>, m), None)
    BY <1>4, <1>7, <1>8, <2>3, ToldAppend
  <2> QED BY <1>8, <2>1, <2>4
<1>12. Square(g, <<m>>, <<>>, w, refused)
  <2>1. Count(<<m>>, "resize") + Owed(w.next_resize_ack) + Count(<<>>, "resize")
          = Owed(g.resize_ack_pending /\ ~ refused)
    <3>1. Owed(w.next_resize_ack) = 0 /\ Owed(ack) \in Nat
      BY <1>5 DEF Owed
    <3>2. Owed(g.resize_ack_pending /\ ~ refused) = Owed(ack)
      BY <1>1, <1>6 DEF Owed
    <3> QED BY <1>9, <1>10, <3>1, <3>2
  <2>2. Owed(w.next_repaint_ack) = 0 /\ Owed(g.repaint_ack_pending) = 0
        /\ Owed(g.waiting_for_screen_rects_ack) = 0
    BY <1>2, <1>5, <1>6 DEF Owed
  <2>3. Count(<<m>>, "repaint") + Owed(w.next_repaint_ack) + Count(<<>>, "repaint")
          = Owed(g.repaint_ack_pending)
    BY <1>9, <1>10, <2>2
  <2>4. Count(<<m>>, "rects") + Count(<<>>, "rects") = Owed(g.waiting_for_screen_rects_ack)
    BY <1>9, <1>10, <2>2
  <2>5. refused => g.resize_ack_pending
    BY <1>1
  <2> QED BY <1>6, <1>11, <2>1, <2>3, <2>4, <2>5 DEF Square
<1>13. to_browser' = <<>>
  BY <1>1
<1>14. TypeOK'
  <2>1. host' \in HostType /\ rw' \in WidgetType /\ life' \in {"up", "dying", "down"}
    BY <1>1, <1>5, <1>6
  <2>2. to_renderer' \in Seq(ToRenderer) /\ to_browser' \in Seq(ToBrowser)
    BY <1>1, <1>8, <1>13
  <2>3. UNCHANGED <<view, rect, current_size, refused>>
    BY <1>1
  <2> QED BY <2>1, <2>2, <2>3 DEF Books, TypeOK
<1>15. Plain(rw')
  BY <1>1, <1>5 DEF Plain, Sizes, Backings
<1>16. Square(host', to_renderer', to_browser', rw', refused')
  <2>1. /\ host' = g /\ to_renderer' = <<m>> /\ rw' = w /\ refused' = refused
    BY <1>1
  <2> QED BY <1>12, <1>13, <2>1
<1> QED BY <1>1, <1>14, <1>15, <1>16 DEF Books

-----------------------------------------------------------------------------
(* The actions of the renderer.                                              *)

LEMMA ResizeKeeps ==
  ASSUME NEW w \in WidgetType, NEW s \in Sizes \cup {EmulatedSize},
         NEW k \in Backings \cup {ScaledBacking}, NEW ack \in BOOLEAN
  PROVE  LET e == Resize(w, Params(s, k), ack)
         IN  /\ e \in WidgetType /\ e.size = s /\ e.backing = k
             /\ e.emulated = w.emulated /\ e.original = w.original
             /\ e.next_resize_ack = (w.next_resize_ack \/ ack)
             /\ ~ ack => e.next_resize_ack = w.next_resize_ack
             /\ e.next_repaint_ack = w.next_repaint_ack
<1> DEFINE d == w.damaged \/ Params(w.size, w.backing) # Params(s, k)
           n == w.next_resize_ack \/ ack
           e == [w EXCEPT !.size = s, !.backing = k, !.damaged = d, !.next_resize_ack = n]
<1>1. Resize(w, Params(s, k), ack) = e
  BY DEF Resize, Params
<1>2. d \in BOOLEAN /\ n \in BOOLEAN /\ (~ ack => n = w.next_resize_ack)
  BY DEF WidgetType
<1> HIDE DEF d, n
<1>3. /\ e \in WidgetType /\ e.size = s /\ e.backing = k
      /\ e.emulated = w.emulated /\ e.original = w.original
      /\ e.next_resize_ack = n /\ e.next_repaint_ack = w.next_repaint_ack
  BY <1>2 DEF WidgetType
<1> QED BY <1>1, <1>2, <1>3 DEF n

(* Without a request for an ack. *)
LEMMA QuietResizeKeeps ==
  ASSUME NEW w \in WidgetType, NEW s \in Sizes \cup {EmulatedSize},
         NEW k \in Backings \cup {ScaledBacking}
  PROVE  LET e == Resize(w, Params(s, k), FALSE)
         IN  /\ e \in WidgetType /\ e.size = s /\ e.backing = k
             /\ e.emulated = w.emulated /\ e.original = w.original
             /\ e.next_resize_ack = w.next_resize_ack
             /\ e.next_repaint_ack = w.next_repaint_ack
<1>1. PICK no \in BOOLEAN : no = FALSE
  OBVIOUS
<1> DEFINE e == Resize(w, Params(s, k), no)
<1>2. Resize(w, Params(s, k), FALSE) = e
  BY <1>1, Zenon
<1>3. ~ no
  BY <1>1
<1>4. /\ e \in WidgetType /\ e.size = s /\ e.backing = k
      /\ e.emulated = w.emulated /\ e.original = w.original
      /\ ~ no => e.next_resize_ack = w.next_resize_ack
      /\ e.next_repaint_ack = w.next_repaint_ack
  BY ResizeKeeps
<1> HIDE DEF e
<1> QED BY <1>2, <1>3, <1>4

LEMMA ApplyKeeps ==
  ASSUME NEW w \in WidgetType
  PROVE  /\ Apply(w) \in WidgetType
         /\ Apply(w).emulated = w.emulated /\ Apply(w).original = w.original
         /\ Apply(w).next_resize_ack = w.next_resize_ack
         /\ Apply(w).next_repaint_ack = w.next_repaint_ack
<1> DEFINE k == IF w.original.size = None THEN None ELSE ScaledBacking
<1>1. k \in Backings \cup {ScaledBacking} /\ EmulatedSize \in Sizes \cup {EmulatedSize}
  BY DEF Backings
<1>2. Apply(w) = Resize(w, Params(EmulatedSize, k), FALSE)
  BY DEF Apply
<1> HIDE DEF k
<1> DEFINE e == Resize(w, Params(EmulatedSize, k), FALSE)
<1>3. /\ e \in WidgetType /\ e.emulated = w.emulated /\ e.original = w.original
      /\ e.next_resize_ack = w.next_resize_ack
      /\ e.next_repaint_ack = w.next_repaint_ack
  BY <1>1, QuietResizeKeeps
<1> HIDE DEF e
<1> QED BY <1>2, <1>3 DEF e

(* OnResize: the widget has the size of the message, and owes an ack if the  *)
(* message asks for one or, while emulating, if the emulator finds one due.  *)
LEMMA OnResizeKeeps ==
  ASSUME NEW w \in WidgetType, Plain(w), NEW m \in ToRenderer, m.t = "resize"
  PROVE  /\ OnResize(w, m) \in WidgetType /\ Plain(OnResize(w, m))
         /\ Given(OnResize(w, m)).size = m.params.size
         /\ OnResize(w, m).next_repaint_ack = w.next_repaint_ack
         /\ OnResize(w, m).next_resize_ack =
              (w.next_resize_ack \/ IF w.emulated THEN EmulatorAcks(w, m.params) ELSE m.ack)
<1>1. m.params \in Views /\ m.ack \in BOOLEAN
  BY DEF ToRenderer
<1> DEFINE s == m.params.size
           k == m.params.backing
<1>2. s \in Sizes /\ k \in Backings /\ m.params = Params(s, k)
  BY <1>1, SizeAssumption DEF Sizes, Backings, Params
<1>3. CASE ~ w.emulated
  <2>1. OnResize(w, m) = Resize(w, Params(s, k), m.ack)
    BY <1>2, <1>3 DEF OnResize
  <2> HIDE DEF s, k
  <2>2. LET e == Resize(w, Params(s, k), m.ack)
        IN  /\ e \in WidgetType /\ e.size = s /\ e.backing = k
            /\ e.emulated = w.emulated /\ e.original = w.original
            /\ e.next_resize_ack = (w.next_resize_ack \/ m.ack)
            /\ e.next_repaint_ack = w.next_repaint_ack
    BY <1>1, <1>2, ResizeKeeps
  <2> QED BY <1>2, <1>3, <2>1, <2>2 DEF Plain, Given, Params, s
<1>4. CASE w.emulated
  <2> DEFINE due == EmulatorAcks(w, m.params)
             u == [w EXCEPT !.original = m.params]
             e == Apply(u)
             n == e.next_resize_ack \/ due
             d == e.damaged \/ due
  <2>1. OnResize(w, m) = [e EXCEPT !.next_resize_ack = n, !.damaged = d]
    BY <1>4 DEF OnResize
  <2>2. m.params \in [size : Sizes, backing : Backings]
    BY <1>2 DEF Params
  <2>3. /\ u \in WidgetType /\ u.emulated /\ u.original = m.params
        /\ u.next_resize_ack = w.next_resize_ack
        /\ u.next_repaint_ack = w.next_repaint_ack
    BY <1>4, <2>2 DEF WidgetType
  <2>4. due \in BOOLEAN
    BY DEF EmulatorAcks, Drawable
  <2> HIDE DEF u, due
  <2>5. /\ e \in WidgetType /\ e.emulated /\ e.original = m.params
        /\ e.next_resize_ack = w.next_resize_ack
        /\ e.next_repaint_ack = w.next_repaint_ack
    BY <2>3, ApplyKeeps
  <2> HIDE DEF e
  <2>6. n \in BOOLEAN /\ d \in BOOLEAN
    BY <2>4, <2>5 DEF WidgetType
  <2>7. n = (w.next_resize_ack \/ due)
    BY <2>5
  <2> HIDE DEF n, d
  <2>8. /\ OnResize(w, m) \in WidgetType /\ OnResize(w, m).emulated
        /\ OnResize(w, m).original = m.params /\ OnResize(w, m).next_resize_ack = n
        /\ OnResize(w, m).next_repaint_ack = w.next_repaint_ack
    BY <2>1, <2>5, <2>6 DEF WidgetType
  <2> QED BY <1>4, <2>7, <2>8 DEF Plain, Given, due
<1> QED BY <1>3, <1>4

LEMMA SquareWidget ==
  ASSUME NEW h, NEW q, NEW b, NEW w, NEW u, NEW r, Square(h, q, b, w, r),
         u.next_resize_ack = w.next_resize_ack, u.next_repaint_ack = w.next_repaint_ack,
         Given(u).size = Given(w).size
  PROVE  Square(h, q, b, u, r)
BY DEF Square

LEMMA BooksOnEnableDeviceEmulation == Books /\ OnEnableDeviceEmulation => Books'
<1> SUFFICES ASSUME Books, OnEnableDeviceEmulation PROVE Books'
  OBVIOUS
<1> DEFINE o == Params(rw.size, rw.backing)
           u == [rw EXCEPT !.emulated = TRUE, !.original = o]
<1>1. /\ life = "up" /\ ~ rw.emulated /\ rw' = Apply(u)
      /\ UNCHANGED <<view, rect, host, current_size, life, to_renderer, to_browser, refused>>
      /\ rw \in WidgetType /\ Plain(rw) /\ refused \in BOOLEAN
      /\ to_renderer \in Seq(ToRenderer) /\ to_browser \in Seq(ToBrowser)
  BY DEF OnEnableDeviceEmulation, Books, TypeOK
<1>2. o \in [size : Sizes, backing : Backings] /\ o.size = rw.size
  BY <1>1 DEF Plain, Params
<1> HIDE DEF o
<1>3. /\ u \in WidgetType /\ u.emulated /\ u.original = o
      /\ u.next_resize_ack = rw.next_resize_ack
      /\ u.next_repaint_ack = rw.next_repaint_ack
  BY <1>1, <1>2 DEF WidgetType
<1> HIDE DEF u
<1>4. /\ rw' \in WidgetType /\ rw'.emulated /\ rw'.original = o
      /\ rw'.next_resize_ack = rw.next_resize_ack
      /\ rw'.next_repaint_ack = rw.next_repaint_ack
  BY <1>1, <1>3, ApplyKeeps
<1>5. Plain(rw') /\ Given(rw').size = Given(rw).size
  BY <1>1, <1>2, <1>4 DEF Plain, Given, Params
<1>6. Square(host, to_renderer, to_browser, rw', refused)
  BY <1>1, <1>4, <1>5, SquareWidget DEF Books
<1> QED BY <1>1, <1>4, <1>5, <1>6, BooksRenderer

LEMMA BooksOnDisableDeviceEmulation == Books /\ OnDisableDeviceEmulation => Books'
<1> SUFFICES ASSUME Books, OnDisableDeviceEmulation PROVE Books'
  OBVIOUS
<1> DEFINE e == Resize(rw, rw.original, FALSE)
           s == rw.original.size
           k == rw.original.backing
           o == Params(None, None)
<1>1. /\ life = "up" /\ rw.emulated
      /\ rw' = [e EXCEPT !.emulated = FALSE, !.original = o]
      /\ UNCHANGED <<view, rect, host, current_size, life, to_renderer, to_browser, refused>>
      /\ rw \in WidgetType /\ refused \in BOOLEAN
      /\ to_renderer \in Seq(ToRenderer) /\ to_browser \in Seq(ToBrowser)
  BY DEF OnDisableDeviceEmulation, Books, TypeOK
<1>2. /\ s \in Sizes /\ k \in Backings /\ rw.original = Params(s, k)
      /\ o \in [size : Sizes, backing : Backings] /\ rw.next_resize_ack \in BOOLEAN
  BY <1>1 DEF WidgetType, Params, Sizes, Backings
<1> HIDE DEF s, k, o
<1>3. /\ e \in WidgetType /\ e.size = s /\ e.backing = k
      /\ e.next_resize_ack = rw.next_resize_ack
      /\ e.next_repaint_ack = rw.next_repaint_ack
  <2> DEFINE c == Resize(rw, Params(s, k), FALSE)
  <2>1. e = c
    BY <1>2, Zenon
  <2>2. /\ rw \in WidgetType /\ s \in Sizes \cup {EmulatedSize}
        /\ k \in Backings \cup {ScaledBacking}
    BY <1>1, <1>2
  <2>3. /\ c \in WidgetType /\ c.size = s /\ c.backing = k
        /\ c.next_resize_ack = rw.next_resize_ack
        /\ c.next_repaint_ack = rw.next_repaint_ack
    BY <2>2, QuietResizeKeeps
  <2> HIDE DEF e, c
  <2> QED BY <2>1, <2>3
<1> HIDE DEF e
<1>4. /\ rw' \in WidgetType /\ ~ rw'.emulated /\ rw'.size = s /\ rw'.backing = k
      /\ rw'.next_resize_ack = rw.next_resize_ack
      /\ rw'.next_repaint_ack = rw.next_repaint_ack
  BY <1>1, <1>2, <1>3 DEF WidgetType
<1>5. Plain(rw') /\ Given(rw').size = Given(rw).size
  BY <1>1, <1>2, <1>4 DEF Plain, Given, Params, s
<1>6. Square(host, to_renderer, to_browser, rw', refused)
  BY <1>1, <1>4, <1>5, SquareWidget DEF Books
<1> QED BY <1>1, <1>4, <1>5, <1>6, BooksRenderer

LEMMA BooksDrawing == Books /\ (ContentChanges \/ Draw) => Books'
<1> SUFFICES ASSUME Books, ContentChanges \/ Draw PROVE Books'
  OBVIOUS
<1>1. /\ rw \in WidgetType /\ Plain(rw) /\ refused \in BOOLEAN
      /\ to_renderer \in Seq(ToRenderer) /\ to_browser \in Seq(ToBrowser)
  BY DEF Books, TypeOK
<1>2. /\ life = "up"
      /\ UNCHANGED <<view, rect, host, current_size, life, to_renderer, to_browser, refused>>
      /\ \/ rw' = [rw EXCEPT !.damaged = TRUE]
         \/ rw' = [rw EXCEPT !.damaged = FALSE, !.swapping = TRUE]
  BY DEF ContentChanges, Draw
<1>3. /\ rw' \in WidgetType /\ rw'.emulated = rw.emulated /\ rw'.size = rw.size
      /\ rw'.backing = rw.backing /\ rw'.original = rw.original
      /\ rw'.next_resize_ack = rw.next_resize_ack
      /\ rw'.next_repaint_ack = rw.next_repaint_ack
  BY <1>1, <1>2 DEF WidgetType
<1>4. Plain(rw') /\ Given(rw').size = Given(rw).size
  BY <1>1, <1>3 DEF Plain, Given, Params
<1>5. Square(host, to_renderer, to_browser, rw', refused)
  BY <1>2, <1>3, <1>4, SquareWidget DEF Books
<1> QED BY <1>1, <1>2, <1>3, <1>4, <1>5, BooksRenderer

(* DidCompleteSwapBuffers: what the widget owes is sent, or it owes nothing. *)
LEMMA BooksDidCompleteSwapBuffers == Books /\ DidCompleteSwapBuffers => Books'
<1> SUFFICES ASSUME Books, DidCompleteSwapBuffers PROVE Books'
  OBVIOUS
<1> DEFINE m == [t |-> "update", size |-> rw.size, resize_ack |-> rw.next_resize_ack,
                 repaint_ack |-> rw.next_repaint_ack]
           u == [rw EXCEPT !.swapping = FALSE, !.next_resize_ack = FALSE,
                           !.next_repaint_ack = FALSE]
           q == to_renderer
           b == to_browser
<1>1. /\ rw \in WidgetType /\ Plain(rw) /\ refused \in BOOLEAN
      /\ q \in Seq(ToRenderer) /\ b \in Seq(ToBrowser)
  BY DEF Books, TypeOK
<1>2. /\ life = "up" /\ rw' = u
      /\ b' = IF Flagged(rw) THEN Append(b, m) ELSE b
      /\ UNCHANGED <<view, rect, host, current_size, life, to_renderer, refused>>
  BY DEF DidCompleteSwapBuffers
<1>3. /\ u \in WidgetType /\ u.emulated = rw.emulated /\ u.size = rw.size
      /\ u.backing = rw.backing /\ u.original = rw.original
      /\ ~ u.next_resize_ack /\ ~ u.next_repaint_ack
  BY <1>1 DEF WidgetType
<1>4. /\ m \in ToBrowser /\ (Bears(m, "resize") <=> rw.next_resize_ack)
      /\ (Bears(m, "repaint") <=> rw.next_repaint_ack) /\ ~ Bears(m, "rects")
  BY <1>1 DEF WidgetType, ToBrowser, Bears
<1> HIDE DEF m, u
<1>5. Plain(u) /\ Given(u).size = Given(rw).size
  BY <1>1, <1>3 DEF Plain, Given, Params
<1>6. Square(host, q, b, rw, refused)
  BY <1>2 DEF Books
<1>7. Owed(u.next_resize_ack) = 0 /\ Owed(u.next_repaint_ack) = 0
  BY <1>3 DEF Owed
<1>8. b' \in Seq(ToBrowser)
  BY <1>1, <1>2, <1>4
<1>9. CASE ~ Flagged(rw)
  <2>1. Owed(rw.next_resize_ack) = 0 /\ Owed(rw.next_repaint_ack) = 0 /\ b' = b
    BY <1>2, <1>9 DEF Flagged, Owed
  <2>2. Square(host, q, b, u, refused)
    BY <1>5, <1>6, <1>7, <2>1 DEF Square
  <2>3. Square(host, to_renderer', to_browser', rw', refused')
    BY <1>2, <2>1, <2>2
  <2> QED BY <1>1, <1>2, <1>3, <1>5, <1>8, <2>3, BooksRenderer
<1>10. CASE Flagged(rw)
  <2>1. b' = Append(b, m)
    BY <1>2, <1>10
  <2>2. /\ Count(q, "resize") \in Nat /\ Count(q, "repaint") \in Nat
        /\ Count(b, "resize") \in Nat /\ Count(b, "repaint") \in Nat
        /\ Count(b, "rects") \in Nat
    BY <1>1, CountIsNat
  <2>3. /\ Count(Append(b, m), "resize") = Count(b, "resize") + Owed(Bears(m, "resize"))
        /\ Count(Append(b, m), "repaint") = Count(b, "repaint") + Owed(Bears(m, "repaint"))
        /\ Count(Append(b, m), "rects") = Count(b, "rects") + Owed(Bears(m, "rects"))
    BY <1>1, <1>4, CountAppend
  <2>4. /\ Count(Append(b, m), "resize") = Count(b, "resize") + Owed(rw.next_resize_ack)
        /\ Count(Append(b, m), "repaint") = Count(b, "repaint") + Owed(rw.next_repaint_ack)
        /\ Count(Append(b, m), "rects") = Count(b, "rects")
    BY <1>4, <2>2, <2>3 DEF Owed
  <2>5. Owed(rw.next_resize_ack) \in Nat /\ Owed(rw.next_repaint_ack) \in Nat
    BY DEF Owed
  <2>6. /\ Count(q, "resize") + Owed(u.next_resize_ack) + Count(Append(b, m), "resize")
             = Count(q, "resize") + Owed(rw.next_resize_ack) + Count(b, "resize")
        /\ Count(q, "repaint") + Owed(u.next_repaint_ack) + Count(Append(b, m), "repaint")
             = Count(q, "repaint") + Owed(rw.next_repaint_ack) + Count(b, "repaint")
    BY <1>7, <2>2, <2>4, <2>5
  <2>7. Square(host, q, Append(b, m), u, refused)
    BY <1>5, <1>6, <2>4, <2>6 DEF Square
  <2>8. Square(host, to_renderer', to_browser', rw', refused')
    BY <1>2, <2>1, <2>7
  <2> QED BY <1>1, <1>2, <1>3, <1>5, <1>8, <2>8, BooksRenderer
<1> QED BY <1>9, <1>10

(* The renderer handles m, the first message, and becomes u. *)
LEMMA SquareHandled ==
  ASSUME NEW h, NEW q \in Seq(ToRenderer), q # <<>>, NEW b \in Seq(ToBrowser),
         NEW w, NEW u, NEW r, NEW s,
         Square(h, q, b, w, r), Head(q).t # "rects",
         IF Head(q).t = "resize" THEN Given(u).size = Head(q).params.size
                                 ELSE Given(u).size = Given(w).size,
         /\ s => h.resize_ack_pending
         /\ Count(Tail(q), "resize") + Owed(u.next_resize_ack) + Count(b, "resize")
              = Owed(h.resize_ack_pending /\ ~ s),
         Count(Tail(q), "repaint") + Owed(u.next_repaint_ack)
           = Count(q, "repaint") + Owed(w.next_repaint_ack)
  PROVE  Square(h, Tail(q), b, u, s)
<1>1. Told(h.old, q, Given(w).size)
  BY DEF Square
<1>2. Told(h.old, Tail(q), Given(u).size)
  BY <1>1, ToldTail
<1>3. Head(q) \in ToRenderer /\ Tail(q) \in Seq(ToRenderer)
  OBVIOUS
<1>4. ~ Bears(Head(q), "rects")
  BY <1>3 DEF Bears, ToRenderer
<1>5. Count(q, "rects") = Count(Tail(q), "rects") + Owed(Bears(Head(q), "rects"))
  BY CountTail
<1>6. Count(Tail(q), "rects") \in Nat
  BY <1>3, CountIsNat
<1>7. Count(q, "rects") = Count(Tail(q), "rects")
  BY <1>4, <1>5, <1>6 DEF Owed
<1> QED BY <1>2, <1>7 DEF Square

LEMMA BooksOnRendererMessage == Books /\ OnRendererMessage => Books'
<1> SUFFICES ASSUME Books, OnRendererMessage PROVE Books'
  OBVIOUS
<1> DEFINE q == to_renderer
           b == to_browser
           m == Head(to_renderer)
           p == Tail(to_renderer)
<1>1. /\ host \in HostType /\ rw \in WidgetType /\ Plain(rw) /\ refused \in BOOLEAN
      /\ q \in Seq(ToRenderer) /\ b \in Seq(ToBrowser)
  BY DEF Books, TypeOK
<1>2. /\ life = "up" /\ q # <<>> /\ to_renderer' = p
      /\ UNCHANGED <<view, rect, host, current_size, life>>
      /\ \/ /\ m.t = "resize" /\ rw' = OnResize(rw, m) /\ b' = b
            /\ refused' = (refused \/ (m.ack /\ ~ rw'.next_resize_ack))
         \/ m.t = "repaint" /\ rw' = OnRepaint(rw) /\ UNCHANGED <<to_browser, refused>>
         \/ /\ m.t = "hidden" /\ rw' = [rw EXCEPT !.hidden = TRUE]
            /\ UNCHANGED <<to_browser, refused>>
         \/ m.t = "shown" /\ rw' = OnWasShown(rw) /\ UNCHANGED <<to_browser, refused>>
         \/ /\ m.t = "rects" /\ b' = Append(b, [t |-> "rects_ack"])
            /\ UNCHANGED <<rw, refused>>
  BY DEF OnRendererMessage
<1>3. m \in ToRenderer /\ p \in Seq(ToRenderer) /\ m = Head(q) /\ p = Tail(q)
  BY <1>1, <1>2
<1>4. Square(host, q, b, rw, refused)
  BY <1>2 DEF Books
<1>5. /\ Count(q, "resize") = Count(p, "resize") + Owed(Bears(m, "resize"))
      /\ Count(q, "repaint") = Count(p, "repaint") + Owed(Bears(m, "repaint"))
      /\ Count(q, "rects") = Count(p, "rects") + Owed(Bears(m, "rects"))
  BY <1>1, <1>2, <1>3, CountTail
<1>6. /\ Count(p, "resize") \in Nat /\ Count(p, "repaint") \in Nat
      /\ Count(p, "rects") \in Nat /\ Count(b, "resize") \in Nat
      /\ Count(b, "repaint") \in Nat /\ Count(b, "rects") \in Nat
  BY <1>1, <1>3, CountIsNat
<1>7. UNCHANGED <<view, rect, host, current_size, life>> /\ life = "up"
      /\ to_renderer' = p /\ q # <<>>
  BY <1>2
<1> HIDE DEF q, b, m, p
<1>8. CASE /\ m.t = "resize" /\ rw' = OnResize(rw, m) /\ b' = b
           /\ refused' = (refused \/ (m.ack /\ ~ rw'.next_resize_ack))
  <2> DEFINE u    == OnResize(rw, m)
             sets == IF rw.emulated THEN EmulatorAcks(rw, m.params) ELSE m.ack
             s    == refused \/ (m.ack /\ ~ u.next_resize_ack)
  <2>1. /\ m.ack \in BOOLEAN /\ m.params \in Views /\ rw.next_resize_ack \in BOOLEAN
        /\ host.resize_ack_pending \in BOOLEAN
    BY <1>1, <1>3, <1>8 DEF ToRenderer, WidgetType, HostType
  <2>2. /\ u \in WidgetType /\ Plain(u) /\ Given(u).size = m.params.size
        /\ u.next_repaint_ack = rw.next_repaint_ack
        /\ u.next_resize_ack = (rw.next_resize_ack \/ sets)
    BY <1>1, <1>3, <1>8, OnResizeKeeps
  <2>3. sets \in BOOLEAN
    BY <2>1 DEF EmulatorAcks, Drawable
  <2>4. sets => m.ack
    <3>1. Told(host.old, q, Given(rw).size)
      BY <1>4 DEF Square
    <3>2. Drawable(m.params) /\ Given(rw).size # m.params.size => m.ack
      BY <1>1, <1>3, <1>7, <1>8, <3>1, ToldTail
    <3> QED BY <3>2 DEF EmulatorAcks, Given
  <2>5. rw' = u /\ refused' = (refused \/ (m.ack /\ ~ u.next_resize_ack))
    BY <1>8
  <2> HIDE DEF u, sets
  <2>6. refused' = s /\ s \in BOOLEAN /\ u.next_resize_ack \in BOOLEAN
    BY <1>1, <2>1, <2>2, <2>3, <2>5 DEF WidgetType
  <2>7. /\ Bears(m, "resize") <=> m.ack
        /\ ~ Bears(m, "repaint")
    BY <1>8 DEF Bears
  <2>8. (Count(p, "resize") + Owed(m.ack)) + Owed(rw.next_resize_ack) + Count(b, "resize")
          = Owed(host.resize_ack_pending /\ ~ refused)
    <3>1. Owed(Bears(m, "resize")) = Owed(m.ack)
      BY <2>7 DEF Owed
    <3> QED BY <1>4, <1>5, <3>1 DEF Square
  <2>9. refused => host.resize_ack_pending
    BY <1>4 DEF Square
  <2>10. s = (refused \/ (m.ack /\ ~ u.next_resize_ack))
    OBVIOUS
  <2> HIDE DEF s
  <2>11. /\ s => host.resize_ack_pending
         /\ Count(p, "resize") + Owed(u.next_resize_ack) + Count(b, "resize")
              = Owed(host.resize_ack_pending /\ ~ s)
    <3> DEFINE x    == Count(p, "resize")
               z    == Count(b, "resize")
               wait == host.resize_ack_pending
    <3>1. x \in Nat /\ z \in Nat
      BY <1>6
    <3>2. Owed(rw.next_resize_ack) \in {0, 1} /\ Owed(m.ack) \in {0, 1}
      BY DEF Owed
    <3>3. (x + Owed(m.ack)) + Owed(rw.next_resize_ack) + z = Owed(wait /\ ~ refused)
      BY <2>8
    <3> HIDE DEF x, z
    <3>4. CASE m.ack
      <4>1. Owed(m.ack) = 1
        BY <3>4 DEF Owed
      <4>2. wait /\ ~ refused
        BY <3>1, <3>2, <3>3, <4>1 DEF Owed
      <4>3. Owed(wait /\ ~ refused) = 1
        BY <4>2 DEF Owed
      <4>4. x = 0 /\ z = 0 /\ Owed(rw.next_resize_ack) = 0
        BY <3>1, <3>2, <3>3, <4>1, <4>3
      <4>5. CASE u.next_resize_ack
        <5>1. Owed(u.next_resize_ack) = 1 /\ Owed(wait /\ ~ s) = 1
          BY <2>10, <4>2, <4>5 DEF Owed
        <5>2. x + Owed(u.next_resize_ack) + z = 1
          BY <4>4, <5>1
        <5> QED BY <4>2, <5>1, <5>2 DEF x, z
      <4>6. CASE ~ u.next_resize_ack
        <5>1. Owed(u.next_resize_ack) = 0 /\ Owed(wait /\ ~ s) = 0
          BY <2>10, <3>4, <4>6 DEF Owed
        <5>2. x + Owed(u.next_resize_ack) + z = 0
          BY <4>4, <5>1
        <5> QED BY <4>2, <5>1, <5>2 DEF x, z
      <4> QED BY <4>5, <4>6
    <3>5. CASE ~ m.ack
      <4>1. Owed(m.ack) = 0 /\ (s <=> refused)
        BY <2>10, <3>5 DEF Owed
      <4>2. u.next_resize_ack <=> rw.next_resize_ack
        BY <2>1, <2>2, <2>3, <2>4, <3>5
      <4>3. /\ Owed(u.next_resize_ack) = Owed(rw.next_resize_ack)
            /\ Owed(wait /\ ~ s) = Owed(wait /\ ~ refused)
        BY <4>1, <4>2 DEF Owed
      <4>4. x + Owed(u.next_resize_ack) + z = Owed(wait /\ ~ s)
        BY <3>1, <3>2, <3>3, <4>1, <4>3
      <4> QED BY <2>9, <4>1, <4>4 DEF x, z
    <3> QED BY <3>4, <3>5
  <2>12. Count(p, "repaint") + Owed(u.next_repaint_ack)
           = Count(q, "repaint") + Owed(rw.next_repaint_ack)
    <3>1. Owed(Bears(m, "repaint")) = 0
      BY <2>7 DEF Owed
    <3> QED BY <1>5, <1>6, <2>2, <3>1
  <2>13. Square(host, Tail(q), b, u, s)
    BY <1>1, <1>3, <1>4, <1>7, <1>8, <2>2, <2>11, <2>12, SquareHandled
  <2>14. Square(host, to_renderer', to_browser', rw', refused')
    BY <1>3, <1>7, <1>8, <2>5, <2>6, <2>13 DEF b
  <2>15. /\ to_renderer' \in Seq(ToRenderer) /\ to_browser' \in Seq(ToBrowser)
         /\ refused' \in BOOLEAN
    BY <1>1, <1>3, <1>7, <1>8, <2>6 DEF b
  <2> QED BY <1>7, <2>2, <2>5, <2>14, <2>15, BooksRenderer
<1>9. CASE m.t = "repaint" /\ rw' = OnRepaint(rw) /\ UNCHANGED <<to_browser, refused>>
  <2> DEFINE u == [rw EXCEPT !.next_repaint_ack = TRUE, !.damaged = TRUE]
  <2>1. rw' = u
    BY <1>9 DEF OnRepaint
  <2>2. /\ u \in WidgetType /\ u.emulated = rw.emulated /\ u.size = rw.size
        /\ u.backing = rw.backing /\ u.original = rw.original
        /\ u.next_resize_ack = rw.next_resize_ack /\ u.next_repaint_ack
    BY <1>1 DEF WidgetType
  <2> HIDE DEF u
  <2>3. Plain(u) /\ Given(u).size = Given(rw).size
    BY <1>1, <2>2 DEF Plain, Given, Params
  <2>4. ~ Bears(m, "resize") /\ Bears(m, "repaint")
    BY <1>9 DEF Bears
  <2>5. Count(q, "resize") = Count(p, "resize") /\ Count(q, "repaint") = Count(p, "repaint") + 1
    BY <1>5, <1>6, <2>4 DEF Owed
  <2>6. Owed(rw.next_repaint_ack) = 0
    BY <1>4, <1>6, <2>5 DEF Square, Owed
  <2>7. Count(p, "repaint") + Owed(u.next_repaint_ack)
          = Count(q, "repaint") + Owed(rw.next_repaint_ack)
    BY <1>6, <2>2, <2>5, <2>6 DEF Owed
  <2>8. /\ refused => host.resize_ack_pending
        /\ Count(p, "resize") + Owed(u.next_resize_ack) + Count(b, "resize")
             = Owed(host.resize_ack_pending /\ ~ refused)
    BY <1>4, <2>2, <2>5 DEF Square
  <2>9. Square(host, Tail(q), b, u, refused)
    BY <1>1, <1>3, <1>4, <1>7, <1>9, <2>3, <2>7, <2>8, SquareHandled
  <2>10. Square(host, to_renderer', to_browser', rw', refused')
    BY <1>3, <1>7, <1>9, <2>1, <2>9 DEF b
  <2>11. /\ to_renderer' \in Seq(ToRenderer) /\ to_browser' \in Seq(ToBrowser)
         /\ refused' \in BOOLEAN
    BY <1>1, <1>3, <1>7, <1>9 DEF b
  <2> QED BY <1>7, <2>1, <2>2, <2>3, <2>10, <2>11, BooksRenderer
<1>10. CASE \/ /\ m.t = "hidden" /\ rw' = [rw EXCEPT !.hidden = TRUE]
               /\ UNCHANGED <<to_browser, refused>>
            \/ m.t = "shown" /\ rw' = OnWasShown(rw) /\ UNCHANGED <<to_browser, refused>>
  <2>1. \/ rw' = [rw EXCEPT !.hidden = TRUE]
        \/ rw' = [rw EXCEPT !.hidden = FALSE, !.damaged = TRUE]
    BY <1>10 DEF OnWasShown
  <2>2. /\ rw' \in WidgetType /\ rw'.emulated = rw.emulated /\ rw'.size = rw.size
        /\ rw'.backing = rw.backing /\ rw'.original = rw.original
        /\ rw'.next_resize_ack = rw.next_resize_ack
        /\ rw'.next_repaint_ack = rw.next_repaint_ack
    BY <1>1, <2>1 DEF WidgetType
  <2>3. Plain(rw') /\ Given(rw').size = Given(rw).size
    BY <1>1, <2>2 DEF Plain, Given, Params
  <2>4. m.t # "resize" /\ m.t # "rects" /\ ~ Bears(m, "resize") /\ ~ Bears(m, "repaint")
    BY <1>10 DEF Bears
  <2>5. Count(q, "resize") = Count(p, "resize") /\ Count(q, "repaint") = Count(p, "repaint")
    BY <1>5, <1>6, <2>4 DEF Owed
  <2>6. /\ refused => host.resize_ack_pending
        /\ Count(p, "resize") + Owed(rw'.next_resize_ack) + Count(b, "resize")
             = Owed(host.resize_ack_pending /\ ~ refused)
        /\ Count(p, "repaint") + Owed(rw'.next_repaint_ack)
             = Count(q, "repaint") + Owed(rw.next_repaint_ack)
    BY <1>4, <2>2, <2>5 DEF Square
  <2>7. Square(host, Tail(q), b, rw', refused)
    BY <1>1, <1>3, <1>4, <1>7, <2>3, <2>4, <2>6, SquareHandled
  <2>8. Square(host, to_renderer', to_browser', rw', refused')
    BY <1>3, <1>7, <1>10, <2>7 DEF b
  <2>9. /\ to_renderer' \in Seq(ToRenderer) /\ to_browser' \in Seq(ToBrowser)
        /\ refused' \in BOOLEAN
    BY <1>1, <1>3, <1>7, <1>10 DEF b
  <2> QED BY <1>7, <2>2, <2>3, <2>8, <2>9, BooksRenderer
<1>11. CASE /\ m.t = "rects" /\ b' = Append(b, [t |-> "rects_ack"])
            /\ UNCHANGED <<rw, refused>>
  <2> DEFINE k == [t |-> "rects_ack"]
  <2>1. /\ k \in ToBrowser /\ ~ Bears(k, "resize") /\ ~ Bears(k, "repaint")
        /\ Bears(k, "rects")
    BY DEF ToBrowser, Bears
  <2>2. b' = Append(b, k)
    BY <1>11
  <2> HIDE DEF k
  <2>3. /\ Count(Append(b, k), "resize") = Count(b, "resize") + Owed(Bears(k, "resize"))
        /\ Count(Append(b, k), "repaint") = Count(b, "repaint") + Owed(Bears(k, "repaint"))
        /\ Count(Append(b, k), "rects") = Count(b, "rects") + Owed(Bears(k, "rects"))
    BY <1>1, <2>1, CountAppend
  <2>4. /\ Count(Append(b, k), "resize") = Count(b, "resize")
        /\ Count(Append(b, k), "repaint") = Count(b, "repaint")
        /\ Count(Append(b, k), "rects") = Count(b, "rects") + 1
    BY <1>6, <2>1, <2>3 DEF Owed
  <2>5. ~ Bears(m, "resize") /\ ~ Bears(m, "repaint") /\ Bears(m, "rects")
    BY <1>11 DEF Bears
  <2>6. /\ Count(q, "resize") = Count(p, "resize") /\ Count(q, "repaint") = Count(p, "repaint")
        /\ Count(q, "rects") = Count(p, "rects") + 1
    BY <1>5, <1>6, <2>5 DEF Owed
  <2>7. Told(host.old, p, Given(rw).size)
    <3>1. Told(host.old, q, Given(rw).size)
      BY <1>4 DEF Square
    <3> QED BY <1>1, <1>3, <1>7, <1>11, <3>1, ToldTail
  <2>8. Count(p, "rects") + Count(Append(b, k), "rects") = Count(q, "rects") + Count(b, "rects")
    BY <1>6, <2>4, <2>6
  <2>9. Square(host, p, Append(b, k), rw, refused)
    BY <1>4, <2>4, <2>6, <2>7, <2>8 DEF Square
  <2>10. Square(host, to_renderer', to_browser', rw', refused')
    BY <1>7, <1>11, <2>2, <2>9 DEF b
  <2>11. to_browser' \in Seq(ToBrowser)
    BY <1>1, <2>1, <2>2 DEF b
  <2>12. to_renderer' \in Seq(ToRenderer) /\ refused' \in BOOLEAN
    BY <1>1, <1>3, <1>7, <1>11
  <2>13. rw' \in WidgetType /\ Plain(rw')
    BY <1>1, <1>11
  <2> QED BY <1>7, <2>10, <2>11, <2>12, <2>13, BooksRenderer
<1> QED BY <1>2, <1>8, <1>9, <1>10, <1>11 DEF m, b

LEMMA BooksNext == Books /\ [Next]_vars => Books'
<1> SUFFICES ASSUME Books, [Next]_vars PROVE Books'
  OBVIOUS
<1>1. CASE UNCHANGED vars
  <2>1. TypeOK'
    BY <1>1 DEF Books, TypeOK, vars
  <2>2. Plain(rw') /\ (life' = "up" =>
          Square(host', to_renderer', to_browser', rw', refused'))
    BY <1>1 DEF Books, vars
  <2> QED BY <1>1, <2>1, <2>2 DEF Books, vars
<1> QED BY <1>1, BooksInitWidget, BooksViewResized, BooksViewMoved, BooksWasHidden,
           BooksWasShown, BooksScheduleComposite, BooksOnMessageReceived,
           BooksRendererExited, BooksOnRendererMessage, BooksOnEnableDeviceEmulation,
           BooksOnDisableDeviceEmulation, BooksDrawing, BooksDidCompleteSwapBuffers,
           BooksConnectionLost, BooksCreateRenderView DEF Next

(* For any views: the host waits for an ack exactly when one is under way,   *)
(* and never for two, through hiding, emulation, crashes and reloads; only a *)
(* resize ack that the emulator did not set up is waited for in vain         *)
(* (OnUpdateRect, RenderWidget::Resize, RendererExited).                     *)
THEOREM AcksAreBooked == Spec => []AcksAreOwed
<1>1. Books => AcksAreOwed
  <2> SUFFICES ASSUME Books, Connected
               PROVE  /\ UnderWay("resize", rw.next_resize_ack)
                           = Owed(host.resize_ack_pending /\ ~ refused)
                      /\ UnderWay("repaint", rw.next_repaint_ack)
                           = Owed(host.repaint_ack_pending)
                      /\ UnderWay("rects", FALSE) = Owed(host.waiting_for_screen_rects_ack)
    BY DEF Books, AcksAreOwed
  <2>1. Square(host, to_renderer, to_browser, rw, refused)
    BY DEF Books, Connected
  <2>2. to_renderer \in Seq(ToRenderer) /\ to_browser \in Seq(ToBrowser)
    BY DEF Books, TypeOK
  <2>3. Count(to_renderer, "rects") \in Nat /\ Count(to_browser, "rects") \in Nat
    BY <2>2, CountIsNat
  <2>4. UnderWay("rects", FALSE) = Count(to_renderer, "rects") + Count(to_browser, "rects")
    BY <2>3 DEF UnderWay, Owed
  <2> QED BY <2>1, <2>4 DEF Square, UnderWay
<1> QED BY <1>1, BooksInit, BooksNext, PTL DEF Spec

=============================================================================
