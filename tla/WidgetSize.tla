----------------------------- MODULE WidgetSize -----------------------------
(***************************************************************************)
(* How a widget of the page learns its size and place: the browser's       *)
(* RenderWidgetHostImpl sends a size, waits until the renderer has painted *)
(* once more, then looks whether the view has changed again.  Repaints and *)
(* screen rectangles have acks of their own, a hidden renderer paints      *)
(* nothing, and device emulation keeps the true size behind another one.   *)
(*                                                                         *)
(* src/src/content/browser/renderer_host/render_widget_host_impl.cc (UI    *)
(* thread) and src/src/content/renderer/render_widget.cc (main thread),    *)
(* joined by two FIFO channels.  The compositor of the renderer is taken   *)
(* for its callback DidCompleteSwapBuffers.  Automatic resizing, plugin    *)
(* windows and the closing of a widget are left out.                       *)
(***************************************************************************)
EXTENDS Integers, Sequences, FiniteSets

CONSTANTS
  Views,         \* what a view may ask for: records [size, backing]
  Rects,         \* places on the screen
  None,          \* the empty size
  EmulatedSize,  \* the size of the emulated device
  ScaledBacking, \* a nonempty size in physical pixels, while emulating
  NoParams,      \* old_resize_params_ is null
  MaxChannel     \* bound: the user does nothing while more messages wait

ASSUME SizeAssumption ==
  /\ \A v \in Views : v = [size |-> v.size, backing |-> v.backing]
  /\ EmulatedSize # None /\ ScaledBacking # None
  /\ MaxChannel \in Nat

VARIABLES
  view,         \* what the view asks for now
  rect,         \* where the view is now
  host,         \* the browser's RenderWidgetHostImpl
  current_size, \* of it: the size the renderer told last
  life,         \* "up"; "dying": no connection any more; "down": no view
  to_renderer, to_browser,
  rw,           \* the renderer's RenderWidget
  refused       \* history: a requested ack was not set up in this renderer

vars == <<view, rect, host, current_size, life, to_renderer, to_browser, rw, refused>>

Params(s, b) == [size |-> s, backing |-> b]
Drawable(p)  == p.size # None /\ p.backing # None

-----------------------------------------------------------------------------
(* The browser.  A step st is the host with the messages it has sent.      *)

Step(h) == [h |-> h, out |-> <<>>]
Emit(st, m) == [h |-> st.h, out |-> Append(st.out, m)]
With(st, h) == [h |-> h, out |-> st.out]

Changed(h, v) ==
  \/ h.old = NoParams
  \/ h.old.size # v.size
  \/ h.old.backing = None /\ v.backing # None
Dirty(h, v) == Changed(h, v) \/ h.old.backing # v.backing
NeedsResizeAck(h, v) == Drawable(v) /\ Changed(h, v)

MayResize(h) == ~ h.resize_ack_pending /\ life = "up" /\ h.renderer_initialized

WasResized(st, v) ==
  IF MayResize(st.h) /\ Dirty(st.h, v)
    THEN LET ack == NeedsResizeAck(st.h, v)
         IN  Emit(With(st, [st.h EXCEPT !.resize_ack_pending = ack, !.old = v]),
                  [t |-> "resize", params |-> v, ack |-> ack])
    ELSE st

\* Sent without looking at the connection: the send may fail.
SendScreenRects(st, r) ==
  IF st.h.renderer_initialized /\ ~ st.h.waiting_for_screen_rects_ack /\ ~ st.h.hidden
    THEN Emit(With(st, [st.h EXCEPT !.waiting_for_screen_rects_ack = TRUE,
                                    !.last_rect = r]),
              [t |-> "rects"])
    ELSE st

BugRestored(h) ==
  Emit(SendScreenRects(Step([h EXCEPT !.hidden = FALSE]), rect), [t |-> "shown"])
Restored(h) ==
  WasResized(Emit(SendScreenRects(Step([h EXCEPT !.hidden = FALSE]), rect),
                  [t |-> "shown"]), view)

\* OnUpdateRect with DidUpdateBackingStore.
Updated(h, m) ==
  LET acked == [h EXCEPT !.resize_ack_pending = @ /\ ~ m.resize_ack,
                         !.repaint_ack_pending = @ /\ ~ m.repaint_ack]
  IN  IF m.resize_ack /\ ~ h.hidden THEN WasResized(Step(acked), view)
                                    ELSE Step(acked)

BugRectsAcked(h) == Step([h EXCEPT !.waiting_for_screen_rects_ack = FALSE])
RectsAcked(h) ==
  LET st == Step([h EXCEPT !.waiting_for_screen_rects_ack = FALSE])
  IN  IF h.last_rect = rect THEN st ELSE SendScreenRects(st, rect)

\* RendererExited with ResetSizeAndRepaintPendingFlags.
BugExited(h) ==
  [h EXCEPT !.renderer_initialized = FALSE, !.waiting_for_screen_rects_ack = FALSE,
            !.resize_ack_pending = FALSE,
            !.old = IF @ = NoParams THEN @ ELSE [@ EXCEPT !.size = None],
            !.hidden = TRUE]
Exited(h) ==
  [h EXCEPT !.renderer_initialized = FALSE, !.waiting_for_screen_rects_ack = FALSE,
            !.resize_ack_pending = FALSE, !.repaint_ack_pending = FALSE,
            !.old = IF @ = NoParams THEN @ ELSE [@ EXCEPT !.size = None],
            !.hidden = TRUE]

-----------------------------------------------------------------------------
(* The renderer.                                                           *)

Fresh(hidden) ==
  [size |-> None, backing |-> None, hidden |-> hidden,
   next_resize_ack |-> FALSE, next_repaint_ack |-> FALSE,
   emulated |-> FALSE, original |-> Params(None, None),
   damaged |-> FALSE, swapping |-> FALSE]

\* A changed size means that something will be painted.
Resize(w, p, ack) ==
  [w EXCEPT !.size = p.size, !.backing = p.backing,
            !.damaged = @ \/ Params(w.size, w.backing) # p,
            !.next_resize_ack = @ \/ ack]

\* ScreenMetricsEmulator::Apply
Apply(w) ==
  Resize(w, Params(EmulatedSize, IF w.original.size = None THEN None ELSE ScaledBacking),
         FALSE)

\* The emulator decides by itself whether an ack is due.
EmulatorAcks(w, p) == p.size # w.original.size /\ Drawable(p)

OnResize(w, m) ==
  IF ~ w.emulated THEN Resize(w, m.params, m.ack)
  ELSE LET due == EmulatorAcks(w, m.params)
           e   == Apply([w EXCEPT !.original = m.params])
       IN  [e EXCEPT !.next_resize_ack = @ \/ due, !.damaged = @ \/ due]

OnRepaint(w) == [w EXCEPT !.next_repaint_ack = TRUE, !.damaged = TRUE]

OnWasShown(w) == [w EXCEPT !.hidden = FALSE, !.damaged = TRUE]

\* Something is in next_paint_flags_.
BugFlagged(w) == w.next_repaint_ack
Flagged(w) == w.next_repaint_ack \/ w.next_resize_ack

-----------------------------------------------------------------------------
Init ==
  /\ view \in Views /\ rect \in Rects
  /\ host = [renderer_initialized |-> FALSE, hidden |-> FALSE, old |-> NoParams,
             resize_ack_pending |-> FALSE, repaint_ack_pending |-> FALSE,
             waiting_for_screen_rects_ack |-> FALSE, last_rect |-> None]
  /\ current_size = None
  /\ life = "up" /\ to_renderer = <<>> /\ to_browser = <<>>
  /\ rw = Fresh(FALSE) /\ refused = FALSE

\* What is sent without a connection is lost.
Do(st) ==
  /\ host' = st.h
  /\ to_renderer' = IF life = "up" THEN to_renderer \o st.out ELSE to_renderer

UserMayAct == life # "down" /\ Len(to_renderer) < MaxChannel

\* Init: the renderer made the widget itself, the host is attached to it.
InitWidget ==
  /\ life = "up" /\ ~ host.renderer_initialized
  /\ LET h == [host EXCEPT !.renderer_initialized = TRUE]
     IN  Do(WasResized(SendScreenRects(Step(h), rect), view))
  /\ UNCHANGED <<view, rect, current_size, life, to_browser, rw, refused>>

ViewResized ==
  /\ UserMayAct
  /\ \E v \in Views \ {view} : view' = v /\ Do(WasResized(Step(host), v))
  /\ UNCHANGED <<rect, current_size, life, to_browser, rw, refused>>

ViewMoved ==
  /\ UserMayAct
  /\ \E r \in Rects \ {rect} : rect' = r /\ Do(SendScreenRects(Step(host), r))
  /\ UNCHANGED <<view, current_size, life, to_browser, rw, refused>>

WasHidden ==
  /\ UserMayAct /\ ~ host.hidden
  /\ Do(Emit(Step([host EXCEPT !.hidden = TRUE]), [t |-> "hidden"]))
  /\ UNCHANGED <<view, rect, current_size, life, to_browser, rw, refused>>

WasShown ==
  /\ UserMayAct /\ host.hidden
  /\ Do(Restored(host))
  /\ UNCHANGED <<view, rect, current_size, life, to_browser, rw, refused>>

ScheduleComposite ==
  /\ UserMayAct
  /\ ~ host.hidden /\ current_size # None
  /\ ~ host.repaint_ack_pending /\ ~ host.resize_ack_pending
  /\ Do(Emit(Step([host EXCEPT !.repaint_ack_pending = TRUE]), [t |-> "repaint"]))
  /\ UNCHANGED <<view, rect, current_size, life, to_browser, rw, refused>>

OnMessageReceived ==
  /\ life = "up" /\ to_browser # <<>>
  /\ to_browser' = Tail(to_browser)
  /\ LET m == Head(to_browser)
     IN  \/ m.t = "update" /\ Do(Updated(host, m)) /\ current_size' = m.size
         \/ m.t = "rects_ack" /\ Do(RectsAcked(host)) /\ UNCHANGED current_size
  /\ UNCHANGED <<view, rect, life, rw, refused>>

RendererExited ==
  /\ life = "dying" /\ life' = "down"
  /\ host.renderer_initialized
  /\ host' = Exited(host) /\ current_size' = None
  /\ UNCHANGED <<view, rect, to_renderer, to_browser, rw, refused>>

-----------------------------------------------------------------------------
(* The renderer's steps.                                                   *)

OnRendererMessage ==
  /\ life = "up" /\ to_renderer # <<>>
  /\ to_renderer' = Tail(to_renderer)
  /\ LET m == Head(to_renderer)
     IN  \/ /\ m.t = "resize"
            /\ rw' = OnResize(rw, m)
            /\ refused' = (refused \/ (m.ack /\ ~ rw'.next_resize_ack))
            /\ UNCHANGED to_browser
         \/ m.t = "repaint" /\ rw' = OnRepaint(rw) /\ UNCHANGED <<to_browser, refused>>
         \/ /\ m.t = "hidden" /\ rw' = [rw EXCEPT !.hidden = TRUE]
            /\ UNCHANGED <<to_browser, refused>>
         \/ m.t = "shown" /\ rw' = OnWasShown(rw) /\ UNCHANGED <<to_browser, refused>>
         \/ /\ m.t = "rects" /\ to_browser' = Append(to_browser, [t |-> "rects_ack"])
            /\ UNCHANGED <<rw, refused>>
  /\ UNCHANGED <<view, rect, host, current_size, life>>

OnEnableDeviceEmulation ==
  /\ life = "up" /\ ~ rw.emulated
  /\ rw' = Apply([rw EXCEPT !.emulated = TRUE, !.original = Params(rw.size, rw.backing)])
  /\ UNCHANGED <<view, rect, host, current_size, life, to_renderer, to_browser, refused>>

OnDisableDeviceEmulation ==
  /\ life = "up" /\ rw.emulated
  /\ rw' = [Resize(rw, rw.original, FALSE) EXCEPT !.emulated = FALSE,
                                                 !.original = Params(None, None)]
  /\ UNCHANGED <<view, rect, host, current_size, life, to_renderer, to_browser, refused>>

\* The compositor: a frame leaves when there is something to draw, and its
\* swap completes later, whatever has happened meanwhile.
ContentChanges ==
  /\ life = "up" /\ ~ rw.damaged
  /\ rw' = [rw EXCEPT !.damaged = TRUE]
  /\ UNCHANGED <<view, rect, host, current_size, life, to_renderer, to_browser, refused>>

Draw ==
  /\ life = "up"
  /\ rw.damaged /\ ~ rw.swapping /\ ~ rw.hidden /\ Drawable(rw)
  /\ rw' = [rw EXCEPT !.damaged = FALSE, !.swapping = TRUE]
  /\ UNCHANGED <<view, rect, host, current_size, life, to_renderer, to_browser, refused>>

DidCompleteSwapBuffers ==
  /\ life = "up" /\ rw.swapping
  /\ to_browser' = IF Flagged(rw)
                     THEN Append(to_browser,
                                 [t |-> "update", size |-> rw.size,
                                  resize_ack |-> rw.next_resize_ack,
                                  repaint_ack |-> rw.next_repaint_ack])
                     ELSE to_browser
  /\ rw' = [rw EXCEPT !.swapping = FALSE,
                      !.next_resize_ack = FALSE, !.next_repaint_ack = FALSE]
  /\ UNCHANGED <<view, rect, host, current_size, life, to_renderer, refused>>

-----------------------------------------------------------------------------
(* The process.                                                            *)

ConnectionLost ==
  /\ life = "up" /\ host.renderer_initialized
  /\ life' = "dying"
  /\ to_renderer' = <<>> /\ to_browser' = <<>>
  /\ rw' = Fresh(TRUE) /\ refused' = FALSE
  /\ UNCHANGED <<view, rect, host, current_size>>

\* A reload: a view and a renderer whose first message carries the size.  The
\* caller is the RenderViewHost: GetResizeParams, then SetInitialRenderSizeParams.
CreateRenderView ==
  LET ack == NeedsResizeAck(host, view)
  IN  /\ life = "down" /\ life' = "up"
      /\ host' = [host EXCEPT !.renderer_initialized = TRUE,
                              !.resize_ack_pending = ack, !.old = view]
      /\ to_renderer' = <<[t |-> "resize", params |-> view, ack |-> ack]>>
      /\ rw' = Fresh(host.hidden)
      /\ UNCHANGED <<view, rect, current_size, to_browser, refused>>

Next ==
  \/ InitWidget \/ ViewResized \/ ViewMoved \/ WasHidden \/ WasShown
  \/ ScheduleComposite \/ OnMessageReceived \/ RendererExited
  \/ OnRendererMessage \/ OnEnableDeviceEmulation \/ OnDisableDeviceEmulation
  \/ ContentChanges \/ Draw \/ DidCompleteSwapBuffers
  \/ ConnectionLost \/ CreateRenderView

Spec == Init /\ [][Next]_vars

\* Both message loops run, a visible renderer draws what is damaged and every
\* swap is answered.
FairSpec ==
  /\ Spec
  /\ WF_vars(OnMessageReceived) /\ WF_vars(OnRendererMessage)
  /\ WF_vars(Draw) /\ WF_vars(DidCompleteSwapBuffers)

-----------------------------------------------------------------------------
(* Properties.                                                             *)

Connected == life = "up" /\ host.renderer_initialized

OldParams == Views \cup {Params(None, v.backing) : v \in Views} \cup {NoParams}

HostType ==
  [renderer_initialized : BOOLEAN, hidden : BOOLEAN, old : OldParams,
   resize_ack_pending : BOOLEAN, repaint_ack_pending : BOOLEAN,
   waiting_for_screen_rects_ack : BOOLEAN, last_rect : Rects \cup {None}]

Sizes    == {v.size : v \in Views} \cup {None}
Backings == {v.backing : v \in Views} \cup {None}

ToRenderer == [t : {"resize"}, params : Views, ack : BOOLEAN]
                \cup [t : {"repaint", "rects", "hidden", "shown"}]
ToBrowser  == [t : {"update"}, size : Sizes \cup {EmulatedSize},
               resize_ack : BOOLEAN, repaint_ack : BOOLEAN]
                \cup [t : {"rects_ack"}]

WidgetType ==
  [size : Sizes \cup {EmulatedSize}, backing : Backings \cup {ScaledBacking},
   hidden : BOOLEAN, next_resize_ack : BOOLEAN, next_repaint_ack : BOOLEAN,
   emulated : BOOLEAN, original : [size : Sizes, backing : Backings],
   damaged : BOOLEAN, swapping : BOOLEAN]

\* The types.
TypeOK ==
  /\ view \in Views /\ rect \in Rects /\ host \in HostType
  /\ current_size \in Sizes \cup {EmulatedSize}
  /\ life \in {"up", "dying", "down"}
  /\ rw \in WidgetType
  /\ to_renderer \in Seq(ToRenderer) /\ to_browser \in Seq(ToBrowser)
  /\ refused \in BOOLEAN

\* While the widget is visible the last size sent is the one its view asks for,
\* or an ack is awaited that will make it be sent (the comment at WasShown
\* lists how the two may drift apart while hidden).
SizeKnown == Connected /\ ~ host.hidden =>
  host.resize_ack_pending \/ host.old = view

\* The same for the place on the screen: an ack lost, a move while hidden or
\* while an ack is awaited must not leave an old rectangle behind.
RectsKnown == Connected /\ ~ host.hidden =>
  host.waiting_for_screen_rects_ack \/ host.last_rect = rect

\* Whether a message asks for an ack of a kind, or brings one.
Bears(m, kind) ==
  CASE kind = "resize"  -> \/ m.t = "resize" /\ m.ack
                           \/ m.t = "update" /\ m.resize_ack
    [] kind = "repaint" -> \/ m.t = "repaint"
                           \/ m.t = "update" /\ m.repaint_ack
    [] kind = "rects"   -> m.t \in {"rects", "rects_ack"}

Count(q, kind) == Cardinality({i \in DOMAIN q : Bears(q[i], kind)})
Owed(flag)     == IF flag THEN 1 ELSE 0

\* How many acks of a kind are under way: asked for, owed or sent back.
UnderWay(kind, due) == Count(to_renderer, kind) + Owed(due) + Count(to_browser, kind)

\* The host waits for an ack exactly when one is under way, and never for two:
\* no ack comes unasked (the DCHECKs of OnUpdateRect) and none is lost, through
\* hiding, crashes and reloads, unless the emulator did not set it up.
AcksAreOwed == TypeOK /\ (Connected =>
  /\ UnderWay("resize", rw.next_resize_ack) = Owed(host.resize_ack_pending /\ ~ refused)
  /\ UnderWay("repaint", rw.next_repaint_ack) = Owed(host.repaint_ack_pending)
  /\ UnderWay("rects", FALSE) = Owed(host.waiting_for_screen_rects_ack))

\* The size the browser told, as a widget keeps it.
Given(w)       == IF w.emulated THEN w.original ELSE Params(w.size, w.backing)
RendererParams == Given(rw)

\* A widget that stays visible and connected is given, in the end, the size its
\* view settles on.
SizeArrives ==
  <>[](Connected /\ ~ host.hidden /\ ~ refused) /\ <>[][FALSE]_view
    => <>[](RendererParams = view)

\* "If a resize ack is requested and it isn't set-up, then no more resizes will
\* come in" (RenderWidget::Resize): so a requested ack must be set up.  It is
\* not when the emulator finds the size unchanged and only the physical
\* backing has appeared.
RequestedAckIsSetUp ==
  [][/\ to_renderer # <<>> /\ to_renderer' = Tail(to_renderer) /\ life' = "up"
     /\ Head(to_renderer).t = "resize" /\ Head(to_renderer).ack
     => rw'.next_resize_ack]_vars
=============================================================================
