----------------------------- MODULE WidgetLife -----------------------------
(***************************************************************************)
(* The life of the widgets of a renderer process: made by the browser or,  *)
(* for popups, by the renderer itself; shown and hidden, moved, swapped    *)
(* out and in, and closed by either side.  Both sides keep counts by which *)
(* a process is put in the background or exits, so each step has to be     *)
(* counted once on both.                                                   *)
(*                                                                         *)
(* src/src/content/renderer/render_widget.cc (main thread) and             *)
(* src/src/content/browser/renderer_host/render_widget_host_impl.cc (UI    *)
(* thread).  RenderThreadImpl, RenderProcess, RenderProcessHost and the    *)
(* RenderViewHost are external, known here by what these two call on them. *)
(***************************************************************************)
EXTENDS Integers, Sequences, FiniteSets, Functions

CONSTANTS
  Widgets,    \* some of "view", "popup", "frame": one widget of each kind
  MaxActs     \* bound: what users and pages do

WidgetsAssumption == Widgets \subseteq {"view", "popup", "frame"} /\ MaxActs \in Nat

VARIABLES
  rw,         \* widget -> the renderer's RenderWidget
  tasks,      \* posted to the renderer's main thread
  thread,     \* RenderThreadImpl and RenderProcess: what they count
  rwh,        \* widget -> the browser's RenderWidgetHostImpl
  visible,    \* RenderProcessHost: its visible widgets
  sent, told, \* to the renderer, to the browser
  crashed,
  acts,
  leaks       \* history: [closing, visible, webwidgets, moves]

vars == <<rw, tasks, thread, rwh, visible, sent, told, crashed, acts, leaks>>

Unmade ==
  [made |-> FALSE, routed |-> FALSE, hidden |-> FALSE, swapped |-> FALSE,
   webwidget |-> FALSE, compositor |-> FALSE, outputs |-> 0, shown |-> FALSE,
   pending |-> 0,      \* pending_window_rect_count_
   closing |-> FALSE, host_closing |-> FALSE]

NoHost == [made |-> FALSE, renderer_initialized |-> FALSE, hidden |-> FALSE,
           view |-> FALSE, gone |-> FALSE, swapped |-> FALSE]

Init ==
  /\ rw = [w \in Widgets |-> Unmade]
  /\ rwh = [w \in Widgets |-> NoHost]
  /\ tasks = <<>> /\ sent = <<>> /\ told = <<>>
  /\ thread = [widgets |-> 0, hidden |-> 0, process |-> 0]
  /\ visible = 0 /\ crashed = FALSE /\ acts = 0
  /\ leaks = [closing |-> {}, visible |-> 0, webwidgets |-> {}, moves |-> [w \in Widgets |-> 0]]

One(p) == IF p THEN 1 ELSE 0

Message(type, w) == [type |-> type, w |-> w]

Act == ~ crashed /\ acts < MaxActs /\ acts' = acts + 1

-----------------------------------------------------------------------------
(* The renderer.                                                           *)

\* The constructor.
RenderWidget(hidden, swapped) ==
  [Unmade EXCEPT !.made = TRUE, !.webwidget = TRUE, !.hidden = hidden, !.swapped = swapped]

\* DoInit, after the constructor: a route, and the thread counts one widget more.
DoInit(w, hidden, swapped) ==
  /\ rw' = [rw EXCEPT ![w] = [RenderWidget(hidden, swapped)
                              EXCEPT !.routed = TRUE, !.shown = w = "view"]]
  /\ thread' = [widgets |-> thread.widgets + 1, hidden |-> thread.hidden + One(hidden),
                process |-> thread.process + One(~ swapped)]

\* A popup: the browser is asked for a route, in a call that can fail when the tab is
\* closing.
Create ==
  /\ Act
  /\ "popup" \in Widgets /\ ~ rw["popup"].made /\ ~ rwh["popup"].made
  /\ "popup" \notin leaks.webwidgets
  /\ \/ /\ DoInit("popup", FALSE, FALSE)
        /\ rwh' = [rwh EXCEPT !["popup"].made = TRUE]
        /\ visible' = visible + 1
        /\ UNCHANGED leaks
     \/ /\ leaks' = [leaks EXCEPT !.webwidgets = @ \cup {"popup"}]
        /\ UNCHANGED <<rw, thread, rwh, visible>>
  /\ UNCHANGED <<tasks, sent, told, crashed>>

\* Nothing is sent after the browser told the widget to close, and little while it is
\* swapped out.
CanSendWhileSwappedOut == {"RouteCloseEvent"}

MaySend(w, type) ==
  ~ rw[w].closing /\ (rw[w].swapped => type \in CanSendWhileSwappedOut)

Send(w, type) ==
  told' = IF MaySend(w, type) THEN Append(told, Message(type, w)) ELSE told

\* show: the rectangle of the popup is pending until the browser acknowledges it.
show ==
  /\ Act
  /\ "popup" \in Widgets /\ rw["popup"].webwidget /\ ~ rw["popup"].shown
  /\ Send("popup", "ShowWidget")
  /\ rw' = [rw EXCEPT !["popup"].shown = TRUE, !["popup"].pending = @ + 1]
  /\ leaks' = [leaks EXCEPT !.moves["popup"] = @ + One(~ MaySend("popup", "ShowWidget"))]
  /\ UNCHANGED <<tasks, thread, rwh, visible, sent, crashed>>

\* A page moves its window: once shown, the browser is asked.
RequestMove(w) ==
  /\ Send(w, "RequestMove")
  /\ rw' = [rw EXCEPT ![w].pending = @ + 1]
  /\ leaks' = [leaks EXCEPT !.moves[w] = @ + One(~ MaySend(w, "RequestMove"))]

setWindowRect(w) ==
  /\ Act
  /\ rw[w].webwidget /\ rw[w].shown
  /\ RequestMove(w)
  /\ UNCHANGED <<tasks, thread, rwh, visible, sent, crashed>>

\* The compositor, and its output surfaces: without a GPU channel or a worker context it
\* waits and tries again, on a synchronous compositor the surface has no number.
initializeLayerTreeView(w) ==
  /\ Act
  /\ rw[w].webwidget /\ ~ rw[w].host_closing /\ ~ rw[w].compositor
  /\ rw' = [rw EXCEPT ![w].compositor = TRUE]
  /\ UNCHANGED <<tasks, thread, rwh, visible, sent, told, crashed, leaks>>

CreateOutputSurface(w) ==
  /\ Act
  /\ rw[w].compositor
  /\ \E numbered \in BOOLEAN : rw' = [rw EXCEPT ![w].outputs = @ + One(numbered)]
  /\ UNCHANGED <<tasks, thread, rwh, visible, sent, told, crashed, leaks>>

\* window.close(): a swapped out page has the browser route the request, another asks in
\* a task of its own, when its scripts have run.
closeWidgetSoon(w) ==
  /\ Act
  /\ w # "frame" /\ rw[w].webwidget
  /\ IF rw[w].swapped
       THEN Send(w, "RouteCloseEvent") /\ UNCHANGED tasks
       ELSE tasks' = Append(tasks, [task |-> "DoDeferredClose", w |-> w]) /\ UNCHANGED told
  /\ UNCHANGED <<rw, thread, rwh, visible, sent, crashed, leaks>>

\* WillCloseLayerTreeView
WillClose(r) == [r EXCEPT !.host_closing = TRUE]

\* Close: the last of the widget.
Close(r) == [WillClose(r) EXCEPT !.compositor = FALSE, !.webwidget = FALSE]

\* The destructor gives the process back, when neither the route nor a task holds the widget any more.
IsHeld(r, ts, w) == r.routed \/ \E i \in DOMAIN ts : ts[i].w = w

Settled(w, r, th, ts) ==
  /\ tasks' = ts
  /\ rw' = [rw EXCEPT ![w] = IF IsHeld(r, ts, w) THEN r ELSE Unmade]
  /\ thread' = [th EXCEPT
       !.process = IF IsHeld(r, ts, w) \/ r.swapped THEN @ ELSE @ - 1]
  /\ leaks' = [leaks EXCEPT
       !.webwidgets = IF ~ IsHeld(r, ts, w) /\ r.webwidget THEN @ \cup {w} ELSE @,
       !.closing = IF r.host_closing /\ ~ r.closing /\ r.swapped THEN @ \cup {w} ELSE @]

RunTask ==
  /\ ~ crashed /\ tasks # <<>>
  /\ LET t == Head(tasks)
         w == t.w
     IN  \/ /\ t.task = "DoDeferredClose"
            /\ Send(w, "Close")
            /\ Settled(w, WillClose(rw[w]), thread, Tail(tasks))
         \/ /\ t.task = "Close"
            /\ Settled(w, Close(rw[w]), thread, Tail(tasks))
            /\ UNCHANGED told
  /\ UNCHANGED <<rwh, visible, sent, crashed, acts>>

\* SetHidden
BugHiddenCount(r, hidden) == thread.hidden + (IF hidden THEN 1 ELSE -1)
HiddenCount(r, hidden) ==
  thread.hidden + (IF r.hidden = hidden THEN 0 ELSE IF hidden THEN 1 ELSE -1)

\* OnClose: the widget of a frame closes at once, its frame is going away; others when
\* no message loop is nested any more.
OnClose(w) ==
  LET r == [rw[w] EXCEPT !.closing = TRUE, !.routed = FALSE, !.hidden = FALSE]
      counted == [thread EXCEPT !.widgets = @ - 1, !.hidden = HiddenCount(rw[w], FALSE)]
  IN  IF w = "frame"
        THEN Settled(w, Close(r), counted, tasks)
        ELSE Settled(w, r, counted, Append(tasks, [task |-> "Close", w |-> w]))

\* A frame that is detached closes its widget.
CloseForFrame ==
  /\ Act
  /\ "frame" \in Widgets /\ rw["frame"].routed
  /\ OnClose("frame")
  /\ UNCHANGED <<rwh, visible, sent, told, crashed>>

\* The view stops being, or is again, the one of its page: the process may exit when all
\* of its views are swapped out.
SetSwappedOut(swapped) ==
  /\ rw' = [rw EXCEPT !["view"].swapped = swapped]
  /\ thread' = [thread EXCEPT !.process = @ + (IF swapped THEN -1 ELSE 1)]

-----------------------------------------------------------------------------
(* Messages to the renderer's widgets.                                     *)

OnMessageReceived ==
  /\ ~ crashed /\ sent # <<>>
  /\ sent' = Tail(sent)
  /\ LET m == Head(sent)
         w == m.w
     IN  \/ /\ m.type = "New"
            /\ DoInit(w, m.hidden, m.swapped)
            /\ UNCHANGED <<tasks, leaks>>
         \/ /\ m.type # "New" /\ ~ rw[w].routed
            /\ UNCHANGED <<rw, thread, tasks, leaks>>
         \/ /\ m.type = "Close" /\ rw[w].routed
            /\ OnClose(w)
         \/ /\ m.type \in {"WasHidden", "WasShown"} /\ rw[w].routed
            /\ rw' = [rw EXCEPT ![w].hidden = m.type = "WasHidden"]
            /\ thread' = [thread EXCEPT !.hidden = HiddenCount(rw[w], m.type = "WasHidden")]
            /\ UNCHANGED <<tasks, leaks>>
         \/ /\ m.type = "Move_ACK" /\ rw[w].routed
            /\ rw' = [rw EXCEPT ![w].pending = @ - 1]
            /\ UNCHANGED <<thread, tasks, leaks>>
         \/ /\ m.type \in {"SwapOut", "SwapIn"} /\ rw[w].routed
            /\ SetSwappedOut(m.type = "SwapOut")
            /\ UNCHANGED <<tasks, leaks>>
  /\ UNCHANGED <<rwh, visible, told, crashed, acts>>

-----------------------------------------------------------------------------
(* The browser.                                                            *)

Tell(ms) == sent' = sent \o ms

\* The constructor and InitForFrame, or the RenderViewHost's own: a visible widget is
\* counted, and a message makes the renderer's half.
MakeWidget(w) ==
  /\ Act
  /\ w # "popup" /\ ~ rwh[w].made
  /\ \E hidden \in BOOLEAN, swapped \in IF w = "view" THEN BOOLEAN ELSE {FALSE} :
       /\ rwh' = [rwh EXCEPT ![w] = [NoHost EXCEPT !.made = TRUE, !.view = TRUE,
                    !.renderer_initialized = TRUE, !.hidden = hidden, !.swapped = swapped]]
       /\ visible' = visible + One(~ hidden)
       /\ Tell(<<[type |-> "New", w |-> w, hidden |-> hidden, swapped |-> swapped]>>)
  /\ UNCHANGED <<rw, tasks, thread, told, crashed, leaks>>

There(w) == rwh[w].made /\ ~ rwh[w].gone

WasHidden(w) ==
  /\ Act
  /\ There(w) /\ ~ rwh[w].hidden
  /\ rwh' = [rwh EXCEPT ![w].hidden = TRUE]
  /\ visible' = visible - 1
  /\ Tell(<<Message("WasHidden", w)>>)
  /\ UNCHANGED <<rw, tasks, thread, told, crashed, leaks>>

WasShown(w) ==
  /\ Act
  /\ There(w) /\ rwh[w].hidden
  /\ rwh' = [rwh EXCEPT ![w].hidden = FALSE]
  /\ visible' = visible + 1
  /\ Tell(<<Message("WasShown", w)>>)
  /\ UNCHANGED <<rw, tasks, thread, told, crashed, leaks>>

\* External, the frame tree: a view is swapped out and in by turns.
SwapView ==
  /\ Act
  /\ "view" \in Widgets /\ There("view")
  /\ rwh' = [rwh EXCEPT !["view"].swapped = ~ @]
  /\ Tell(<<Message(IF rwh["view"].swapped THEN "SwapIn" ELSE "SwapOut", "view")>>)
  /\ UNCHANGED <<rw, tasks, thread, visible, told, crashed, leaks>>

ViewDestroyed(w) ==
  /\ Act
  /\ There(w) /\ rwh[w].view
  /\ rwh' = [rwh EXCEPT ![w].view = FALSE]
  /\ UNCHANGED <<rw, tasks, thread, visible, sent, told, crashed, leaks>>

\* Destroy: the host goes, and the process is not told of a visible widget less.
Destroyed(h) == [h EXCEPT !.gone = TRUE, !.view = FALSE]

ShutdownAndDestroyWidget(w) ==
  /\ rwh' = [rwh EXCEPT ![w] = Destroyed(@)]
  /\ leaks' = [leaks EXCEPT !.visible = @ + One(~ rwh[w].hidden)]
  /\ Tell(<<Message("Close", w)>>)

BrowserCloses(w) ==
  /\ Act
  /\ There(w)
  /\ ShutdownAndDestroyWidget(w)
  /\ UNCHANGED <<rw, tasks, thread, visible, told, crashed>>

\* What finds no host any more is dropped; a move is acknowledged if there is a view to
\* be moved.
OnHostMessage ==
  /\ ~ crashed /\ told # <<>>
  /\ told' = Tail(told)
  /\ LET m == Head(told)
         w == m.w
     IN  \/ /\ ~ There(w) \/ m.type = "RouteCloseEvent"
            /\ leaks' = [leaks EXCEPT !.moves[w] = @ + One(m.type \in {"RequestMove", "ShowWidget"})]
            /\ UNCHANGED <<rwh, sent>>
         \/ m.type = "Close" /\ There(w) /\ ShutdownAndDestroyWidget(w)
         \/ /\ m.type = "ShowWidget" /\ There(w)
            /\ rwh' = [rwh EXCEPT ![w].view = TRUE, ![w].renderer_initialized = TRUE]
            /\ Tell(<<Message("Move_ACK", w)>>)
            /\ UNCHANGED leaks
         \/ /\ m.type = "RequestMove" /\ There(w)
            /\ Tell(IF rwh[w].view THEN <<Message("Move_ACK", w)>> ELSE <<>>)
            /\ leaks' = [leaks EXCEPT !.moves[w] = @ + One(~ rwh[w].view)]
            /\ UNCHANGED rwh
  /\ UNCHANGED <<rw, tasks, thread, visible, crashed, acts>>

\* The renderer is gone: a popup's host goes with it, the hosts that a frame owns wait,
\* invisible, for a new one.
RendererExited(h) ==
  IF h.renderer_initialized
    THEN [h EXCEPT !.renderer_initialized = FALSE, !.hidden = TRUE, !.view = FALSE]
    ELSE h

ExitedVisible == {w \in Widgets \ {"popup"} :
  There(w) /\ rwh[w].renderer_initialized /\ ~ rwh[w].hidden}

OnRenderProcessGone ==
  /\ Act
  /\ crashed' = TRUE
  /\ rwh' = [w \in Widgets |->
       IF ~ There(w) THEN rwh[w]
       ELSE IF w = "popup" THEN Destroyed(rwh[w]) ELSE RendererExited(rwh[w])]
  /\ visible' = visible - Cardinality(ExitedVisible)
  /\ leaks' = [leaks EXCEPT !.visible =
       @ + One("popup" \in Widgets /\ There("popup") /\ ~ rwh["popup"].hidden)]
  /\ sent' = <<>> /\ told' = <<>> /\ tasks' = <<>>
  /\ rw' = [w \in Widgets |-> Unmade]
  /\ thread' = [widgets |-> 0, hidden |-> 0, process |-> 0]

Next ==
  \/ Create \/ show \/ CloseForFrame \/ SwapView \/ RunTask \/ OnMessageReceived
  \/ OnHostMessage \/ OnRenderProcessGone
  \/ \E w \in Widgets :
       \/ setWindowRect(w) \/ initializeLayerTreeView(w) \/ CreateOutputSurface(w)
       \/ closeWidgetSoon(w) \/ MakeWidget(w) \/ WasHidden(w) \/ WasShown(w)
       \/ ViewDestroyed(w) \/ BrowserCloses(w)

Spec == Init /\ [][Next]_vars

-----------------------------------------------------------------------------
(* Properties.                                                             *)

\* The types.
TypeOK ==
  /\ rw \in [Widgets -> [made : BOOLEAN, routed : BOOLEAN, hidden : BOOLEAN, swapped : BOOLEAN,
       webwidget : BOOLEAN, compositor : BOOLEAN, outputs : Nat, shown : BOOLEAN,
       pending : Nat, closing : BOOLEAN, host_closing : BOOLEAN]]
  /\ rwh \in [Widgets -> [made : BOOLEAN, renderer_initialized : BOOLEAN, hidden : BOOLEAN,
       view : BOOLEAN, gone : BOOLEAN, swapped : BOOLEAN]]
  /\ thread \in [widgets : Nat, hidden : Nat, process : Nat]
  /\ visible \in Nat /\ acts \in 0 .. MaxActs

\* RenderThreadImpl puts the process in the background when its hidden widgets are all
\* there are, and RenderProcess lets it exit when no widget holds it.
ThreadCounts ==
  /\ thread.widgets = Cardinality({w \in Widgets : rw[w].routed})
  /\ thread.hidden = Cardinality({w \in Widgets : rw[w].routed /\ rw[w].hidden})
  /\ thread.process = Cardinality({w \in Widgets : rw[w].made /\ ~ rw[w].swapped})

\* is_hidden_ "has to stay in sync with the most recent call to
\* process_->WidgetRestored() / WidgetHidden()" (render_widget_host_impl.h:676-677); what
\* is destroyed while visible stays counted.
ProcessCounts ==
  visible - leaks.visible = Cardinality({w \in Widgets : There(w) /\ ~ rwh[w].hidden})

\* A rectangle is pending as long as its request or its acknowledgement is under way, or
\* for ever when nobody heard the request.
MovesAreCounted == \A w \in Widgets : rw[w].routed =>
  rw[w].pending
    = Cardinality({i \in DOMAIN told : told[i] \in {Message("RequestMove", w), Message("ShowWidget", w)}})
      + Cardinality({i \in DOMAIN sent : sent[i] = Message("Move_ACK", w)})
      + leaks.moves[w]

\* The last word on its way decides whether the widget will be hidden.
WordsToHide(w) == {i \in DOMAIN sent : sent[i] \in {Message("WasHidden", w), Message("WasShown", w)}}

WillBeHidden(w) ==
  IF WordsToHide(w) = {} THEN rw[w].hidden
  ELSE \E i \in WordsToHide(w) :
         (\A j \in WordsToHide(w) : j <= i) /\ sent[i] = Message("WasHidden", w)

VisibilityAgrees == \A w \in Widgets :
  rw[w].routed /\ There(w) => WillBeHidden(w) = rwh[w].hidden

\* A widget that gave up its compositor to be closed is being closed, unless it was
\* swapped out when it asked.
ClosingIsHeard == \A w \in Widgets :
  rw[w].routed /\ rw[w].host_closing =>
    \/ w \in leaks.closing
    \/ Message("Close", w) \in Range(told) \cup Range(sent)

\* "Leaking our WebWidget!" (render_widget.cc:573): a widget closes its WebWidget before
\* it goes.  The popup whose creation failed does not.
NothingLeaks == leaks.webwidgets = {}
OnlyTheFailedLeaks ==
  leaks.webwidgets \subseteq {"popup"} /\ (leaks.webwidgets # {} => ~ rwh["popup"].made)

\* Each widget is counted once by each count, in whatever order it is hidden, swapped and
\* closed from both sides.
WidgetsAreCounted ==
  /\ ThreadCounts /\ ProcessCounts /\ MovesAreCounted
  /\ VisibilityAgrees /\ ClosingIsHeard /\ OnlyTheFailedLeaks
=============================================================================
