-------------------------- MODULE ScreenshotBarrier --------------------------
(***************************************************************************)
(* An input event on its way from the browser to the page, with the        *)
(* screenshot that must be taken before it takes effect.                   *)
(*                                                                         *)
(*   browser UI thread   SnapshotHandler (one per widget and renderer      *)
(*                       life) asks for the screenshot, sends the event    *)
(*   browser compositor  answers the copy requests, in any order           *)
(*   renderer IO thread  InputEventFilter::OnMessageReceived               *)
(*   compositor thread   InputEventFilter::ForwardToHandler                *)
(*   main thread         RenderWidget::OnHandleInputEvent, which spins     *)
(*                       until the id is in captured_screenshots           *)
(*                                                                         *)
(* captured_screenshots belongs to the renderer process                    *)
(* (ScreenshotStatus is a singleton); ids are counted by each handler.     *)
(***************************************************************************)
EXTENDS Integers, Sequences

CONSTANTS
  Widgets,      \* render widgets (a tab, its popup menu, another tab ...)
  Procs,        \* renderer processes
  ProcOf,       \* the process that hosts each widget
  Decisions,    \* what SnapshotHandler may decide: [shot, dom, kind]
  MaxEvents,    \* bound: input events
  MaxCrashes,   \* bound: renderer crashes
  MaxRoutes     \* bound: changes of routes_

\* A "scroll" (a wheel event) may be consumed on the compositor thread; what
\* is "plain" always goes on to the main thread.
DecisionSet == [shot : BOOLEAN, dom : BOOLEAN, kind : {"plain", "scroll"}]

ASSUME BarrierAssumption ==
  /\ ProcOf \in [Widgets -> Procs]
  /\ Decisions \subseteq DecisionSet
  /\ MaxEvents \in Nat /\ MaxCrashes \in Nat /\ MaxRoutes \in Nat

VARIABLES
  next_snapshot_id,      \* of the widget's present SnapshotHandler
  handler,               \* which handler that is: 0, then 1 after a crash ...
  issued,                \* events the user made so far
  requests,              \* tickets the browser compositor has not answered
  optimized,             \* those whose optimized ack was already sent
  answered,              \* history: tickets whose copy is over
  alive,                 \* processes with a live channel
  channel,               \* the IPC channel to a process, in order
  compositor_q, main_q,  \* task queues of the two renderer threads
  captured_screenshots,  \* ScreenshotStatus of the process: a set of ids
  routes,                \* widgets in InputEventFilter::routes_
  taken,                 \* history: events the main thread handled
  scrolled,              \* history: events the compositor thread consumed
  crashes, route_changes \* counters for the bounds

browserVars  == <<next_snapshot_id, handler, issued>>
copyVars     == <<requests, optimized, answered>>
rendererVars == <<channel, compositor_q, main_q, captured_screenshots>>
historyVars  == <<taken, scrolled>>
boundVars    == <<crashes, route_changes>>
vars == <<next_snapshot_id, handler, issued, requests, optimized, answered,
          alive, channel, compositor_q, main_q, captured_screenshots, routes,
          taken, scrolled, crashes, route_changes>>

-----------------------------------------------------------------------------
(* Events, tickets and messages.                                           *)

Tickets == [w : Widgets, h : Nat, id : Nat]
Events  == [ticket : Tickets, shot : BOOLEAN, kind : {"plain", "scroll"},
            n : Nat]

Ticket(w) == [w |-> w, h |-> handler[w], id |-> next_snapshot_id[w]]

\* A routed message: the renderer reads the widget and the id of its ticket;
\* the handler in it is only known to the properties.
Input(e)    == [type |-> "HandleInputEvent", event |-> e, ticket |-> e.ticket]
Captured(t) == [type |-> "ScreenshotCaptured", ticket |-> t]
Messages ==
  [type : {"HandleInputEvent"}, event : Events, ticket : Tickets]
    \cup [type : {"ScreenshotCaptured"}, ticket : Tickets]

Host(t) == ProcOf[t.w]

\* Messages to a dead process are dropped.
SendTo(p, msgs) ==
  channel' = IF p \in alive THEN [channel EXCEPT ![p] = @ \o msgs] ELSE channel

-----------------------------------------------------------------------------
Init ==
  /\ next_snapshot_id = [w \in Widgets |-> 1]
  /\ handler = [w \in Widgets |-> 0]
  /\ issued = 0
  /\ requests = {} /\ optimized = {} /\ answered = {}
  /\ alive = Procs
  /\ channel = [p \in Procs |-> <<>>]
  /\ compositor_q = [p \in Procs |-> <<>>]
  /\ main_q = [p \in Procs |-> <<>>]
  /\ captured_screenshots = [p \in Procs |-> {}]
  /\ routes \in SUBSET Widgets
  /\ taken = [w \in Widgets |-> <<>>] /\ scrolled = {}
  /\ crashes = 0 /\ route_changes = 0

-----------------------------------------------------------------------------
(* Browser.                                                                *)

\* SnapshotHandler::HandleInputEvent: the request goes out before the event;
\* a copy that fails at once (`sync`) is answered before the event is sent.
HandleInputEvent(w, d, sync) ==
  LET t == Ticket(w)
      e == [ticket |-> t, shot |-> d.shot, kind |-> d.kind, n |-> issued]
  IN  /\ ProcOf[w] \in alive
      /\ issued < MaxEvents
      /\ sync => d.shot
      /\ issued' = issued + 1
      /\ next_snapshot_id' =
           [next_snapshot_id EXCEPT ![w] = IF d.shot \/ d.dom THEN @ + 1 ELSE @]
      /\ requests' = IF d.shot /\ ~ sync THEN requests \cup {t} ELSE requests
      /\ answered' = IF sync THEN answered \cup {t} ELSE answered
      /\ SendTo(ProcOf[w], IF sync THEN <<Captured(t), Input(e)>>
                           ELSE <<Input(e)>>)
      /\ UNCHANGED <<handler, optimized, alive, compositor_q, main_q,
                     captured_screenshots, routes, historyVars, boundVars>>

\* GLRenderer::CopyCurrentRenderPassToBitmap acknowledges as soon as it made
\* the texture, without waiting for the read-back of the pixels.
SendScreenshotAck(t) ==
  /\ t \in requests \ optimized
  /\ optimized' = optimized \cup {t}
  /\ answered' = answered \cup {t}
  /\ SendTo(Host(t), <<Captured(t)>>)
  /\ UNCHANGED <<browserVars, requests, alive, compositor_q, main_q,
                 captured_screenshots, routes, historyVars, boundVars>>

\* The callback of the copy request: pixels or a failure, exactly once.  It
\* is bound to the handler that asked, which outlives its widget's renderer.
ScreenshotCaptured(t) ==
  /\ t \in requests
  /\ requests' = requests \ {t}
  /\ optimized' = optimized \ {t}
  /\ answered' = answered \cup {t}
  /\ SendTo(Host(t), <<Captured(t)>>)
  /\ UNCHANGED <<browserVars, alive, compositor_q, main_q,
                 captured_screenshots, routes, historyVars, boundVars>>

\* RenderWidgetHostImpl::RendererExited: each widget of the process gets a new
\* InputRouterImpl and with it a new SnapshotHandler that counts from 1.
RendererExited(p) ==
  /\ p \in alive /\ crashes < MaxCrashes
  /\ crashes' = crashes + 1
  /\ alive' = alive \ {p}
  /\ channel' = [channel EXCEPT ![p] = <<>>]
  /\ compositor_q' = [compositor_q EXCEPT ![p] = <<>>]
  /\ main_q' = [main_q EXCEPT ![p] = <<>>]
  /\ captured_screenshots' = [captured_screenshots EXCEPT ![p] = {}]
  /\ routes' = {w \in routes : ProcOf[w] # p}
  /\ handler' = [w \in Widgets |->
                   IF ProcOf[w] = p THEN handler[w] + 1 ELSE handler[w]]
  /\ next_snapshot_id' = [w \in Widgets |->
                            IF ProcOf[w] = p THEN 1 ELSE next_snapshot_id[w]]
  /\ UNCHANGED <<issued, copyVars, historyVars, route_changes>>

\* The page is reloaded in a new process.
Relaunch(p) ==
  /\ p \notin alive
  /\ alive' = alive \cup {p}
  /\ UNCHANGED <<browserVars, copyVars, rendererVars, routes, historyVars,
                 boundVars>>

-----------------------------------------------------------------------------
(* Renderer.                                                               *)

\* Input messages (ScreenshotCaptured is one) of a known route.
BugBounceEventsOnly(m) == m.type = "HandleInputEvent" /\ m.ticket.w \in routes
BugBounceScrollsOnly(m) ==
  /\ m.ticket.w \in routes
  /\ m.type = "HandleInputEvent" => m.event.kind = "scroll"
RequiresThreadBounce(m) == m.ticket.w \in routes

\* IO thread: input messages of known routes bounce over the compositor
\* thread; the others go straight to the main thread.
OnMessageReceived(p) ==
  /\ channel[p] # <<>>
  /\ channel' = [channel EXCEPT ![p] = Tail(@)]
  /\ LET m == Head(channel[p])
     IN  IF RequiresThreadBounce(m)
           THEN /\ compositor_q' = [compositor_q EXCEPT ![p] = Append(@, m)]
                /\ UNCHANGED main_q
           ELSE /\ main_q' = [main_q EXCEPT ![p] = Append(@, m)]
                /\ UNCHANGED compositor_q
  /\ UNCHANGED <<browserVars, copyVars, alive, captured_screenshots, routes,
                 historyVars, boundVars>>

\* What of the message is put into captured_screenshots: its first parameter.
Recorded(m) == m.ticket.id

\* Compositor thread: record a screenshot, offer an event to the compositor's
\* input handler, pass on what it did not consume.
ForwardToHandler(p) ==
  /\ compositor_q[p] # <<>>
  /\ compositor_q' = [compositor_q EXCEPT ![p] = Tail(@)]
  /\ LET m == Head(compositor_q[p])
     IN  \/ /\ m.type = "ScreenshotCaptured"
            /\ captured_screenshots' =
                 [captured_screenshots EXCEPT ![p] = @ \cup {Recorded(m)}]
            /\ main_q' = [main_q EXCEPT ![p] = Append(@, m)]
            /\ UNCHANGED scrolled
         \/ /\ m.type = "HandleInputEvent"  \* NOT_CONSUMED
            /\ main_q' = [main_q EXCEPT ![p] = Append(@, m)]
            /\ UNCHANGED <<captured_screenshots, scrolled>>
         \/ /\ m.type = "HandleInputEvent" /\ m.event.kind = "scroll"
            /\ m.ticket.w \in routes
            /\ scrolled' = scrolled \cup {m.event}
            /\ UNCHANGED <<captured_screenshots, main_q>>
  /\ UNCHANGED <<browserVars, copyVars, alive, channel, routes, taken,
                 boundVars>>

\* Main thread: RenderWidget handles no ScreenshotCaptured; an input event
\* with screenshot_active waits (the thread spins) for its id.
BugReleased(p, e) == TRUE
Released(p, e) == e.shot => e.ticket.id \in captured_screenshots[p]

OnHandleInputEvent(p) ==
  /\ main_q[p] # <<>>
  /\ LET m == Head(main_q[p])
     IN  \/ /\ m.type = "ScreenshotCaptured"
            /\ UNCHANGED taken
         \/ /\ m.type = "HandleInputEvent"
            /\ Released(p, m.event)
            /\ taken' = [taken EXCEPT ![m.ticket.w] = Append(@, m.event)]
  /\ main_q' = [main_q EXCEPT ![p] = Tail(@)]
  /\ UNCHANGED <<browserVars, copyVars, alive, channel, compositor_q,
                 captured_screenshots, routes, scrolled, boundVars>>

\* Compositor thread: DidAddInputHandler, DidRemoveInputHandler.
DidAddInputHandler(w) ==
  /\ w \notin routes /\ ProcOf[w] \in alive /\ route_changes < MaxRoutes
  /\ routes' = routes \cup {w}
  /\ route_changes' = route_changes + 1
  /\ UNCHANGED <<browserVars, copyVars, alive, rendererVars, historyVars,
                 crashes>>

DidRemoveInputHandler(w) ==
  /\ w \in routes /\ route_changes < MaxRoutes
  /\ routes' = routes \ {w}
  /\ route_changes' = route_changes + 1
  /\ UNCHANGED <<browserVars, copyVars, alive, rendererVars, historyVars,
                 crashes>>

-----------------------------------------------------------------------------
Next ==
  \/ \E w \in Widgets, d \in Decisions, sync \in BOOLEAN :
       HandleInputEvent(w, d, sync)
  \/ \E t \in requests : SendScreenshotAck(t) \/ ScreenshotCaptured(t)
  \/ \E p \in Procs : \/ RendererExited(p) \/ Relaunch(p)
                      \/ OnMessageReceived(p)
                      \/ ForwardToHandler(p)
                      \/ OnHandleInputEvent(p)
  \/ \E w \in Widgets : DidAddInputHandler(w) \/ DidRemoveInputHandler(w)

Spec == Init /\ [][Next]_vars

\* Threads run; every copy request is answered.  Nothing makes the user act,
\* a process crash or a route change.
Fairness ==
  /\ WF_vars(\E t \in requests : ScreenshotCaptured(t))
  /\ \A p \in Procs : /\ WF_vars(OnMessageReceived(p))
                      /\ WF_vars(ForwardToHandler(p))
                      /\ WF_vars(OnHandleInputEvent(p))
FairSpec == Spec /\ Fairness

-----------------------------------------------------------------------------
(* What the barrier is for.                                                *)

\* The variables stay in their types.
TypeOK ==
  /\ next_snapshot_id \in [Widgets -> Nat]
  /\ handler \in [Widgets -> Nat]
  /\ issued \in Nat
  /\ requests \subseteq Tickets /\ optimized \subseteq requests
  /\ answered \subseteq Tickets
  /\ alive \subseteq Procs
  /\ channel \in [Procs -> Seq(Messages)]
  /\ compositor_q \in [Procs -> Seq(Messages)]
  /\ main_q \in [Procs -> Seq(Messages)]
  /\ captured_screenshots \in [Procs -> SUBSET Nat]
  /\ routes \subseteq Widgets
  /\ taken \in [Widgets -> Seq(Events)]
  /\ scrolled \subseteq Events
  /\ crashes \in Nat /\ route_changes \in Nat

\* Whatever is lost, reordered or restarted: an event the main thread handled
\* was released by an answered screenshot of its process that has its id.
ReleasedByItsId ==
  \A w \in Widgets : \A i \in DOMAIN taken[w] :
    taken[w][i].shot =>
      \E t \in answered : /\ Host(t) = ProcOf[w]
                          /\ t.id = taken[w][i].ticket.id

\* input_messages.h:129: "Flag indicating whether we should wait for a
\* ScreenshotCaptured IPC message before passing the HandleInputEvent Msg to
\* the rest of the code": the main thread handles an event that asked for a
\* screenshot only after this event's own screenshot was answered.
ReleasedByItsOwnScreenshot ==
  \A w \in Widgets : \A i \in DOMAIN taken[w] :
    taken[w][i].shot => taken[w][i].ticket \in answered

\* While no route comes or goes the main thread handles the events of a
\* widget in the order they were made, crashes and scrolls notwithstanding.
InOrderWhileRoutesStable ==
  route_changes = 0 =>
    \A w \in Widgets : \A i, j \in DOMAIN taken[w] :
      i < j => taken[w][i].n < taken[w][j].n

\* An event whose ScreenshotCaptured was sent is not stuck behind it: if its
\* widget keeps its route, so that no ScreenshotCaptured goes astray to the
\* main thread, every event of every widget takes effect in the end.
TookEffect(n) ==
  \/ \E w \in Widgets : \E i \in DOMAIN taken[w] : taken[w][i].n = n
  \/ \E e \in scrolled : e.n = n
NoHangWhileRouted ==
  [](routes = Widgets) =>
    \A n \in 0 .. MaxEvents - 1 : (issued > n) ~> TookEffect(n)

\* Without ambiguous ids and lost messages this is WitnessedInput.
InputsOf(w, q) ==
  SelectSeq(q, LAMBDA m : m.type = "HandleInputEvent" /\ m.ticket.w = w)
OnTheWay(w) ==
  LET p == ProcOf[w]
      q == InputsOf(w, main_q[p] \o compositor_q[p] \o channel[p])
  IN  [i \in DOMAIN q |-> q[i].event]
Promise ==
  INSTANCE WitnessedInput WITH
    offered <- [w \in Widgets |-> OnTheWay(w)],
    witnessed <- answered
WitnessPromise == Promise!Spec

=============================================================================
