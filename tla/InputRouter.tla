----------------------------- MODULE InputRouter -----------------------------
(***************************************************************************)
(* The browser's input routing for one widget: InputRouterImpl holds back  *)
(* events of a class while one of that class is with the renderer, and     *)
(* RenderWidgetHostImpl counts the unanswered ones, watches for a hung     *)
(* renderer and throws the router away when the renderer is gone.          *)
(*                                                                         *)
(* src/src/content/browser/renderer_host/input/input_router_impl.cc and    *)
(* render_widget_host_impl.cc.  All of it runs on the UI thread, so each   *)
(* call or message is one step.  The five classes that hold events back    *)
(* share one shape, a pending flag and what is held; they differ in how a  *)
(* new event joins the held ones.  Touch events are left to the external   *)
(* TouchEventQueue.                                                        *)
(***************************************************************************)
EXTENDS Integers, Sequences, FiniteSets, SequencesExt

CONSTANTS
  UserEvents,  \* what the environment may offer: records [kind, type]
  MaxEvents    \* bound: events given to one router

PointerLanes == {"move", "wheel", "gesture"}
EditLanes    == {"select", "caret"}       \* SendInput: not offered to the client
Lanes        == PointerLanes \cup EditLanes
Kinds        == Lanes \cup {"press", "key"}

ASSUME RouterAssumption ==
  /\ \A u \in UserEvents :
       /\ u = [kind |-> u.kind, type |-> u.type] /\ u.kind \in Kinds
       /\ u.type = "fling" => u.kind = "gesture"
  /\ MaxEvents \in Nat

VARIABLES
  lane,           \* per class: [pending, held], the *_pending_ flag and what waits
  key_queue,      \* key events the renderer has not answered
  active_renderer_fling_count,
  flush_requested,
  widget,         \* [count, running, unresponsive, hidden]: in_flight_event_count_,
                  \* hang_monitor_timeout_, is_unresponsive_, is_hidden_
  ignore_input_events,
  \* the environment
  life,           \* "up"; "dying": no connection any more; "down": no view
  inbox,          \* messages the renderer has not answered, in order
  acks,           \* answers under way to the browser, in order
  flings,         \* flings alive in the renderer
  \* history, of this router
  seen,           \* the user events given to it; an event's number is its place
  offered,        \* the events it let go of, in order
  latest          \* how many user events there were when it last let go of one
                  \* that cancels the mouse move it holds

routerVars == <<lane, key_queue, active_renderer_fling_count, flush_requested>>
envVars    == <<life, inbox, acks, flings>>
vars == <<lane, key_queue, active_renderer_fling_count, flush_requested, widget,
          ignore_input_events, life, inbox, acks, flings, seen, offered, latest>>
historyVars == <<seen, offered, latest>>

-----------------------------------------------------------------------------
(* Events.  `of` lists the user events an event stands for.                *)

Event(u, n) == [kind |-> u.kind, type |-> u.type, of |-> <<n>>]
CoalesceWith(e, f) == [f EXCEPT !.of = e.of \o f.of]

ReplaceLast(q, e) == Append(Front(q), e)

\* Same modifiers for wheels, same message type for selections.
JoinsLast(held, e) == held # <<>> /\ Last(held).type = e.type

\* How an event joins those that are held back.
Hold(l, held, e) ==
  CASE l = "move"    -> IF held = <<>> THEN <<e>> ELSE <<CoalesceWith(held[1], e)>>
    [] l = "wheel"   -> IF JoinsLast(held, e)
                          THEN ReplaceLast(held, CoalesceWith(Last(held), e))
                          ELSE Append(held, e)
    [] l = "select"  -> IF JoinsLast(held, e) THEN ReplaceLast(held, e)
                                              ELSE Append(held, e)
    [] l = "caret"   -> <<e>>
    [] l = "gesture" -> Append(held, e)

\* A key's answer is for the oldest key; one of another type empties the queue.
BugAfterKeyAck(queue, type) == IF queue = <<>> THEN <<>> ELSE Front(queue)
AfterKeyAck(queue, type) ==
  IF queue = <<>> \/ Head(queue).type # type THEN <<>> ELSE Tail(queue)

-----------------------------------------------------------------------------
(* The widget's count of unanswered events and its hang monitor.           *)

IncrementInFlightEventCount(w) ==
  [w EXCEPT !.count = @ + 1, !.running = @ \/ ~ w.hidden]

StopHangMonitorTimeout(w) ==
  [w EXCEPT !.running = FALSE, !.unresponsive = FALSE]

DecrementInFlightEventCount(w) ==
  IF w.count - 1 <= 0 THEN StopHangMonitorTimeout([w EXCEPT !.count = @ - 1])
  ELSE [w EXCEPT !.count = @ - 1, !.running = @ \/ ~ w.hidden]

BugShown(w) == [w EXCEPT !.hidden = FALSE]
Shown(w) == [w EXCEPT !.hidden = FALSE, !.running = @ \/ w.count # 0]

BugExited(w) == [w EXCEPT !.hidden = TRUE, !.running = FALSE, !.unresponsive = FALSE]
Exited(w) == StopHangMonitorTimeout([w EXCEPT !.hidden = TRUE, !.count = 0])

-----------------------------------------------------------------------------
(* Letting events go.                                                      *)

BugHasPendingEvents(lanes, keys, count) ==
  keys # <<>> \/ \E l \in Lanes : lanes[l].pending
HasPendingEvents(lanes, keys, count) ==
  keys # <<>> \/ count > 0 \/ \E l \in Lanes : lanes[l].pending

\* SignalFlushedIfNecessary: the request is answered once nothing is pending.
Unsignalled(lanes, keys, count) ==
  flush_requested /\ HasPendingEvents(lanes, keys, count)

\* FilterInputEvent decides for each event of q in turn how many of them end
\* in the browser and are acked at once: all while input is ignored, none
\* without a connection (the first one is dropped), else as the view pleases.
\* The view leaves flings to the renderer.
Consumed(l, q) ==
  IF l \in EditLanes THEN {0}
  ELSE IF ignore_input_events THEN {Len(q)}
  ELSE IF life # "up" THEN {0}
  ELSE {k \in 0 .. Len(q) : \A i \in 1 .. k : q[i].type # "fling"}

\* A lane stays pending when an event left for the renderer, even in vain.
BugStaysPending(q, k) == q # <<>>
StaysPending(q, k) == k < Len(q)

\* Any event offered cancels the mouse move that is held back.
BugHeldMove(l, q) == IF l = "move" THEN <<>> ELSE lane["move"].held
HeldMove(l, q) ==
  IF l = "move" \/ (l \in PointerLanes /\ q # <<>>) THEN <<>> ELSE lane["move"].held

\* Lane l is free and q waits for it, oldest first: the first k events end in
\* the browser, the next one goes to the renderer, the rest stays held.  `w` is
\* the widget before, `acked` tells that an answer of the renderer caused this.
\* The source recurses (ack, send, ack, ...) where this takes one step.
Drain(l, q, w, count, acked) ==
  \E k \in Consumed(l, q) :
    LET sends == k < Len(q) /\ life = "up"
        rest  == SubSeq(q, k + 2, Len(q))
        moved == [lane EXCEPT !["move"].held = HeldMove(l, q)]
        lanes == [moved EXCEPT ![l] = [pending |-> StaysPending(q, k), held |-> rest]]
    IN  /\ lane' = lanes
        /\ offered' = offered \o SubSeq(q, 1, IF k < Len(q) THEN k + 1 ELSE k)
        /\ inbox' = IF sends THEN Append(inbox, q[k + 1]) ELSE inbox
        /\ widget' = IF sends /\ l \in PointerLanes
                       THEN IncrementInFlightEventCount(w) ELSE w
        /\ flush_requested' = IF l \in PointerLanes /\ (acked \/ k > 0)
                                THEN Unsignalled(lanes, key_queue, count)
                                ELSE flush_requested

-----------------------------------------------------------------------------
Fresh == [l \in Lanes |-> [pending |-> FALSE, held |-> <<>>]]

Init ==
  /\ lane = Fresh /\ key_queue = <<>>
  /\ active_renderer_fling_count = 0 /\ flush_requested = FALSE
  /\ widget = [count |-> 0, running |-> FALSE, unresponsive |-> FALSE, hidden |-> FALSE]
  /\ ignore_input_events = FALSE
  /\ life = "up" /\ inbox = <<>> /\ acks = <<>> /\ flings = 0
  /\ seen = <<>> /\ offered = <<>> /\ latest = 0

\* History: every event let go, an edit command excepted, is marked.
Mark ==
  latest' = IF \E i \in DOMAIN offered' \ DOMAIN offered : offered'[i].kind \notin EditLanes
              THEN Len(seen') ELSE latest

\* SendMouseEvent of a move, SendWheelEvent, SendGestureEvent, SendSelectMessage
\* and SendMoveCaret.
SendOrHold(u) ==
  LET l == u.kind
      e == Event(u, Len(seen) + 1)
  IN  /\ l \in Lanes
      /\ IF lane[l].pending
           THEN /\ lane' = [lane EXCEPT ![l].held = Hold(l, @, e)]
                /\ UNCHANGED <<offered, inbox, widget, flush_requested>>
           ELSE Drain(l, <<e>>, widget, active_renderer_fling_count, FALSE)
      /\ UNCHANGED <<key_queue, active_renderer_fling_count, acks>>

\* A mouse press is never held and gets no answer from the renderer: it is
\* acked at once unless it was dropped.
SendPress(u) ==
  LET lanes == [lane EXCEPT !["move"].held = <<>>]
  IN  /\ u.kind = "press"
      /\ lane' = lanes
      /\ offered' = Append(offered, Event(u, Len(seen) + 1))
      /\ flush_requested' =
           IF life = "up"
             THEN Unsignalled(lanes, key_queue, active_renderer_fling_count)
             ELSE flush_requested
      /\ UNCHANGED <<key_queue, active_renderer_fling_count, widget, inbox, acks>>

\* ForwardKeyboardEvent asks for a connection itself; the view takes no keys.
SendKeyboardEvent(u) ==
  LET e == Event(u, Len(seen) + 1)
  IN  /\ u.kind = "key" /\ life = "up"
      /\ key_queue' = Append(key_queue, e)
      /\ lane' = [lane EXCEPT !["move"].held = <<>>]
      /\ offered' = Append(offered, e)
      /\ inbox' = Append(inbox, e)
      /\ widget' = IncrementInFlightEventCount(widget)
      /\ UNCHANGED <<active_renderer_fling_count, flush_requested, acks>>

\* The view or the page's menus give an event to the widget.  While input is
\* ignored the widget drops it before the router; edit commands pass.
UserInput ==
  /\ life # "down" /\ Len(seen) < MaxEvents
  /\ \E u \in UserEvents :
       /\ ~ ignore_input_events \/ u.kind \in EditLanes
       /\ SendOrHold(u) \/ SendPress(u) \/ SendKeyboardEvent(u)
       /\ seen' = Append(seen, u)
  /\ Mark
  /\ UNCHANGED <<ignore_input_events, life, flings>>

\* The answers to the pointer classes: OnInputEventAck, then ProcessMouseAck,
\* ProcessWheelAck or ProcessGestureAck.
FlingsAfter(a) ==
  active_renderer_fling_count + (IF a.type = "fling" /\ a.consumed THEN 1 ELSE 0)

OnPointerAck(a) ==
  /\ a.kind \in PointerLanes
  /\ active_renderer_fling_count' = FlingsAfter(a)
  /\ Drain(a.kind, lane[a.kind].held, DecrementInFlightEventCount(widget),
           FlingsAfter(a), TRUE)
  /\ UNCHANGED key_queue

\* ProcessInputEventAck returns from a key's answer without signalling a flush.
OnKeyAck(a) ==
  /\ a.kind = "key"
  /\ widget' = DecrementInFlightEventCount(widget)
  /\ key_queue' = AfterKeyAck(key_queue, a.type)
  /\ UNCHANGED <<lane, active_renderer_fling_count, flush_requested, inbox, offered>>

\* OnSelectMessageAck and OnMsgMoveCaretAck.
OnEditAck(a) ==
  /\ a.kind \in EditLanes
  /\ Drain(a.kind, lane[a.kind].held, widget, active_renderer_fling_count, FALSE)
  /\ UNCHANGED <<key_queue, active_renderer_fling_count>>

OnDidStopFlinging(a) ==
  /\ a.kind = "stop"
  /\ active_renderer_fling_count' = active_renderer_fling_count - 1
  /\ flush_requested' = Unsignalled(lane, key_queue, active_renderer_fling_count - 1)
  /\ UNCHANGED <<lane, key_queue, widget, inbox, offered>>

OnMessageReceived ==
  /\ life = "up" /\ acks # <<>>
  /\ acks' = Tail(acks)
  /\ LET a == Head(acks)
     IN  OnPointerAck(a) \/ OnKeyAck(a) \/ OnEditAck(a) \/ OnDidStopFlinging(a)
  /\ UNCHANGED <<ignore_input_events, life, flings, seen>>
  /\ Mark

RequestNotificationWhenFlushed ==
  /\ life # "down"
  /\ flush_requested' =
       HasPendingEvents(lane, key_queue, active_renderer_fling_count)
  /\ UNCHANGED <<lane, key_queue, active_renderer_fling_count, widget,
                 ignore_input_events, envVars, historyVars>>

-----------------------------------------------------------------------------
(* The widget.                                                             *)

WasHidden ==
  /\ life # "down" /\ ~ widget.hidden
  /\ widget' = StopHangMonitorTimeout([widget EXCEPT !.hidden = TRUE])
  /\ UNCHANGED <<routerVars, ignore_input_events, envVars, historyVars>>

WasShown ==
  /\ life # "down" /\ widget.hidden
  /\ widget' = Shown(widget)
  /\ UNCHANGED <<routerVars, ignore_input_events, envVars, historyVars>>

\* The monitor's delay passes: RendererIsUnresponsive.
HangMonitorFires ==
  /\ widget.running
  /\ widget' = [widget EXCEPT !.running = FALSE, !.unresponsive = TRUE]
  /\ UNCHANGED <<routerVars, ignore_input_events, envVars, historyVars>>

SetIgnoreInputEvents ==
  /\ ignore_input_events' = ~ ignore_input_events
  /\ UNCHANGED <<routerVars, widget, envVars, historyVars>>

RendererExited ==
  /\ life = "dying" /\ life' = "down"
  /\ widget' = Exited(widget)
  /\ lane' = Fresh /\ key_queue' = <<>>
  /\ active_renderer_fling_count' = 0 /\ flush_requested' = FALSE
  /\ seen' = <<>> /\ offered' = <<>> /\ latest' = 0
  /\ UNCHANGED <<ignore_input_events, inbox, acks, flings>>

-----------------------------------------------------------------------------
(* The renderer and the channel to it.                                     *)

\* The compositor thread answers some classes before the main thread answers
\* others, but within a class the order is kept.
Answer(i) ==
  /\ \A j \in 1 .. i - 1 : inbox[j].kind # inbox[i].kind
  /\ \E consumed \in IF inbox[i].type = "fling" THEN BOOLEAN ELSE {FALSE} :
       /\ acks' = Append(acks, [kind |-> inbox[i].kind, type |-> inbox[i].type,
                                of |-> inbox[i].of, consumed |-> consumed])
       /\ flings' = IF consumed THEN flings + 1 ELSE flings
  /\ inbox' = RemoveAt(inbox, i)

RendererAnswers ==
  /\ life = "up"
  /\ \E i \in DOMAIN inbox : Answer(i)
  /\ UNCHANGED <<routerVars, widget, ignore_input_events, life, historyVars>>

FlingEnds ==
  /\ life = "up" /\ flings > 0
  /\ flings' = flings - 1
  /\ acks' = Append(acks, [kind |-> "stop", type |-> "stop", of |-> <<>>,
                           consumed |-> FALSE])
  /\ UNCHANGED <<routerVars, widget, ignore_input_events, life, inbox, historyVars>>

\* The channel breaks: what was under way is lost.
ConnectionLost ==
  /\ life = "up" /\ life' = "dying"
  /\ inbox' = <<>> /\ acks' = <<>> /\ flings' = 0
  /\ UNCHANGED <<routerVars, widget, ignore_input_events, historyVars>>

\* A reload makes a new view and a new renderer.
Relaunch ==
  /\ life = "down" /\ life' = "up"
  /\ UNCHANGED <<routerVars, widget, ignore_input_events, inbox, acks, flings,
                 historyVars>>

Next ==
  \/ UserInput \/ OnMessageReceived \/ RequestNotificationWhenFlushed
  \/ WasHidden \/ WasShown \/ HangMonitorFires \/ SetIgnoreInputEvents
  \/ RendererAnswers \/ FlingEnds \/ ConnectionLost \/ RendererExited \/ Relaunch

Spec == Init /\ [][Next]_vars

\* A renderer that does not hang answers, and the browser reads the answers.
FairSpec == Spec /\ WF_vars(RendererAnswers) /\ WF_vars(OnMessageReceived)

-----------------------------------------------------------------------------
(* Properties.                                                             *)

Types    == {u.type : u \in UserEvents}
Messages == [kind : Kinds \ {"press"}, type : Types, of : Seq(1 .. MaxEvents)]
Acks     == [kind : (Kinds \ {"press"}) \cup {"stop"}, type : Types \cup {"stop"},
             of : Seq(1 .. MaxEvents), consumed : BOOLEAN]

\* Types; counts never fall below zero, and a mouse move or a caret never
\* has two successors waiting.
TypeOK ==
  /\ lane \in [Lanes -> [pending : BOOLEAN, held : Seq(Messages)]]
  /\ Len(lane["move"].held) <= 1 /\ Len(lane["caret"].held) <= 1
  /\ key_queue \in Seq(Messages)
  /\ active_renderer_fling_count \in Nat /\ flush_requested \in BOOLEAN
  /\ widget \in [count : Nat, running : BOOLEAN, unresponsive : BOOLEAN,
                 hidden : BOOLEAN]
  /\ ignore_input_events \in BOOLEAN
  /\ life \in {"up", "dying", "down"} /\ flings \in Nat
  /\ inbox \in Seq(Messages) /\ acks \in Seq(Acks)
  /\ seen \in Seq(UserEvents) /\ latest \in 0 .. Len(seen)

\* Where the messages of some kinds are in q, and how many are unanswered.
OfKind(q, kinds)  == {i \in DOMAIN q : q[i].kind \in kinds}
Unanswered(kinds) ==
  Cardinality(OfKind(acks, kinds)) + Cardinality(OfKind(inbox, kinds))

\* With a renderer, a class is marked pending exactly when one event of it is
\* unanswered, and events are held only behind one that is: no class waits
\* for an answer nobody will send (mouse_move_pending_ and its like,
\* input_router_impl.cc:595-638 with the acks of the client at 399-425).
PendingHasFlight ==
  life = "up" =>
    \A l \in Lanes :
      /\ Unanswered({l}) = IF lane[l].pending THEN 1 ELSE 0
      /\ lane[l].held # <<>> => lane[l].pending

\* No class of events waits for what does not come, nor holds more than its rules allow.
LanesAreSound == TypeOK /\ PendingHasFlight

\* The user events inside some events of q, and inside all.
MembersAt(q, places) == UNION {ToSet(q[i].of) : i \in places}
Members(q) == MembersAt(q, DOMAIN q)
Held == UNION {Members(lane[l].held) : l \in Lanes}

\* A user event that is neither held nor let go was replaced: a mouse move by
\* any event that left while it was held, be it one of a busy class that the
\* user made earlier, a caret by a later caret, a selection by the next
\* selection if it is of the same type.
NothingLostButSuperseded ==
  \A n \in DOMAIN seen \ (Members(offered) \cup Held) :
    \/ seen[n].kind = "move" /\ n <= latest
    \/ /\ seen[n].kind = "caret"
       /\ \E m \in DOMAIN seen : m > n /\ seen[m].kind = "caret"
    \/ /\ seen[n].kind = "select"
       /\ \E m \in DOMAIN seen :
            /\ m > n /\ seen[m] = seen[n]
            /\ \A j \in n + 1 .. m - 1 : seen[j].kind # "select"

Ascending(q) == \A i, j \in DOMAIN q : i < j => q[i] < q[j]

\* The user events inside the events at some places of q come in order.
InOrder(q, places) ==
  /\ \A i \in places : Ascending(q[i].of)
  /\ \A i, j \in places :
       i < j => \A m \in ToSet(q[i].of), n \in ToSet(q[j].of) : m < n

\* Events of one class leave in the order the user made them, wheel deltas
\* that were added up included, and a mouse move that was held back never
\* leaves after an event the user made later (next_mouse_move_.reset() in
\* FilterAndSendWebInputEvent, input_router_impl.cc:365).
OffersInOrder ==
  /\ \A kind \in Kinds : InOrder(offered, OfKind(offered, {kind}))
  /\ \A i, j \in DOMAIN offered :
       (/\ i < j /\ offered[j].kind = "move"
        /\ offered[i].kind \notin EditLanes)
       => Last(offered[i].of) < Last(offered[j].of)

\* The renderer is offered what the user did, class by class in the user's order, and nothing
\* is left out but what the rules of its class replace (FilterAndSendWebInputEvent and the acks, input_router_impl.cc:361-650).
UserIsObeyed == OffersInOrder /\ NothingLostButSuperseded

\* The copies of key events kept for unhandled keys are those of the keys the
\* renderer has not answered, in order: no answer is taken for another key's
\* (key_queue_, input_router_impl.h:236-238).
KeysMatchRenderer ==
  life = "up" =>
    LET wire == acks \o inbox
        keys == OfKind(wire, {"key"})
    IN  /\ InOrder(key_queue, DOMAIN key_queue) /\ InOrder(wire, keys)
        /\ Members(key_queue) = MembersAt(wire, keys)

\* The in-flight count is the number of input events the renderer has not
\* answered, after any number of crashes and reloads.
CountIsWhatRendererOwes ==
  life = "up" => widget.count = Unanswered(PointerLanes \cup {"key"})

\* While a visible widget owes answers, the monitor runs or has reported the
\* hang, however often the widget was hidden and shown in between; a hidden
\* one is neither watched nor reported (render_widget_host_impl.cc:511-584,
\* 1960-1975).
HangMonitorWatches ==
  /\ ~ widget.hidden /\ widget.count > 0 => widget.running \/ widget.unresponsive
  /\ widget.hidden => ~ widget.running /\ ~ widget.unresponsive

\* A renderer that owes no answer is neither watched nor called unresponsive
\* (DecrementInFlightEventCount, render_widget_host_impl.cc:1966-1975).
NoBlameWithoutDebt ==
  widget.count = 0 => ~ widget.running /\ ~ widget.unresponsive

\* The browser's count of flings and the renderer's differ only by the
\* messages under way, so the count is positive whenever a fling's end
\* arrives (DCHECK_GT at input_router_impl.cc:526).
FlingsBalance ==
  /\ life = "up" =>
       active_renderer_fling_count + Cardinality({i \in DOMAIN acks : acks[i].consumed})
         = flings + Cardinality(OfKind(acks, {"stop"}))
  /\ acks # <<>> /\ Head(acks).kind = "stop" => active_renderer_fling_count > 0

\* What the browser believes the renderer owes it - keys, answers, the ends of flings - is
\* what it owes, and without a debt it is not blamed (render_widget_host_impl.cc:1366-1414,
\* 1960-1975, input_router_impl.cc:520-600).
DebtIsKnown ==
  KeysMatchRenderer /\ CountIsWhatRendererOwes /\ NoBlameWithoutDebt /\ FlingsBalance

\* DidFlush is called only when no event is held, unanswered or flinging
\* (SignalFlushedIfNecessary, input_router_impl.cc:669-678).
DidFlushMeansIdle ==
  [][flush_requested /\ ~ flush_requested' /\ life' = "up"
       => /\ \A l \in Lanes : lane'[l].held = <<>>
          /\ OfKind(inbox', Kinds) = {} /\ OfKind(acks', Kinds \cup {"stop"}) = {}
          /\ flings' = 0]_vars

\* A user event that is held back does not stay so while the renderer answers:
\* every class is drained by its acks (input_router_impl.cc:481-496, 595-650).
HeldEventsLeave ==
  \A n \in 1 .. MaxEvents :
    (life = "up" /\ n \in Held) ~> (life # "up" \/ n \notin Held)
=============================================================================
