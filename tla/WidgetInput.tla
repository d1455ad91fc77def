---------------------------- MODULE WidgetInput ----------------------------
(***************************************************************************)
(* What a RenderWidgetHostImpl does to the user's input before its router  *)
(* has it: keys that the browser handles itself must not leave their       *)
(* characters to the page, updates of a scroll that a plugin sends back    *)
(* are given a scroll of their own, touches that the emulator makes of the *)
(* mouse are kept apart from real ones, and gestures that the page itself  *)
(* asks for are played in their order.                                     *)
(*                                                                         *)
(* src/src/content/browser/renderer_host/render_widget_host_impl.cc (UI    *)
(* thread) and, for the gestures it asks for, src/src/content/renderer/    *)
(* render_widget.cc.  The delegate, the key listeners, the TouchEmulator,  *)
(* the SyntheticGestureController and what comes after the router are      *)
(* external; the delegate takes no scroll for itself.                      *)
(***************************************************************************)
EXTENDS Integers, Sequences, FiniteSets, Functions

CONSTANTS
  MaxTouches,    \* bound: touches that wait for an ack
  MaxGestures,   \* bound: synthetic gestures
  MaxListeners   \* bound: key listeners

InputAssumption == MaxTouches \in Nat /\ MaxGestures \in Nat /\ MaxListeners \in Nat

VARIABLES
  ignoring,   \* input is dropped: ignore_input_events_, or the process's, or no delegate
  view,       \* view_ is there
  keys,       \* [suppress |-> suppress_next_char_events_,
              \*  stroke |-> history: who had the last RawKeyDown, leaked |-> history: a
              \*  character of a key that the browser handled reached the page]
  listeners,  \* key_press_event_callbacks_: each [handles, leaves]
  scroll,     \* [flag |-> is_in_gesture_scroll_, stream |-> history: the page is in a
              \*  scroll, broken |-> history: input was dropped in a scroll,
              \*  nested |-> history, loose |-> history]
  emulator,   \* touch_emulator_ is enabled
  touches,    \* the router's touches that wait for an ack: "native" or "emulated"
  unacked,    \* history: the view's touches whose ack it waits for
  callbacks,  \* the renderer's pending_synthetic_gesture_callbacks_
  queued,     \* synthetic_gesture_controller_: gestures to be played
  asked, done,        \* messages to the browser and back
  gestures,   \* history: gestures asked for
  lost, crossed       \* history: gestures nobody will play; a callback got another's news

keyVars     == <<keys, listeners>>
touchVars   == <<emulator, touches, unacked>>
gestureVars == <<callbacks, queued, asked, done, gestures, lost, crossed>>
vars == <<ignoring, view, keyVars, scroll, touchVars, gestureVars>>

Init ==
  /\ ignoring = FALSE /\ view = TRUE
  /\ keys = [suppress |-> FALSE, stroke |-> "none", leaked |-> FALSE]
  /\ listeners = <<>>
  /\ scroll = [flag |-> FALSE, stream |-> FALSE, broken |-> FALSE, nested |-> FALSE,
               loose |-> FALSE]
  /\ emulator = FALSE /\ touches = <<>> /\ unacked = 0
  /\ callbacks = <<>> /\ queued = <<>> /\ asked = <<>> /\ done = <<>>
  /\ gestures = 0 /\ lost = {} /\ crossed = FALSE

-----------------------------------------------------------------------------
(* Keys.                                                                   *)

\* KeyPressListenersHandleEvent: the listeners are asked in turn until one handles the
\* key; one that does not may take itself off the list.
Asked(ls) == {i \in DOMAIN ls : \A j \in 1 .. i - 1 : ~ ls[j].handles}
Handled(ls) == \E i \in DOMAIN ls : ls[i].handles
Staying(ls) ==
  LET stays == {i \in DOMAIN ls : i \in Asked(ls) /\ ~ ls[i].handles => ~ ls[i].leaves}
  IN  [n \in 1 .. Cardinality(stays) |->
         ls[CHOOSE i \in stays : Cardinality({j \in stays : j <= i}) = n]]

Key(suppress, stroke) == keys' = [keys EXCEPT !.suppress = suppress, !.stroke = stroke]

\* A RawKeyDown: handled by a listener or by the delegate's PreHandleKeyboardEvent it does
\* not reach the page; the emulator may swallow it.
BugRawKeyDown(skip) ==
  IF ~ skip /\ Handled(listeners)
    THEN Key(keys.suppress, "browser") /\ listeners' = Staying(listeners)
    ELSE /\ listeners' = IF skip THEN listeners ELSE Staying(listeners)
         /\ \/ ~ skip /\ Key(TRUE, "browser")
            \/ Key(FALSE, "page")
            \/ emulator /\ Key(FALSE, "emulator")
RawKeyDown(skip) ==
  IF ~ skip /\ Handled(listeners)
    THEN Key(TRUE, "browser") /\ listeners' = Staying(listeners)
    ELSE /\ listeners' = IF skip THEN listeners ELSE Staying(listeners)
         /\ \/ ~ skip /\ Key(TRUE, "browser")
            \/ Key(FALSE, "page")
            \/ emulator /\ Key(FALSE, "emulator")

\* A Char of the last RawKeyDown.
Char ==
  /\ keys' = IF keys.suppress THEN keys
             ELSE [keys EXCEPT !.leaked = @ \/ keys.stroke = "browser"]
  /\ UNCHANGED listeners

\* A KeyUp ends the suppression.
KeyUp == Key(FALSE, "none") /\ UNCHANGED listeners

\* What is dropped, by MayRenderWidgetForwardKeyboardEvent or because input is ignored,
\* changes nothing.
ForwardKeyboardEvent ==
  /\ \/ /\ ~ ignoring
        /\ \/ \E skip \in BOOLEAN : RawKeyDown(skip)
           \/ keys.stroke # "none" /\ Char
           \/ KeyUp
     \/ keys' = [keys EXCEPT !.stroke = "dropped"] /\ UNCHANGED listeners
  /\ UNCHANGED <<ignoring, view, scroll, touchVars, gestureVars>>

AddKeyPressEventCallback ==
  /\ Len(listeners) < MaxListeners
  /\ \E h \in BOOLEAN, l \in BOOLEAN :
       listeners' = Append(listeners, [handles |-> h, leaves |-> l])
  /\ UNCHANGED <<ignoring, view, keys, scroll, touchVars, gestureVars>>

RemoveKeyPressEventCallback ==
  /\ \E i \in DOMAIN listeners :
       listeners' = SubSeq(listeners, 1, i - 1) \o SubSeq(listeners, i + 1, Len(listeners))
  /\ UNCHANGED <<ignoring, view, keys, scroll, touchVars, gestureVars>>

\* An ack of an unknown type: the browser no longer knows which characters belong to what.
OnUnexpectedEventAck ==
  /\ Key(FALSE, "none")
  /\ UNCHANGED <<ignoring, view, listeners, scroll, touchVars, gestureVars>>

-----------------------------------------------------------------------------
(* Scrolls.                                                                *)

Dropped(s) == [s EXCEPT !.broken = TRUE]

ScrollBegin(s) == [s EXCEPT !.flag = TRUE, !.stream = TRUE, !.nested = @ \/ s.stream]
ScrollEnd(s) == [s EXCEPT !.flag = FALSE, !.stream = FALSE]
ScrollUpdate(s, resent) == [s EXCEPT !.loose = @ \/ (resent /\ ~ s.stream)]

\* ForwardGestureEventWithLatencyInfo for an update: one that a plugin sent back outside of
\* a scroll is wrapped into one.
Wrapped(s, resent) ==
  IF resent /\ ~ s.flag
    THEN ScrollEnd(ScrollUpdate(ScrollBegin(s), resent))
    ELSE ScrollUpdate(s, resent)

\* The user's gestures begin and end by turns, and updates come in between; a plugin's
\* come at any time.
ForwardGestureEvent ==
  /\ \/ ~ scroll.broken /\ ~ scroll.flag
        /\ scroll' = IF ignoring THEN Dropped(scroll) ELSE ScrollBegin(scroll)
     \/ ~ scroll.broken /\ scroll.flag
        /\ scroll' = IF ignoring THEN Dropped(scroll) ELSE ScrollEnd(scroll)
     \/ \E resent \in BOOLEAN :
          /\ resent \/ scroll.flag
          /\ scroll' = IF ignoring THEN scroll ELSE Wrapped(scroll, resent)
  /\ UNCHANGED <<ignoring, view, keyVars, touchVars, gestureVars>>

-----------------------------------------------------------------------------
(* Touches.                                                                *)

SetTouchEventEmulationEnabled ==
  /\ emulator' = ~ emulator
  /\ UNCHANGED <<ignoring, view, keyVars, scroll, touches, unacked, gestureVars>>

\* Touches pass even while input is ignored.  Those that the emulator takes are acked as
\* consumed.
ForwardTouchEventWithLatencyInfo ==
  /\ Len(touches) < MaxTouches
  /\ \/ touches' = Append(touches, "native") /\ unacked' = unacked + 1
     \/ emulator /\ UNCHANGED <<touches, unacked>>
  /\ view
  /\ UNCHANGED <<ignoring, view, keyVars, scroll, emulator, gestureVars>>

ForwardEmulatedTouchEvent ==
  /\ emulator /\ Len(touches) < MaxTouches
  /\ touches' = Append(touches, "emulated")
  /\ UNCHANGED <<ignoring, view, keyVars, scroll, emulator, unacked, gestureVars>>

\* The acks of its own touches end at the emulator.
AckedToView(touch) == IF touch = "emulated" THEN 0 ELSE 1

OnTouchEventAck ==
  /\ touches # <<>>
  /\ touches' = Tail(touches)
  /\ unacked' = unacked - AckedToView(Head(touches))
  /\ UNCHANGED <<ignoring, view, keyVars, scroll, emulator, gestureVars>>

-----------------------------------------------------------------------------
(* Synthetic gestures.                                                     *)

\* The renderer's half.
RendererQueuesSyntheticGesture ==
  /\ gestures < MaxGestures
  /\ gestures' = gestures + 1
  /\ callbacks' = Append(callbacks, gestures + 1)
  /\ asked' = Append(asked, gestures + 1)
  /\ UNCHANGED <<ignoring, view, keyVars, scroll, touchVars, queued, done, lost, crossed>>

\* The controller is made when there is a view to play on; without one nothing is queued.
QueueSyntheticGesture ==
  /\ asked # <<>> /\ asked' = Tail(asked)
  /\ IF view
       THEN queued' = Append(queued, Head(asked)) /\ UNCHANGED lost
       ELSE lost' = lost \cup {Head(asked)} /\ UNCHANGED queued
  /\ UNCHANGED <<ignoring, view, keyVars, scroll, touchVars, callbacks, done, gestures, crossed>>

\* The controller has played the first one.
GesturePlayed ==
  /\ queued # <<>> /\ view
  /\ queued' = Tail(queued)
  /\ done' = Append(done, Head(queued))
  /\ UNCHANGED <<ignoring, view, keyVars, scroll, touchVars, callbacks, asked, gestures, lost,
                 crossed>>

\* The first callback is run, whichever gesture was played.
OnSyntheticGestureCompleted ==
  /\ done # <<>>
  /\ done' = Tail(done)
  /\ crossed' = (crossed \/ Head(callbacks) # Head(done))
  /\ callbacks' = Tail(callbacks)
  /\ UNCHANGED <<ignoring, view, keyVars, scroll, touchVars, queued, asked, gestures, lost>>

-----------------------------------------------------------------------------
(* The host.                                                               *)

SetIgnoreInputEvents ==
  /\ ignoring' = ~ ignoring
  /\ UNCHANGED <<view, keyVars, scroll, touchVars, gestureVars>>

\* Another view, or none: the gestures that wait are forgotten.
SetView ==
  /\ view' = ~ view
  /\ queued' = <<>> /\ lost' = lost \cup Range(queued)
  /\ UNCHANGED <<ignoring, keyVars, scroll, touchVars, callbacks, asked, done, gestures, crossed>>

Next ==
  \/ ForwardKeyboardEvent \/ AddKeyPressEventCallback \/ RemoveKeyPressEventCallback
  \/ OnUnexpectedEventAck \/ ForwardGestureEvent
  \/ SetTouchEventEmulationEnabled \/ ForwardTouchEventWithLatencyInfo
  \/ ForwardEmulatedTouchEvent \/ OnTouchEventAck
  \/ RendererQueuesSyntheticGesture \/ QueueSyntheticGesture \/ GesturePlayed
  \/ OnSyntheticGestureCompleted \/ SetIgnoreInputEvents \/ SetView

Spec == Init /\ [][Next]_vars

-----------------------------------------------------------------------------
(* Properties.                                                             *)

\* The types.
TypeOK ==
  /\ ignoring \in BOOLEAN /\ view \in BOOLEAN /\ emulator \in BOOLEAN
  /\ keys \in [suppress : BOOLEAN, leaked : BOOLEAN,
               stroke : {"none", "browser", "page", "emulator", "dropped"}]
  /\ scroll \in [flag : BOOLEAN, stream : BOOLEAN, broken : BOOLEAN, nested : BOOLEAN,
                 loose : BOOLEAN]
  /\ Range(touches) \subseteq {"native", "emulated"}
  /\ Range(callbacks) \cup lost \subseteq 1 .. MaxGestures

\* "If preceding RawKeyDown event was handled by the browser, then we need suppress all
\* Char events generated by it": none of them reaches the page, and those of a key that did
\* reach it are not suppressed.
CharsFollowTheirKey ==
  /\ ~ keys.leaked
  /\ keys.stroke \in {"page", "emulator"} => ~ keys.suppress

\* A page sees scrolls one after the other, and a plugin's updates only in a scroll.
ScrollsAreBracketed ==
  scroll.flag = scroll.stream /\ ~ scroll.nested /\ ~ scroll.loose

\* The view has each of its touches acked once, and no touch that is not its own.
TouchesAreAcked == unacked = Cardinality({i \in DOMAIN touches : touches[i] = "native"})

\* A page's callbacks wait for gestures that are under way, in their order, and the news is
\* for the first of them unless a view was lost and took gestures with it.
GesturesAreCounted ==
  /\ Len(callbacks) = Len(asked) + Len(queued) + Len(done) + Cardinality(lost)
  /\ crossed => lost # {}
  /\ lost = {} => callbacks = done \o queued \o asked

\* Input reaches the page as the user, the emulator or the page itself made it.
InputIsInOrder ==
  CharsFollowTheirKey /\ ScrollsAreBracketed /\ TouchesAreAcked /\ GesturesAreCounted
=============================================================================
