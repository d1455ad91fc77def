------------------------------- MODULE MCPage -------------------------------
(***************************************************************************)
(* Small instances of five parts of a page that do not touch each other's  *)
(* state: the navigations of a frame, the text and selection of its        *)
(* fields, the widgets that show it, the user's input on the way to it,    *)
(* and what it asks of its host.  A behaviour follows one of them, named   *)
(* by part; the others rest in their initial states.                       *)
(***************************************************************************)
EXTENDS Integers, Sequences, FiniteSets

CONSTANTS kMaxSessionHistoryEntries, MaxLoads, Restored, BrowserSideModes, MayDrop,
          MaxText, MaxEdits, Widgets, MaxActs, MaxTouches, MaxGestures, MaxListeners,
          MaxAsks, MaxSnapshots

VARIABLES
  part,
  frame, browserSide, said, browser, loads, raced,                      \* FrameNavigation
  page, up, down, showing, ime, selected, edits, astray, unsaid,        \* TextInput
  rw, tasks, thread, rwh, visible, sent, told, crashed, acts, leaks,    \* WidgetLife
  \* WidgetInput
  ignoring, view, keys, listeners, scroll, emulator, touches, unacked, callbacks, queued,
  asked, done, gestures, lost, crossed,
  \* WidgetRequests
  alive, viewed, lock, wants, prompts, asks, to_renderer, to_browser, waiting, snapshots,
  redraw, frames, shown, grabs, answers, load

navigationVars == <<frame, browserSide, said, browser, loads, raced>>
textVars       == <<page, up, down, showing, ime, selected, edits, astray, unsaid>>
widgetVars     == <<rw, tasks, thread, rwh, visible, sent, told, crashed, acts, leaks>>
inputVars      == <<ignoring, view, keys, listeners, scroll, emulator, touches, unacked,
                    callbacks, queued, asked, done, gestures, lost, crossed>>
requestVars    == <<alive, viewed, lock, wants, prompts, asks, to_renderer, to_browser, waiting,
                    snapshots, redraw, frames, shown, grabs, answers, load>>

N == INSTANCE FrameNavigation
T == INSTANCE TextInput
W == INSTANCE WidgetLife
I == INSTANCE WidgetInput
R == INSTANCE WidgetRequests
       WITH up <- alive, view <- viewed, page <- wants, sent <- to_renderer, told <- to_browser

ASSUME PageAssumption ==
  /\ N!NavigationAssumption /\ T!TextAssumption /\ W!WidgetsAssumption /\ I!InputAssumption
  /\ R!RequestsAssumption

Init ==
  /\ part \in {"navigation", "text", "widgets", "input", "requests"}
  /\ N!Init
  /\ part # "navigation" => browserSide /\ frame.opener
  /\ T!Init /\ W!Init /\ I!Init /\ R!Init

Navigation == /\ part = "navigation" /\ N!Next
              /\ UNCHANGED <<part, textVars, widgetVars, inputVars, requestVars>>
Text       == /\ part = "text" /\ T!Next
              /\ UNCHANGED <<part, navigationVars, widgetVars, inputVars, requestVars>>
OfWidgets  == /\ part = "widgets" /\ W!Next
              /\ UNCHANGED <<part, navigationVars, textVars, inputVars, requestVars>>
Input      == /\ part = "input" /\ I!Next
              /\ UNCHANGED <<part, navigationVars, textVars, widgetVars, requestVars>>
Requests   == /\ part = "requests" /\ R!Next
              /\ UNCHANGED <<part, navigationVars, textVars, widgetVars, inputVars>>

Next == Navigation \/ Text \/ OfWidgets \/ Input \/ Requests

vars == <<part, navigationVars, textVars, widgetVars, inputVars, requestVars>>

Spec == Init /\ [][Next]_vars

-----------------------------------------------------------------------------
(* The properties of the parts.                                            *)

\* Session history as the frame tells it to the browser: commits name the request that
\* led to them, states are filed under the page they are of, the view stands on an
\* entry it counts, and a frame that is swapped out shows nothing.
HistoryIsTrue == N!TypeOK /\ N!HistoryIsTrue

\* The page and the input method hold the same text, and no command is carried out on
\* another text than the one it was made for.
TextIsShared == T!TypeOK /\ T!TextIsShared

\* Each widget is counted once by the counts that background a process or end it.
WidgetsAreCounted == W!TypeOK /\ W!WidgetsAreCounted

\* No character without its key, no update without its scroll, no touch acked to another,
\* no gesture forgotten.
InputIsInOrder == I!TypeOK /\ I!InputIsInOrder

\* A request for the mouse, and one for a picture, is answered once and by what it asked
\* for; the timer for new content runs for content that is missing.
RequestsAreKept == R!TypeOK /\ R!RequestsAreKept

\* "Leaking our WebWidget!" (render_widget.cc:573): a widget closes its WebWidget before it
\* goes.  The popup whose creation failed does not.
NothingLeaks == W!NothingLeaks
=============================================================================
