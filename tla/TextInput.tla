------------------------------- MODULE TextInput -------------------------------
(***************************************************************************)
(* Text editing on Android: the input method edits a copy of the focused   *)
(* field in the browser and sends each edit as a command; the page may     *)
(* change the field meanwhile.  RenderWidget tells the browser of every    *)
(* new state and refuses the commands made before the browser has heard of *)
(* it; RenderFrameImpl carries out edit commands and tells the browser     *)
(* what is selected.                                                       *)
(*                                                                         *)
(* src/src/content/renderer/render_widget.cc and render_frame_impl.cc, and *)
(* the browser's end in render_widget_host_impl.cc and                     *)
(* render_widget_host_view_android.cc.  Both channels keep their order.    *)
(* Blink's editor, the input method and its copy of the field are          *)
(* external.  Of a text only its length is kept.                           *)
(***************************************************************************)
EXTENDS Integers, Sequences, FiniteSets

CONSTANTS
  MaxText,    \* bound: length of the field's text
  MaxEdits    \* bound: commands, input events and changes by script

TextAssumption == MaxText \in Nat \ {0} /\ MaxEdits \in Nat

VARIABLES
  page,       \* what the renderer holds; see Init
  up, down,   \* renderer to browser, browser to renderer
  showing,    \* is the view in the browser shown?
  \* external
  ime,        \* the browser's copy of the field: [focus, text]
  selected,   \* what the browser was last told is selected
  \* bookkeeping
  edits,      \* edits so far
  astray,     \* what first kept the two copies from agreeing; see Fit
  unsaid      \* the selection changed where no one reports it

vars == <<page, up, down, showing, ime, selected, edits, astray, unsaid>>

-----------------------------------------------------------------------------
(* What the page shows.                                                    *)

BodyText == 1

\* webwidget_->textInputInfo() and its type.
textInputInfo(p) == [focus |-> p.focus, text |-> IF p.focus = "field" THEN p.text ELSE 0]

\* Blink's selection, as a range and as the text the browser is to have: around the
\* caret in a field, the selected text elsewhere.
Selection(p) ==
  LET n == IF p.focus = "field" THEN p.text ELSE BodyText
  IN [range |-> IF p.sel = "all" THEN <<0, n>> ELSE <<n, n>>,
      text  |-> IF p.focus = "field" \/ p.sel = "all" THEN n ELSE 0]

-----------------------------------------------------------------------------
(* RenderWidget: text input state.                                         *)

OnImeEventSentForAck(p, info) == [p EXCEPT !.history = Append(@, info)]

\* Sent when something changed, when the keyboard is to be shown and after a change
\* by script; never while an event of the input method is handled.
UpdateTextInputState(p, showIme, nonIme) ==
  LET info == textInputInfo(p)
      non  == nonIme \/ p.dirty
      sent == [p EXCEPT !.out = Append(@, [type |-> "TextInputState", info |-> info, nonIme |-> non]),
                        !.info = info, !.dirty = FALSE]
  IN IF p.guarded \/ ~ (showIme \/ p.info # info \/ p.dirty) THEN p
     ELSE IF non THEN OnImeEventSentForAck(sent, info)
     ELSE sent

OnImeEventAck(p) == [p EXCEPT !.history = Tail(@)]

\* history[1] is the state the browser acknowledged, the others are on their way.
BugShouldHandleImeEvent(p) == TRUE
ShouldHandleImeEvent(p) == \A i \in 1 .. Len(p.history) - 1 : p.history[i] = p.info

\* An ImeEventGuard holds back what it encloses and reports it at its end.
OnImeEventGuardStart(p) == [p EXCEPT !.guarded = TRUE]
OnImeEventGuardFinish(p) == UpdateTextInputState([p EXCEPT !.guarded = FALSE], FALSE, FALSE)

ImeCancelComposition(p) == [p EXCEPT !.out = Append(@, [type |-> "ImeCancelComposition"])]

-----------------------------------------------------------------------------
(* RenderFrameImpl: the selection.                                         *)

SyncSelectionIfRequired(p) ==
  IF p.sel = "none" \/ p.synced = Selection(p) THEN p
  ELSE [p EXCEPT !.synced = Selection(p),
                 !.out = Append(@, [type |-> "SelectionChanged", selection |-> Selection(p)])]

\* Blink says that the selection changed.  Only input and the commands that select
\* make the frame report it.
didChangeSelection(p, handling) ==
  LET cleared == IF p.sel = "all" THEN p ELSE [p EXCEPT !.synced.text = 0]
  IN IF ~ handling THEN p
     ELSE SyncSelectionIfRequired(UpdateTextInputState(cleared, FALSE, TRUE))

\* An edit of Blink's, which answers with didChangeSelection if it moved anything.
Edited(p, text, sel, handling) ==
  LET q == [p EXCEPT !.text = IF p.focus = "field" THEN text ELSE @,
                     !.sel = IF p.focus = "field" \/ sel # "caret" \/ @ # "none" THEN sel ELSE @]
  IN IF q = p THEN p ELSE didChangeSelection(q, handling)

More(p) == IF p.text < MaxText THEN p.text + 1 ELSE p.text
Less(p) == IF p.text > 0 THEN p.text - 1 ELSE 0
WithoutSelected(p) == IF p.sel = "all" THEN 0 ELSE p.text

-----------------------------------------------------------------------------
(* Commands of the input method.  reacts: the page's own handler empties   *)
(* the field while the command is carried out.                             *)

\* didUpdateTextOfFocusedElementByNonUserInput
SetByScript(p, text, handling) == Edited([p EXCEPT !.dirty = TRUE], text, "caret", handling)

React(p, reacts, handling) ==
  IF reacts /\ p.focus = "field" THEN SetByScript(p, 0, handling) ELSE p

OnImeSetComposition(p, reacts) ==
  LET q == OnImeEventGuardStart(p)
  IN OnImeEventGuardFinish(
       IF p.focus = "field" THEN React(Edited(q, More(q), "caret", FALSE), reacts, FALSE)
       ELSE ImeCancelComposition(q))

\* Confirming counts as input.
OnImeConfirmComposition(p, reacts) ==
  LET q == OnImeEventGuardStart(p)
  IN OnImeEventGuardFinish(React(Edited(q, More(q), "caret", TRUE), reacts, TRUE))

OnSetEditableSelectionOffsets(p) ==
  OnImeEventGuardFinish(Edited(OnImeEventGuardStart(p), p.text, "all", p.focus = "field"))

OnExtendSelectionAndDelete(p, reacts) ==
  LET q == OnImeEventGuardStart(p)
  IN OnImeEventGuardFinish(React(Edited(q, Less(q), "caret", FALSE), reacts, FALSE))

\* OnSetCompositionFromExistingText marks a part of the text and leaves it as it is.
OnSetCompositionFromExistingText(p) == OnImeEventGuardFinish(OnImeEventGuardStart(p))

ImeCommands == {"compose", "confirm", "offsets", "existing", "delete"}

OnImeCommand(p, cmd, reacts) ==
  IF ~ ShouldHandleImeEvent(p) THEN p
  ELSE CASE cmd = "compose"  -> OnImeSetComposition(p, reacts)
         [] cmd = "confirm"  -> OnImeConfirmComposition(p, reacts)
         [] cmd = "offsets"  -> IF p.focus = "field" /\ p.text > 0
                                  THEN OnSetEditableSelectionOffsets(p)
                                  ELSE OnSetCompositionFromExistingText(p)
         [] cmd = "existing" -> OnSetCompositionFromExistingText(p)
         [] cmd = "delete"   -> OnExtendSelectionAndDelete(p, reacts)

-----------------------------------------------------------------------------
(* Edit commands.                                                          *)

\* OnCut, OnPaste, OnSelectAll, OnUnselect, OnSelectRange and
\* OnMoveRangeSelectionExtent set handling_select_range_.
SelectCommands == {"Cut", "Paste", "SelectAll", "Unselect", "SelectRange"}
\* OnUndo, OnRedo, OnDelete and OnReplaceMisspelling do not; OnReplace reports by itself.
OtherCommands == {"Delete", "Undo", "Replace"}

SelectsRange(cmd) == cmd \in SelectCommands

ExecuteCommand(p, cmd) ==
  LET handling == SelectsRange(cmd)
      nothing  == IF p.focus = "field" THEN "caret" ELSE "none"
  IN CASE cmd \in {"Cut", "Delete"} -> Edited(p, WithoutSelected(p), IF p.focus = "field" THEN "caret" ELSE p.sel, handling)
       [] cmd = "Paste"  -> IF p.focus = "field" THEN Edited(p, More(p), "caret", handling) ELSE p
       [] cmd \in {"SelectAll", "SelectRange"} ->
            IF p.focus = "field" /\ p.text = 0 THEN p ELSE Edited(p, p.text, "all", handling)
       [] cmd = "Unselect" -> Edited(p, p.text, nothing, handling)
       [] cmd = "Undo"     -> IF p.focus = "field" THEN Edited(p, Less(p), "caret", handling) ELSE p
       [] cmd = "Replace"  ->
            SyncSelectionIfRequired(
              IF p.focus = "field" THEN Edited(p, More(p), "caret", handling) ELSE p)

-----------------------------------------------------------------------------
Init ==
  /\ page = [focus |-> "body", text |-> 0, sel |-> "none",
             guarded |-> FALSE,                     \* ime_event_guard_
             dirty   |-> FALSE,                     \* text_field_is_dirty_
             info    |-> [focus |-> "body", text |-> 0],      \* text_input_info_
             history |-> <<[focus |-> "body", text |-> 0]>>,  \* text_input_info_history_
             synced  |-> [range |-> <<0, 0>>, text |-> 0],    \* selection_range_, selection_text_
             out |-> <<>>]
  /\ up = <<>> /\ down = <<>>
  /\ showing = TRUE
  /\ ime = [focus |-> "body", text |-> 0]
  /\ selected = [range |-> <<0, 0>>, text |-> 0]
  /\ edits = 0 /\ astray = "no" /\ unsaid = FALSE

CountEdit == edits < MaxEdits /\ edits' = edits + 1

Becomes(p) ==
  /\ page' = [p EXCEPT !.out = <<>>]
  /\ up' = up \o p.out

\* Did the selection change, or vanish, without the frame having reported it?
Silent(p) == p.sel = "none" \/ p.synced # Selection(p)

\* How well a command fits the state it is carried out on: made for this state; made
\* for another that looks the same; made for this one while another report of it is on
\* its way; carried out before an edit of the user was reported, which then passes for
\* the input method's own.
Fit(made) ==
  CASE page.info # textInputInfo(page) /\ ~ page.dirty -> "unreported"
    [] Len(page.history) > 1 /\ page.history[1] = page.info ->
         IF made = page.info THEN "overlap" ELSE "returned"
    [] OTHER -> IF made = page.info THEN "no" ELSE "misfit"

\* A command arrives at the renderer.
ImeCommandArrives ==
  \E reacts \in BOOLEAN :
    /\ down # <<>> /\ Head(down).cmd \in ImeCommands
    /\ down' = Tail(down)
    /\ Becomes(OnImeCommand(page, Head(down).cmd, reacts))
    /\ astray' = IF astray = "no" /\ ShouldHandleImeEvent(page) THEN Fit(Head(down).for) ELSE astray
    /\ unsaid' = (unsaid \/ Silent(page'))
    /\ UNCHANGED <<showing, ime, selected, edits>>

EditCommandArrives ==
  /\ down # <<>> /\ Head(down).cmd \in SelectCommands \cup OtherCommands
  /\ down' = Tail(down)
  /\ Becomes(ExecuteCommand(page, Head(down).cmd))
  /\ unsaid' = CASE Head(down).cmd \in {"Undo", "Delete"} \/ page'.sel = "none" -> unsaid \/ Silent(page')
                 [] page' = page -> unsaid
                 [] OTHER        -> FALSE
  /\ UNCHANGED <<showing, ime, selected, edits, astray>>

AckArrives ==
  /\ down # <<>> /\ Head(down).cmd = "ack"
  /\ down' = Tail(down)
  /\ Becomes(OnImeEventAck(page))
  /\ UNCHANGED <<showing, ime, selected, edits, astray, unsaid>>

\* The user touches the page: the focus moves, and a tap asks for the keyboard.
\* Blink resets the input method, which runs under a guard of its own.
Tap ==
  \E focus \in {"field", "body"} :
    /\ CountEdit
    /\ LET moved == [OnImeEventGuardStart(page) EXCEPT
                       !.focus = focus, !.sel = IF focus = "field" THEN "caret" ELSE "none"]
           reset == OnImeEventGuardFinish(moved)
       IN Becomes(UpdateTextInputState(didChangeSelection(reset, TRUE), TRUE, TRUE))
    /\ unsaid' = (focus = "body")
    /\ UNCHANGED <<down, showing, ime, selected, astray>>

\* The page changes the focused field on its own.
Script ==
  \E text \in {0, MaxText} :
    /\ page.focus = "field" /\ text # page.text
    /\ CountEdit
    /\ Becomes(SetByScript(page, text, FALSE))
    /\ unsaid' = TRUE
    /\ UNCHANGED <<down, showing, ime, selected, astray>>

\* Every frame looks again.
WillBeginCompositorFrame ==
  /\ page.dirty \/ page.info # textInputInfo(page)
  /\ Becomes(UpdateTextInputState(page, FALSE, TRUE))
  /\ UNCHANGED <<down, showing, ime, selected, edits, astray, unsaid>>

-----------------------------------------------------------------------------
(* The browser.                                                            *)

\* What the input method expects its command to make of the field.
Expected(cmd) ==
  IF ime.focus # "field" THEN ime
  ELSE CASE cmd \in {"compose", "confirm"} -> [ime EXCEPT !.text = IF @ < MaxText THEN @ + 1 ELSE @]
         [] cmd = "delete" -> [ime EXCEPT !.text = IF @ > 0 THEN @ - 1 ELSE @]
         [] OTHER -> ime

ImeSends ==
  \E cmd \in ImeCommands :
    /\ CountEdit
    /\ down' = Append(down, [cmd |-> cmd, for |-> ime])
    /\ ime' = Expected(cmd)
    /\ UNCHANGED <<page, up, showing, selected, astray, unsaid>>

UserCommands ==
  \E cmd \in SelectCommands \cup OtherCommands :
    /\ CountEdit
    /\ down' = Append(down, [cmd |-> cmd])
    /\ UNCHANGED <<page, up, showing, ime, selected, astray, unsaid>>

\* TextInputStateChanged: the change is acknowledged, shown or not.  The input method
\* keeps its own copy unless the change is not its doing, or the field is another.
Acknowledged(m) == IF m.nonIme THEN <<[cmd |-> "ack"]>> ELSE <<>>

TextInputStateChanged ==
  /\ up # <<>> /\ Head(up).type = "TextInputState"
  /\ up' = Tail(up)
  /\ down' = down \o Acknowledged(Head(up))
  /\ ime' = IF showing /\ (Head(up).nonIme \/ Head(up).info.focus # ime.focus)
              THEN Head(up).info ELSE ime
  /\ astray' = IF astray = "no" /\ ~ showing THEN "hidden" ELSE astray
  /\ UNCHANGED <<page, showing, selected, edits, unsaid>>

\* SelectionChanged; a cancelled composition changes nothing here.
SelectionChanged ==
  /\ up # <<>> /\ Head(up).type # "TextInputState"
  /\ up' = Tail(up)
  /\ selected' = IF Head(up).type = "SelectionChanged" THEN Head(up).selection ELSE selected
  /\ UNCHANGED <<page, down, showing, ime, edits, astray, unsaid>>

ShowOrHide ==
  /\ CountEdit
  /\ showing' = ~ showing
  /\ UNCHANGED <<page, up, down, ime, selected, astray, unsaid>>

Next ==
  \/ ImeCommandArrives
  \/ EditCommandArrives
  \/ AckArrives
  \/ Tap
  \/ Script
  \/ WillBeginCompositorFrame
  \/ ImeSends
  \/ UserCommands
  \/ TextInputStateChanged
  \/ SelectionChanged
  \/ ShowOrHide

Spec == Init /\ [][Next]_vars

-----------------------------------------------------------------------------
(* Properties.                                                             *)

TypeOK ==
  /\ page.focus \in {"field", "body"} /\ page.text \in 0 .. MaxText
  /\ page.sel \in {"none", "caret", "all"}
  /\ ~ page.guarded /\ page.out = <<>>
  /\ page.history # <<>>

\* The renderer waits for exactly the acknowledgements that are on their way: the
\* list it takes stale commands by neither runs out nor grows.
HistoryIsOwed ==
  Len(page.history) - 1 =
    Len(SelectSeq(up, LAMBDA m : m.type = "TextInputState" /\ m.nonIme))
    + Len(SelectSeq(down, LAMBDA m : m.cmd = "ack"))

\* A command is carried out on the state it was made for, as long as every edit was
\* reported and no state comes back that the browser had already acknowledged.  (The
\* comment at render_widget.cc:1902 allows no such exception.)
CommandsFitTheState == astray # "misfit"

\* When all is said and heard the input method and the page hold the same text,
\* unless a command went astray or the view was hidden.
SameTextWhenQuiet ==
  up = <<>> /\ down = <<>> /\ ~ page.dirty /\ page.info = textInputInfo(page) /\ astray = "no" =>
    ime = page.info

\* The browser knows what is selected once the commands and the input that select
\* are handled and heard of.
SelectionIsKnown == up = <<>> /\ ~ unsaid /\ page.sel # "none" => selected = Selection(page)

\* Both sides hold the same text and selection, and commands fit them.
TextIsShared ==
  /\ HistoryIsOwed
  /\ CommandsFitTheState
  /\ SameTextWhenQuiet
  /\ SelectionIsKnown

=============================================================================
