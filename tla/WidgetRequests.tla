--------------------------- MODULE WidgetRequests ---------------------------
(***************************************************************************)
(* Requests that a RenderWidgetHostImpl passes on and answers later: a     *)
(* page asks for the mouse, the browser's user says yes or no, and the     *)
(* lock may be lost at any time; the browser asks for a picture of the     *)
(* page as it will be after one more frame; and a new page is given some   *)
(* time to paint before the old one is cleared away.  The view may go, and *)
(* the renderer may crash, in between.                                     *)
(*                                                                         *)
(* src/src/content/browser/renderer_host/render_widget_host_impl.cc (UI    *)
(* thread).  The renderer's MouseLockDispatcher, its frames, the view, the *)
(* screen and the delegate that asks the user are external.  A frame drawn *)
(* after its view is gone would be looked up with a null view: no step of  *)
(* this module does that.                                                  *)
(***************************************************************************)
EXTENDS Integers, Sequences, FiniteSets

CONSTANTS
  MaxAsks,       \* bound: requests for the mouse
  MaxSnapshots,  \* bound: requests for a picture
  MaxLoads       \* bound: pages

RequestsAssumption == MaxAsks \in Nat /\ MaxSnapshots \in Nat /\ MaxLoads \in Nat

VARIABLES
  up,         \* the renderer lives and renderer_initialized_ is set
  view,       \* view_ is there
  lock,       \* [pending |-> pending_mouse_lock_request_, locked |-> the view holds it]
  page,       \* external: the page's [asking, locked, unlocking]
  prompts,    \* external: questions to the user that are open
  asks,
  sent, told, \* to the renderer, to the browser
  waiting,    \* pending_browser_snapshots_: ids
  snapshots,  \* the last id given out
  redraw,     \* external: the id the renderer's next frame will carry, or 0
  frames,     \* external: the ids of frames the browser is to draw
  shown,      \* external: the newest id on the screen
  grabs,      \* pictures being taken: [id, data], data the newest id it shows
  answers,    \* id -> the newest id that its picture shows, 0: not answered
  load        \* [commits, paints, timer, received, steady]

lockVars     == <<lock, page, prompts, asks>>
snapshotVars == <<waiting, snapshots, redraw, frames, shown, grabs, answers>>
vars == <<up, view, lockVars, sent, told, snapshotVars, load>>

Init ==
  /\ up = TRUE /\ view = TRUE
  /\ lock = [pending |-> FALSE, locked |-> FALSE]
  /\ page = [asking |-> FALSE, locked |-> FALSE, unlocking |-> FALSE]
  /\ prompts = 0 /\ asks = 0
  /\ sent = <<>> /\ told = <<>>
  /\ waiting = {} /\ snapshots = 0 /\ redraw = 0 /\ frames = <<>> /\ shown = 0
  /\ grabs = {} /\ answers = [i \in 1 .. MaxSnapshots |-> 0]
  /\ load = [commits |-> 0, paints |-> 0, timer |-> FALSE, received |-> FALSE,
             steady |-> TRUE]

Send(ms) == sent' = IF up THEN sent \o ms ELSE sent

Ack(granted) == [type |-> "LockMouse_ACK", granted |-> granted]
MouseLockLost == [type |-> "MouseLockLost"]

-----------------------------------------------------------------------------
(* The mouse.                                                              *)

\* RejectMouseLockOrUnlockIfNecessary: the view that unlocks tells the host, which tells
\* the page (LostMouseLock).
Rejected(l) == [l EXCEPT !.pending = FALSE, !.locked = @ /\ l.pending]
Rejection(l) ==
  IF l.pending THEN <<Ack(FALSE)>> ELSE IF l.locked THEN <<MouseLockLost>> ELSE <<>>

\* A page is free to ask when it has no lock and waits for none.
LockMouse ==
  /\ up /\ asks < MaxAsks
  /\ ~ page.asking /\ ~ page.locked /\ ~ page.unlocking
  /\ asks' = asks + 1
  /\ page' = [page EXCEPT !.asking = TRUE]
  /\ told' = Append(told, [type |-> "LockMouse"])
  /\ UNCHANGED <<up, view, lock, prompts, sent, snapshotVars, load>>

UnlockMouse ==
  /\ up
  /\ page.asking \/ page.locked
  /\ ~ page.unlocking
  /\ page' = [page EXCEPT !.unlocking = TRUE]
  /\ told' = Append(told, [type |-> "UnlockMouse"])
  /\ UNCHANGED <<up, view, lock, prompts, asks, sent, snapshotVars, load>>

\* GotResponseToLockMouseRequest: a grant finds a request that still waits, and a view
\* that has the focus and can lock.
Granted(l) ==
  IF ~ l.pending THEN lock' = l /\ UNCHANGED sent
  ELSE \E able \in IF view THEN BOOLEAN ELSE {FALSE} :
         lock' = [pending |-> FALSE, locked |-> able] /\ Send(<<Ack(able)>>)

GotResponseToLockMouseRequest(l, allowed) ==
  IF allowed THEN Granted(l) ELSE lock' = Rejected(l) /\ Send(Rejection(l))

\* One request at a time; a locked mouse is granted again, a privileged page is granted it
\* at once, and without a delegate the request is refused.
OnLockMouse ==
  IF lock.pending \/ lock.locked
    THEN Send(<<Ack(lock.locked)>>) /\ UNCHANGED <<lock, prompts>>
    ELSE \/ lock' = [lock EXCEPT !.pending = TRUE] /\ prompts' = prompts + 1 /\ UNCHANGED sent
         \/ /\ \E allowed \in BOOLEAN :
                 GotResponseToLockMouseRequest([lock EXCEPT !.pending = TRUE], allowed)
            /\ UNCHANGED prompts

\* The user answers, perhaps after the page has given up or has asked again.
UserAnswers ==
  /\ prompts > 0 /\ prompts' = prompts - 1
  /\ \E allowed \in BOOLEAN : GotResponseToLockMouseRequest(lock, allowed)
  /\ UNCHANGED <<up, view, page, asks, told, snapshotVars, load>>

\* Blur, or the view loses the mouse by itself: a request that waits is kept, the user may
\* come back to it.
LostMouseLock ==
  /\ lock.locked
  /\ lock' = [lock EXCEPT !.locked = FALSE]
  /\ Send(<<MouseLockLost>>)
  /\ UNCHANGED <<up, view, page, prompts, asks, told, snapshotVars, load>>

-----------------------------------------------------------------------------
(* Pictures.                                                               *)

GetSnapshotFromBrowser ==
  /\ snapshots < MaxSnapshots
  /\ snapshots' = snapshots + 1
  /\ waiting' = waiting \cup {snapshots + 1}
  /\ Send(<<[type |-> "ForceRedraw", id |-> snapshots + 1]>>)
  /\ UNCHANGED <<up, view, lockVars, told, redraw, frames, shown, grabs, answers, load>>

\* The renderer's next frame carries the newest of the ids it was asked for.
SwapCompositorFrame ==
  /\ up /\ redraw # 0
  /\ told' = Append(told, [type |-> "SwapCompositorFrame", id |-> redraw])
  /\ redraw' = 0
  /\ UNCHANGED <<up, view, lockVars, sent, waiting, snapshots, frames, shown, grabs, answers,
                 load>>

\* A frame goes to the view; without one it is acknowledged and its resources go back.
OnSwapCompositorFrame(id) == frames' = IF view THEN Append(frames, id) ELSE frames

\* OnSnapshotDataReceived: a picture answers what was asked before it, too.
Answered(id) == {i \in waiting : i <= id}

OnSnapshotDataReceived(id, data) ==
  /\ waiting' = waiting \ Answered(id)
  /\ answers' = [i \in DOMAIN answers |-> IF i \in Answered(id) THEN data ELSE answers[i]]

\* CompositorFrameDrawn, FrameSwapped and WindowSnapshotReachedScreen: the picture is
\* taken at once, or asynchronously.
CompositorFrameDrawn ==
  /\ frames # <<>> /\ view
  /\ frames' = Tail(frames) /\ shown' = Head(frames)
  /\ \/ OnSnapshotDataReceived(Head(frames), Head(frames)) /\ UNCHANGED grabs
     \/ /\ grabs' = grabs \cup {[id |-> Head(frames), data |-> Head(frames)]}
        /\ UNCHANGED <<waiting, answers>>
  /\ UNCHANGED <<up, view, lockVars, sent, told, snapshots, redraw, load>>

OnSnapshotDataReceivedAsync ==
  /\ \E g \in grabs : grabs' = grabs \ {g} /\ OnSnapshotDataReceived(g.id, g.data)
  /\ UNCHANGED <<up, view, lockVars, sent, told, snapshots, redraw, frames, shown, load>>

-----------------------------------------------------------------------------
(* New content.                                                            *)

Even(l) == l.commits - l.paints \in -1 .. 1

\* The browser hears that a page was committed, and starts the timer unless the page has
\* painted already.
StartNewContentRenderingTimeout ==
  /\ load.commits < MaxLoads
  /\ LET l == [load EXCEPT !.commits = @ + 1, !.received = FALSE,
                           !.timer = @ \/ ~ load.received]
     IN  load' = [l EXCEPT !.steady = @ /\ Even(l)]
  /\ UNCHANGED <<up, view, lockVars, sent, told, snapshotVars>>

\* The first paint of a page comes with the frame, by another way than the commit.
BugPaint(l) == [l EXCEPT !.timer = FALSE, !.received = TRUE]
Paint(l) == [l EXCEPT !.timer = FALSE, !.received = @ \/ ~ l.timer]

OnFirstPaintAfterLoad ==
  /\ up
  /\ load.paints < MaxLoads /\ load.paints <= load.commits
  /\ LET l == [Paint(load) EXCEPT !.paints = @ + 1]
     IN  load' = [l EXCEPT !.steady = @ /\ Even(l)]
  /\ UNCHANGED <<up, view, lockVars, sent, told, snapshotVars>>

\* The timer fires: from now on a late paint is taken for that of the next page.
ClearDisplayedGraphics ==
  /\ load.timer
  /\ load' = [load EXCEPT !.timer = FALSE, !.steady = FALSE]
  /\ UNCHANGED <<up, view, lockVars, sent, told, snapshotVars>>

-----------------------------------------------------------------------------
(* Messages, the view and the renderer.                                    *)

OnHostMessage ==
  /\ told # <<>> /\ told' = Tail(told)
  /\ LET m == Head(told)
     IN  \/ m.type = "LockMouse" /\ OnLockMouse /\ UNCHANGED frames
         \/ /\ m.type = "UnlockMouse"
            /\ lock' = Rejected(lock) /\ Send(Rejection(lock))
            /\ UNCHANGED <<prompts, frames>>
         \/ /\ m.type = "SwapCompositorFrame"
            /\ OnSwapCompositorFrame(m.id)
            /\ UNCHANGED <<lock, prompts, sent>>
  /\ UNCHANGED <<up, view, page, asks, waiting, snapshots, redraw, shown, grabs, answers, load>>

OnRendererMessage ==
  /\ up /\ sent # <<>> /\ sent' = Tail(sent)
  /\ LET m == Head(sent)
     IN  \/ /\ m.type = "LockMouse_ACK"
            /\ page' = [asking |-> FALSE, locked |-> m.granted,
                        unlocking |-> page.unlocking /\ m.granted]
            /\ UNCHANGED redraw
         \/ /\ m.type = "MouseLockLost"
            /\ page' = [page EXCEPT !.locked = FALSE, !.unlocking = FALSE]
            /\ UNCHANGED redraw
         \/ m.type = "ForceRedraw" /\ redraw' = m.id /\ UNCHANGED page
  /\ UNCHANGED <<up, view, lock, prompts, asks, told, waiting, snapshots, frames, shown, grabs,
                 answers, load>>

\* The view goes when none of its frames is to be drawn any more.
ViewDestroyed ==
  /\ view /\ view' = FALSE /\ frames = <<>>
  /\ lock' = Rejected(lock) /\ Send(Rejection(lock))
  /\ UNCHANGED <<up, page, prompts, asks, told, snapshotVars, load>>

\* A crash: the view goes with the renderer (and says so), the pictures stay asked for.
RendererExited ==
  /\ up /\ up' = FALSE /\ frames = <<>>
  /\ view' = FALSE
  /\ lock' = Rejected(lock)
  /\ sent' = <<>> /\ told' = <<>> /\ redraw' = 0
  /\ page' = [asking |-> FALSE, locked |-> FALSE, unlocking |-> FALSE]
  /\ load' = [load EXCEPT !.steady = FALSE]
  /\ UNCHANGED <<prompts, asks, waiting, snapshots, frames, shown, grabs, answers>>

\* A new view, and after a crash a new renderer.
SetView ==
  /\ ~ view /\ view' = TRUE /\ up' = TRUE
  /\ UNCHANGED <<lockVars, sent, told, snapshotVars, load>>

Next ==
  \/ LockMouse \/ UnlockMouse \/ UserAnswers \/ LostMouseLock
  \/ GetSnapshotFromBrowser \/ SwapCompositorFrame \/ CompositorFrameDrawn
  \/ OnSnapshotDataReceivedAsync
  \/ StartNewContentRenderingTimeout \/ OnFirstPaintAfterLoad \/ ClearDisplayedGraphics
  \/ OnHostMessage \/ OnRendererMessage \/ ViewDestroyed \/ RendererExited \/ SetView

Spec == Init /\ [][Next]_vars

-----------------------------------------------------------------------------
(* Properties.                                                             *)

Flag(p) == IF p THEN 1 ELSE 0
Count(q, type) == Cardinality({i \in DOMAIN q : q[i].type = type})

\* The types.
TypeOK ==
  /\ up \in BOOLEAN /\ view \in BOOLEAN
  /\ lock \in [pending : BOOLEAN, locked : BOOLEAN]
  /\ page \in [asking : BOOLEAN, locked : BOOLEAN, unlocking : BOOLEAN]
  /\ prompts \in 0 .. MaxAsks /\ waiting \subseteq 1 .. MaxSnapshots
  /\ answers \in [1 .. MaxSnapshots -> 0 .. MaxSnapshots]
  /\ load \in [commits : 0 .. MaxLoads, paints : 0 .. MaxLoads, timer : BOOLEAN,
               received : BOOLEAN, steady : BOOLEAN]

\* A page that asked is answered once: its question is on its way, before the user, or its
\* answer is on its way, and nothing else answers.
OneAnswer ==
  Flag(page.asking) = Count(told, "LockMouse") + Flag(lock.pending) + Count(sent, "LockMouse_ACK")

\* The view holds the mouse for the page that will believe to have it: the last word about
\* the mouse that is on its way decides, or else what the page believes now.
Words(q) == {i \in DOMAIN q : q[i].type \in {"LockMouse_ACK", "MouseLockLost"}}

WillHold(q, locked) ==
  IF Words(q) = {} THEN locked
  ELSE \E i \in Words(q) : q[i] = Ack(TRUE) /\ \A j \in Words(q) : j <= i

WillHoldMouse == WillHold(sent, page.locked)

LockIsAgreed == OneAnswer /\ lock.locked = WillHoldMouse /\ (lock.locked => view)

\* A picture shows what the page was when it was asked for, or something newer, and what
\* waits for one that can still come is not answered yet.
SnapshotsAreFresh == \A i \in 1 .. MaxSnapshots :
  /\ answers[i] # 0 => answers[i] >= i
  /\ i \in waiting => answers[i] = 0
  /\ i \in 1 .. snapshots \ waiting => answers[i] # 0

\* As long as pages and paints take turns and no page was too slow, the timer runs for a
\* page that was committed and did not paint, and the flag stands for one that painted and
\* was not committed.
ContentIsTimed ==
  /\ ~ (load.timer /\ load.received)
  /\ load.steady => /\ load.timer = (load.commits > load.paints)
                    /\ load.received = (load.paints > load.commits)

\* What a widget's host was asked for, by the page or by the browser, is answered once and
\* by what it was asked about.
RequestsAreKept == LockIsAgreed /\ SnapshotsAreFresh /\ ContentIsTimed
=============================================================================
