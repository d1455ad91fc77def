--------------------------- MODULE DelegatedFrameHost ---------------------------
(***************************************************************************)
(* The frames of a renderer in the browser's own compositor: which frame   *)
(* is shown, when the renderer is told that it may send another, whose     *)
(* resources go back to it, and the lock that keeps the browser's window   *)
(* from being drawn at a size the renderer has not painted yet.            *)
(*                                                                         *)
(* src/src/content/browser/compositor/delegated_frame_host.cc; the copies  *)
(* of output it asks for are in CopyOutput.  External: the ui compositor,  *)
(* its surfaces, the resize lock, the frame evictor and the view that owns *)
(* the host, modelled as this file uses them, and the renderer, which      *)
(* sends a frame only after the last one of that output surface was        *)
(* acknowledged.  Frames are told apart by output surface and size.        *)
(***************************************************************************)
EXTENDS Integers, Sequences, FiniteSets

CONSTANTS
  Sizes,        \* sizes a window can have
  MaxOutputs,   \* bound: output surfaces the renderer creates, one after another
  EmptyFrames,  \* may a frame be empty?
  MaxEvents     \* bound: things the user, the renderer or the GPU process do unasked

HostAssumption ==
  /\ Sizes \subseteq Nat \ {0} /\ Sizes # {}
  /\ MaxOutputs \in Nat \ {0}
  /\ EmptyFrames \in BOOLEAN /\ MaxEvents \in Nat

VARIABLES
  d,           \* the DelegatedFrameHost; see DelegatedFrameHost
  use_surfaces,
  \* external
  ui,          \* the view and the ui compositor
  rd,          \* the renderer
  wire,        \* frames on their way to the browser
  \* bookkeeping
  back,        \* the last message with returned resources: to which output, whose resources
  events

vars == <<d, use_surfaces, ui, rd, wire, back, events>>

Outputs == 1 .. MaxOutputs

NoFrame == [output |-> 0, size |-> 0]

Init ==
  /\ use_surfaces \in BOOLEAN
  /\ d = [compositor |-> TRUE,
          can_lock   |-> "YES_CAN_LOCK",        \* can_lock_compositor_
          expected   |-> 0,                     \* resize_lock_: its size, or 0
          deferred   |-> FALSE,                 \* resize_lock_ has yet to lock
          held       |-> FALSE,                 \* resize_lock_ holds the compositor's lock
          front      |-> TRUE,                  \* released_front_lock_
          shown      |-> NoFrame,               \* frame_provider_ or surface_id_
          current    |-> 0,                     \* current_frame_size_in_dip_
          skipped    |-> FALSE,                 \* skipped_frames_
          latency    |-> FALSE,                 \* skipped_latency_info_list_ is not empty
          last       |-> 0,                     \* last_output_surface_id_
          pending    |-> 0,                     \* pending_delegated_ack_count_
          callbacks  |-> <<>>,                  \* on_compositing_did_commit_callbacks_
          draw       |-> 0,                     \* output to acknowledge when the surface is drawn
          returned   |-> {}]                    \* outputs of the resources nobody uses any more
  /\ \E s \in Sizes : /\ ui = [visible |-> TRUE, desired |-> s, zombies |-> <<>>, unref |-> {}]
                      /\ rd = [output |-> 1, told |-> s, resize |-> FALSE, size |-> s, dirty |-> TRUE, missed |-> FALSE,
                               swaps |-> [o \in Outputs |-> 0], acks |-> [o \in Outputs |-> 0]]
  /\ wire = <<>>
  /\ back = [to |-> 0, whose |-> {}]
  /\ events = 0

Now == [d |-> d, ui |-> ui, rd |-> rd, back |-> back]

Becomes(s) == \E t \in {s} : d' = t.d /\ ui' = t.ui /\ rd' = t.rd /\ back' = t.back

Unasked == events < MaxEvents /\ events' = events + 1

-----------------------------------------------------------------------------
(* Acknowledgements and returned resources.                                *)

Times(o, seq) == Cardinality({i \in DOMAIN seq : seq[i] = o})

GiveBack(s, output) ==
  IF s.d.returned = {} THEN s
  ELSE [s EXCEPT !.back = [to |-> output, whose |-> s.d.returned], !.d.returned = {}]

SendReturnedDelegatedResources(s, output) == GiveBack(s, output)

SendDelegatedFrameAck(s, output) ==
  LET t == GiveBack(s, output)
  IN [t EXCEPT !.rd.acks[output] = @ + 1, !.d.pending = @ - 1]

SurfaceDrawn(s, output) == SendDelegatedFrameAck(s, output)

\* UnusedResourcesAreAvailable with a frame provider, ReturnResources with a surface.
ReturnResources(s, output) ==
  LET t == [s EXCEPT !.d.returned = @ \cup {output}]
  IN IF t.d.pending > 0 THEN t ELSE SendReturnedDelegatedResources(t, t.d.last)

\* In their order; the first takes all the resources there are.
RunOnCommitCallbacks(s) ==
  IF s.d.callbacks = <<>> THEN s
  ELSE [GiveBack(s, Head(s.d.callbacks)) EXCEPT
          !.rd.acks = [o \in Outputs |-> @[o] + Times(o, s.d.callbacks)],
          !.d.pending = @ - Len(s.d.callbacks),
          !.d.callbacks = <<>>]

AddOnCommitCallbackAndDisableLocks(s, outputs) ==
  [s EXCEPT !.d.can_lock = "NO_PENDING_COMMIT", !.d.callbacks = @ \o outputs]

-----------------------------------------------------------------------------
(* What is shown.                                                          *)

\* External: the surface is destroyed once nothing draws it; then its callback runs.
Destroy(s) ==
  [s EXCEPT !.ui.zombies = IF s.d.draw = 0 THEN @ ELSE Append(@, s.d.draw),
            !.d.draw = 0]

EvictDelegatedFrame(s) ==
  LET t == [s EXCEPT !.ui.unref = IF s.d.shown = NoFrame THEN @ ELSE @ \cup {s.d.shown.output},
                     !.d.shown = NoFrame]
  IN IF use_surfaces THEN Destroy(t) ELSE t

\* Another output surface: nothing of the old one is kept, and what it is owed goes
\* back under its own name.
BugNewOutput(s, output) == [EvictDelegatedFrame(s) EXCEPT !.d.last = output]
NewOutput(s, output) ==
  LET t == EvictDelegatedFrame(s)
      all == IF use_surfaces THEN t ELSE [t EXCEPT !.d.returned = @ \cup t.ui.unref]
      u == SendReturnedDelegatedResources(all, s.d.last)
  IN [u EXCEPT !.ui.unref = {}, !.d.last = output]

\* The frame is handed to the surface or the provider; a surface takes its callback too.
Submit(s, frame, ack) ==
  LET fresh == use_surfaces /\ s.d.shown.size \notin {0, frame.size}
      t == IF s.d.shown = NoFrame THEN s
           ELSE [s EXCEPT !.ui.unref = @ \cup {s.d.shown.output}]
      u == IF fresh THEN Destroy(t)
           ELSE IF use_surfaces /\ t.d.draw # 0
           THEN SurfaceDrawn([t EXCEPT !.d.draw = 0], t.d.draw)   \* external: replaced undrawn
           ELSE t
  IN [u EXCEPT !.d.shown = frame, !.d.draw = ack]

-----------------------------------------------------------------------------
(* The locks on the compositor.                                            *)

IsLocked(s) == s.d.held \/ s.d.front

OnCompositingLockStateChanged(s) ==
  IF ~ IsLocked(s) /\ s.d.can_lock = "YES_DID_LOCK"
  THEN [s EXCEPT !.d.can_lock = "NO_PENDING_RENDERER_FRAME"] ELSE s

ReleaseFront(s) ==
  LET t == [s EXCEPT !.d.front = FALSE]
  IN IF s.d.front THEN OnCompositingLockStateChanged(t) ELSE t

UnlockCompositor(s) ==
  LET t == [s EXCEPT !.d.deferred = FALSE, !.d.held = FALSE]
  IN IF s.d.held THEN OnCompositingLockStateChanged(t) ELSE t

CheckResizeLock(s) ==
  IF s.d.expected = 0 \/ s.d.expected # s.d.current THEN s ELSE UnlockCompositor(s)

ShouldCreateResizeLock(s) ==
  s.d.expected = 0 /\ s.ui.desired # s.d.current /\ s.d.compositor

MaybeCreateResizeLock(s) ==
  IF ~ ShouldCreateResizeLock(s) THEN s
  ELSE LET defer == s.d.can_lock \in {"NO_PENDING_RENDERER_FRAME", "NO_PENDING_COMMIT"}
       IN [s EXCEPT !.d.can_lock = IF @ = "YES_CAN_LOCK" THEN "YES_DID_LOCK" ELSE @,
                    !.d.expected = s.ui.desired, !.d.deferred = defer, !.d.held = ~ defer]

BugGetRequestedRendererSize(s) == s.ui.desired
GetRequestedRendererSize(s) == IF s.d.expected # 0 THEN s.d.expected ELSE s.ui.desired

\* External: the widget host tells the renderer the size it is to have.
WidgetWasResized(s) ==
  LET size == GetRequestedRendererSize(s)
  IN [s EXCEPT !.rd.told = size, !.rd.resize = @ \/ size # s.rd.told]

ResetResizeLock(s) == WidgetWasResized(UnlockCompositor([s EXCEPT !.d.expected = 0]))

WasResized(s) ==
  MaybeCreateResizeLock(
    IF s.ui.desired # s.d.current /\ ~ s.ui.visible THEN EvictDelegatedFrame(s) ELSE s)

-----------------------------------------------------------------------------
(* A frame of the renderer.                                                *)

ShouldSkipFrame(s, size) ==
  /\ s.d.can_lock \notin {"NO_PENDING_RENDERER_FRAME", "NO_PENDING_COMMIT"}
  /\ s.d.expected # 0
  /\ size # s.d.expected

SkipFrame(s, frame) ==
  [s EXCEPT !.rd.acks[frame.output] = @ + 1,
            !.back = [to |-> frame.output, whose |-> {frame.output}],
            !.d.latency = TRUE, !.d.skipped = TRUE]

ShowFrame(s, frame, ack_now) ==
  IF frame.size = 0 THEN EvictDelegatedFrame(s)
  ELSE IF use_surfaces
  THEN Submit([s EXCEPT !.d.latency = FALSE], frame, IF ack_now THEN 0 ELSE frame.output)
  ELSE Submit(s, frame, 0)

SwapDelegatedFrame(s, frame) ==
  IF ShouldSkipFrame(s, frame.size) THEN SkipFrame(s, frame)
  ELSE
    LET t == [s EXCEPT !.d.skipped = FALSE]
        u == IF frame.output # t.d.last THEN NewOutput(t, frame.output) ELSE t
        immediate_ack == \/ ~ u.d.compositor
                         \/ use_surfaces /\ frame.size # 0 /\ u.ui.desired # frame.size
        v == ShowFrame([u EXCEPT !.d.pending = @ + 1], frame, immediate_ack)
        w == CheckResizeLock([ReleaseFront(v) EXCEPT !.d.current = frame.size,
                                                     !.rd.missed = @ \/ ~ u.d.compositor])
    IN IF immediate_ack THEN SendDelegatedFrameAck(w, frame.output)
       ELSE IF ~ use_surfaces
       THEN AddOnCommitCallbackAndDisableLocks([w EXCEPT !.d.latency = FALSE], <<frame.output>>)
       ELSE AddOnCommitCallbackAndDisableLocks(w, <<>>)

-----------------------------------------------------------------------------
(* The compositor and the view.                                            *)

OnCompositingDidCommit(s) ==
  LET grab == s.d.can_lock = "NO_PENDING_COMMIT" /\ s.d.expected # 0 /\ s.d.deferred
      t == CASE grab -> [s EXCEPT !.d.can_lock = "YES_DID_LOCK", !.d.deferred = FALSE, !.d.held = TRUE]
             [] ~ grab /\ s.d.can_lock = "NO_PENDING_COMMIT" -> [s EXCEPT !.d.can_lock = "YES_CAN_LOCK"]
             [] OTHER -> s
      u == RunOnCommitCallbacks(t)
  IN IF u.d.expected = 0 \/ u.d.expected # u.d.current THEN u
     ELSE MaybeCreateResizeLock(ResetResizeLock(u))

ResetCompositor(s) ==
  LET t == RunOnCommitCallbacks(s)
      u == IF t.d.expected = 0 THEN t ELSE ResetResizeLock(t)
  IN [u EXCEPT !.d.compositor = FALSE]

WasShown(s) ==
  [s EXCEPT !.ui.visible = TRUE, !.rd.dirty = TRUE,
            !.d.front = @ \/ (s.d.shown = NoFrame /\ s.d.compositor)]

WasHidden(s) == [ReleaseFront(s) EXCEPT !.ui.visible = FALSE]

OnLostResources(s) ==
  [(IF s.d.shown = NoFrame THEN s ELSE EvictDelegatedFrame(s)) EXCEPT !.rd.dirty = TRUE]

-----------------------------------------------------------------------------
(* Steps.                                                                  *)

Resize == /\ Unasked
          /\ \E size \in Sizes \ {ui.desired} :
               Becomes(WidgetWasResized(WasResized([Now EXCEPT !.ui.desired = size])))
          /\ UNCHANGED <<use_surfaces, wire>>

Show == ~ ui.visible /\ Becomes(WasShown(Now)) /\ UNCHANGED <<use_surfaces, wire, events>>

Hide == ui.visible /\ Unasked /\ Becomes(WasHidden(Now)) /\ UNCHANGED <<use_surfaces, wire>>

SetCompositor == /\ ~ d.compositor
                 /\ d' = [d EXCEPT !.compositor = TRUE]
                 /\ UNCHANGED <<use_surfaces, ui, rd, wire, back, events>>

Detach == d.compositor /\ Unasked /\ Becomes(ResetCompositor(Now)) /\ UNCHANGED <<use_surfaces, wire>>

LoseResources == Unasked /\ Becomes(OnLostResources(Now)) /\ UNCHANGED <<use_surfaces, wire>>

\* The evictor drops the frame of a hidden view.
Evict == /\ ~ ui.visible /\ d.shown # NoFrame
         /\ Becomes(EvictDelegatedFrame(Now)) /\ UNCHANGED <<use_surfaces, wire, events>>

\* The compositor gives up waiting for whoever holds its lock.
LockTimeout == /\ IsLocked(Now)
               /\ Becomes(OnCompositingLockStateChanged([Now EXCEPT !.d.held = FALSE, !.d.front = FALSE]))
               /\ UNCHANGED <<use_surfaces, wire, events>>

\* A locked compositor defers its commits.
Commit == /\ d.compositor /\ ~ IsLocked(Now)
          /\ Becomes(OnCompositingDidCommit(Now)) /\ UNCHANGED <<use_surfaces, wire, events>>

Draw == /\ d.draw # 0 /\ d.compositor /\ ui.visible /\ ~ IsLocked(Now)
        /\ Becomes(SurfaceDrawn([Now EXCEPT !.d.draw = 0], d.draw))
        /\ UNCHANGED <<use_surfaces, wire, events>>

Collect == /\ ui.zombies # <<>>
           /\ Becomes(SurfaceDrawn([Now EXCEPT !.ui.zombies = Tail(@)], Head(ui.zombies)))
           /\ UNCHANGED <<use_surfaces, wire, events>>

\* What drew with a resource is done with it.
Unuse == /\ \E o \in ui.unref : Becomes(ReturnResources([Now EXCEPT !.ui.unref = @ \ {o}], o))
         /\ UNCHANGED <<use_surfaces, wire, events>>

\* External: the renderer.
RendererResizes == /\ rd.resize
                   /\ rd' = [rd EXCEPT !.resize = FALSE, !.size = rd.told, !.dirty = TRUE]
                   /\ UNCHANGED <<d, use_surfaces, ui, wire, back, events>>

Unacknowledged(o) == rd.swaps[o] - rd.acks[o]

Paint == /\ ui.visible /\ Unacknowledged(rd.output) = 0
         /\ (rd.dirty /\ UNCHANGED events) \/ (~ rd.dirty /\ Unasked)
         /\ \E size \in {rd.size} \cup (IF EmptyFrames THEN {0} ELSE {}) :
              wire' = Append(wire, [output |-> rd.output, size |-> size])
         /\ rd' = [rd EXCEPT !.dirty = FALSE, !.swaps[rd.output] = @ + 1]
         /\ UNCHANGED <<d, use_surfaces, ui, back>>

RendererLosesOutput == /\ rd.output + 1 \in Outputs /\ Unasked
                       /\ rd' = [rd EXCEPT !.output = @ + 1, !.dirty = TRUE]
                       /\ UNCHANGED <<d, use_surfaces, ui, wire, back>>

Receive == /\ wire # <<>>
           /\ Becomes(SwapDelegatedFrame(Now, Head(wire)))
           /\ wire' = Tail(wire) /\ UNCHANGED <<use_surfaces, events>>

Next == \/ Resize \/ Show \/ Hide \/ SetCompositor \/ Detach \/ LoseResources \/ Evict
        \/ LockTimeout \/ Commit \/ Draw \/ Collect \/ Unuse
        \/ RendererResizes \/ Paint \/ RendererLosesOutput \/ Receive

Spec == Init /\ [][Next]_vars

\* Message loops run, the compositor commits and draws while it is attached and not
\* locked, locks time out, and a renderer with something to paint paints it.  None of
\* these can go on for ever by itself, so that fairness for all of them together is enough.
Progress == \/ Receive \/ RendererResizes \/ (rd.dirty /\ Paint)
            \/ LockTimeout \/ Commit \/ Draw \/ Collect

FairSpec == Spec /\ WF_vars(Progress)

-----------------------------------------------------------------------------
(* Properties.                                                             *)

CanLock == {"YES_CAN_LOCK", "YES_DID_LOCK", "NO_PENDING_RENDERER_FRAME", "NO_PENDING_COMMIT"}

\* Types, and no acknowledgement is counted below zero (the assertion in
\* SendDelegatedFrameAck, delegated_frame_host.cc:546).
TypeOK ==
  /\ d.can_lock \in CanLock /\ d.expected \in {0} \cup Sizes /\ d.pending \in Nat
  /\ d.held => d.expected # 0
  /\ \A o \in Outputs : rd.acks[o] \in 0 .. rd.swaps[o]

Waiting(o) == Times(o, d.callbacks \o ui.zombies \o <<d.draw>>)

OnWire(o) == Cardinality({i \in DOMAIN wire : wire[i].output = o})

\* Every frame is acknowledged once, under the output surface it came from: what a
\* renderer has not heard of is on its way, or exactly one callback will answer it, and
\* the host's own count agrees (SwapDelegatedFrame, delegated_frame_host.cc:359-532).
EachFrameIsAnswered ==
  /\ \A o \in Outputs : Unacknowledged(o) = OnWire(o) + Waiting(o)
  /\ d.pending = Len(d.callbacks) + Len(ui.zombies) + (IF d.draw # 0 THEN 1 ELSE 0)

\* Resource ids are scoped by the output surface: those of an old one never go back
\* under the name of a new one (delegated_frame_host.cc:403-428).  The other way they do:
\* the late acknowledgement of an older output takes all that was collected, a newer
\* output's resources among it (delegated_frame_host.cc:539-548).
OldResourcesKeepTheirName == \A o \in back.whose : back.to <= o

\* The window is held back only for a frame the renderer was asked to paint: while the
\* resize lock is there, its size is the size the renderer was told
\* (GetRequestedRendererSize, delegated_frame_host.cc:277-282).
LockAsksForItsFrame == d.expected # 0 => rd.told = d.expected

\* A frame is skipped only when another is sure to replace it, so what waits for its
\* latency info hears of it (delegated_frame_host.cc:257-267).
\* Not so if the replacement came while there was no compositor to tell.
SkippedLatencyArrives ==
  d.latency ~> (~ d.latency \/ ~ ui.visible \/ ~ d.compositor \/ rd.missed)

\* A renderer whose frame is shown may go on: the acknowledgement comes.
FramesAreAcknowledged == (d.pending > 0) ~> (d.pending = 0 \/ ~ ui.visible \/ ~ d.compositor)

\* Acknowledgements, resources and the resize lock.
FramesGoHome == EachFrameIsAnswered /\ OldResourcesKeepTheirName /\ LockAsksForItsFrame

\* What waits for a frame goes on.
FramesGoOn == SkippedLatencyArrives /\ FramesAreAcknowledged

===============================================================================
