------------------------------- MODULE Scrolling -------------------------------
(***************************************************************************)
(* Scrolling on the impl side and how the main thread learns of it: the     *)
(* gesture with the layer it has taken, the animations, and the deltas that *)
(* are pulled for a main frame, reflected by its commit or given back when  *)
(* it is aborted.                                                           *)
(*                                                                          *)
(* src/src/cc/trees/layer_tree_host_impl.cc.  Offsets are vertical.         *)
(* External: SyncedProperty, which holds what both threads know of a        *)
(* layer's offset; ScrollState and LayerImpl, which hand a delta down the   *)
(* chain and then up again; the input handler proxy, which begins, updates  *)
(* and ends a gesture; the main thread.                                     *)
(***************************************************************************)
EXTENDS Integers, Sequences, FiniteSets, SequencesExt, FiniteSetsExt

CONSTANTS
  Chain,            \* the layers, in scroll order, the inner viewport last, the outer before it
  MaxScrollOffset,  \* of each
  AnimationHosts,   \* set of values of `animation_host_ != nullptr`
  MaxMoves          \* bound: gestures, moves of a gesture, of an animation or of the main thread

Layers == ToSet(Chain)
Inner == Last(Chain)
Outer == Chain[Len(Chain) - 1]
NoLayer == "none"
NoTarget == -1

ScrollAssumption ==
  /\ MaxMoves \in Nat /\ AnimationHosts \subseteq BOOLEAN
  /\ Len(Chain) >= 2 /\ NoLayer \notin Layers /\ MaxScrollOffset \in [Layers -> Nat]

VARIABLES
  host,      \* whether there is an animation host
  gesture,   \* current layer, did_lock_scrolling_layer_, wheel_scrolling_, pinch, overscroll
  animation, \* layer to the target of its scroll offset animation
  page_scale_animation,
  sync,      \* external: the offsets, as SyncedProperty keeps them
  client,    \* commit asked for, main frame, pending tree
  offsets,   \* external: on the main thread
  input,     \* external: what the input handler proxy believes, and the layers its gesture moved
  total,     \* bookkeeping: all that the user and the page ever scrolled
  moves

vars == <<host, gesture, animation, page_scale_animation, sync, client, offsets, input, total, moves>>

Init ==
  /\ host \in AnimationHosts
  /\ gesture = [layer |-> NoLayer, locked |-> FALSE, wheel |-> FALSE, overscroll |-> 0,
                pinch |-> FALSE, pinch_clears |-> FALSE]
  /\ animation = [l \in Layers |-> NoTarget] /\ page_scale_animation = NoTarget
  /\ sync = [l \in Layers |-> [active_base |-> 0, active_delta |-> 0, pending_base |-> 0,
                               in_main |-> 0, in_pending |-> 0]]
  /\ client = [commit |-> FALSE, frame |-> "none", pending |-> FALSE]
  /\ offsets = [l \in Layers |-> 0] /\ total = offsets
  /\ input = [on |-> FALSE, propagates |-> TRUE, moved |-> {}] /\ moves = 0

-----------------------------------------------------------------------------
(* External: SyncedProperty.                                               *)

Current(v, l) == v[l].active_base + v[l].active_delta

PendingDelta(v) == v.active_delta - v.in_pending

Pulled(v) == [v EXCEPT !.in_main = PendingDelta(v)]

Committed(v, offset) == [v EXCEPT !.in_pending = v.in_main, !.in_main = 0, !.pending_base = offset]

Activated(v) ==
  [v EXCEPT !.active_base = v.pending_base, !.active_delta = PendingDelta(v), !.in_pending = 0]

Aborted(v) ==
  [v EXCEPT !.pending_base = @ + v.in_main, !.active_base = @ + v.in_main, !.active_delta = @ - v.in_main,
            !.in_main = 0]

-----------------------------------------------------------------------------
(* Scrolling a layer.                                                      *)

Clamp(l, offset) == Max({0, Min({offset, MaxScrollOffset[l]})})

\* ScrollLayer, by a finger or by a wheel: what the layer can take of the delta.
Taken(v, l, delta) == Clamp(l, Current(v, l) + delta) - Current(v, l)

Scrolled(v, l, delta) == [v EXCEPT ![l].active_delta = @ + Taken(v, l, delta)]

\* ScrollViewportInnerFirst; the viewport's own ScrollBy does the same.
ScrollViewportInnerFirst(v, delta) ==
  Scrolled(Scrolled(v, Inner, delta), Outer, delta - Taken(v, Inner, delta))

\* A scroll under way: what is left of it, the layer that has it, whether it was consumed.
\* The layer keeps all of a delta of which it takes a part.
ApplyScroll(st, l) ==
  IF l = Inner
  THEN LET v == ScrollViewportInnerFirst(st.sync, st.delta)
           applied == Taken(st.sync, Inner, st.delta)
                      + Taken(st.sync, Outer, st.delta - Taken(st.sync, Inner, st.delta))
       IN IF applied = 0 THEN st
          ELSE [st EXCEPT !.sync = v, !.delta = @ - applied, !.layer = l, !.consumed = TRUE, !.caused = TRUE]
  ELSE IF Taken(st.sync, l, st.delta) = 0 THEN st
  ELSE [st EXCEPT !.sync = Scrolled(st.sync, l, st.delta), !.delta = 0, !.layer = l, !.consumed = TRUE,
                  !.caused = TRUE]

\* External: a layer that does not propagate is alone once it has consumed.  The inner
\* viewport stands for the outer.
DistributeScroll(st, l) ==
  IF l = Outer \/ st.delta = 0 \/ (~ st.propagates /\ st.consumed /\ st.layer # l)
  THEN st ELSE ApplyScroll(st, l)

\* From a layer outwards.
Outwards(from) == (CHOOSE i \in 1 .. Len(Chain) : Chain[i] = from) .. Len(Chain)

DistributeScrollDelta(st, from) ==
  FoldLeft(DistributeScroll, st, SubSeq(Chain, Min(Outwards(from)), Len(Chain)))

-----------------------------------------------------------------------------
(* Gestures.                                                               *)

Move == moves < MaxMoves /\ moves' = moves + 1

Cleared(g) == [g EXCEPT !.layer = NoLayer, !.locked = FALSE, !.overscroll = 0]

\* The first layer from the one hit that can scroll, and the viewport if there is none.
FindScrollLayer(hit, animated) ==
  LET able == {i \in Outwards(hit) : MaxScrollOffset[Chain[i]] > 0}
      found == IF able = {} \/ Chain[Min(able)] = Outer THEN Inner ELSE Chain[Min(able)]
  IN IF animated /\ found = Inner THEN Outer ELSE found

\* With an animation host there is one animation, whichever layer it is of.
ScrollAnimationAbort(l) ==
  IF host THEN [k \in Layers |-> NoTarget] ELSE [animation EXCEPT ![l] = NoTarget]

ScrollBeginImpl(l, wheel) ==
  /\ animation' = ScrollAnimationAbort(l)
  /\ gesture' = [Cleared(gesture) EXCEPT !.layer = l, !.wheel = wheel]
  /\ \E propagates \in BOOLEAN : input' = [on |-> TRUE, propagates |-> propagates, moved |-> {}]

\* The main thread scrolls where a layer needs it or the hit test fails.
ScrollBegin ==
  /\ ~ input.on /\ ~ gesture.pinch /\ Move
  /\ \/ \E hit \in Layers, wheel \in BOOLEAN : ScrollBeginImpl(FindScrollLayer(hit, FALSE), wheel)
     \/ /\ gesture' = Cleared(gesture) /\ gesture' # gesture
        /\ UNCHANGED <<animation, input>>
  /\ UNCHANGED <<host, page_scale_animation, sync, client, offsets, total>>

RootScrollBegin ==
  /\ ~ input.on /\ ~ gesture.pinch /\ Move /\ ScrollBeginImpl(Inner, FALSE)
  /\ UNCHANGED <<host, page_scale_animation, sync, client, offsets, total>>

\* The ledger follows every change of an offset.
Show(v) ==
  /\ sync' = v
  /\ total' = [l \in Layers |-> total[l] + Current(v, l) - Current(sync, l)]

NeedsCommit(asks) == client' = [client EXCEPT !.commit = @ \/ asks]

\* Scrolling resets the overscroll; what is left of the delta is added to it.
ScrolledGesture(st) ==
  [gesture EXCEPT !.layer = st.layer, !.locked = st.consumed,
                  !.overscroll = (IF st.caused THEN 0 ELSE @) + IF MaxScrollOffset[Inner] > 0 THEN st.delta ELSE 0]

ScrollBy ==
  /\ input.on /\ Move
  /\ \E delta \in {-1, 1, 2} :
       IF gesture.layer = NoLayer THEN UNCHANGED <<gesture, sync, client, total, input>>
       ELSE LET start == [sync |-> sync, delta |-> delta, layer |-> gesture.layer,
                          consumed |-> gesture.locked, caused |-> FALSE, propagates |-> input.propagates]
                st == DistributeScrollDelta(start, gesture.layer)
            IN /\ gesture' = ScrolledGesture(st) /\ Show(st.sync) /\ NeedsCommit(st.caused)
               /\ input' = IF ~ input.propagates /\ st.caused
                           THEN [input EXCEPT !.moved = @ \cup {st.layer}] ELSE input
  /\ UNCHANGED <<host, animation, page_scale_animation, offsets>>

\* A page of a wheel: the current layer moves outwards to the first that can scroll, locked
\* or not.
ScrollVerticallyByPage ==
  /\ input.on /\ gesture.wheel /\ gesture.layer # NoLayer /\ Move
  /\ \E delta \in {-1, 1} :
       LET chain == {i \in Outwards(gesture.layer) : Chain[i] # Outer}
           able == {i \in chain : Taken(sync, Chain[i], delta) # 0}
           passed == {i \in chain : \A k \in able : i < k}
       IN /\ gesture' = [gesture EXCEPT !.layer = IF passed = {} THEN @ ELSE Chain[Max(passed)]]
          /\ IF able = {} THEN UNCHANGED <<sync, client, total>>
             ELSE Show(Scrolled(sync, Chain[Min(able)], delta)) /\ NeedsCommit(TRUE)
  /\ input' = [input EXCEPT !.moved = IF gesture'.layer = gesture.layer THEN @ ELSE {}]
  /\ UNCHANGED <<host, animation, page_scale_animation, offsets>>

ScrollEnd ==
  /\ input.on /\ ~ gesture.pinch
  /\ gesture' = Cleared(gesture) /\ input' = [input EXCEPT !.on = FALSE, !.moved = {}]
  /\ UNCHANGED <<host, animation, page_scale_animation, sync, client, offsets, total, moves>>

PinchEnded ==
  gesture' = [(IF gesture.pinch_clears THEN Cleared(gesture) ELSE gesture)
                EXCEPT !.pinch = FALSE, !.pinch_clears = FALSE]

\* A pinch takes the viewport, and gives the layer up if it had none to begin with.
PinchGestureBegin ==
  /\ ~ gesture.pinch /\ Move
  /\ gesture' = [gesture EXCEPT !.pinch = TRUE, !.pinch_clears = (gesture.layer = NoLayer), !.layer = Inner]
  /\ input' = [input EXCEPT !.moved = {}]
  /\ UNCHANGED <<host, animation, page_scale_animation, sync, client, offsets, total>>

PinchGestureUpdate ==
  /\ gesture.pinch /\ Move
  /\ \E delta \in {-1, 1} : Show(ScrollViewportInnerFirst(sync, delta))
  /\ NeedsCommit(TRUE)
  /\ UNCHANGED <<host, gesture, animation, page_scale_animation, offsets, input>>

PinchGestureEnd ==
  /\ gesture.pinch /\ PinchEnded /\ NeedsCommit(TRUE)
  /\ UNCHANGED <<host, animation, page_scale_animation, sync, offsets, input, total, moves>>

-----------------------------------------------------------------------------
(* Animations.                                                             *)

\* The animation goes on to another target, or begins on the first layer that can move.
ScrollAnimated ==
  /\ ~ input.on /\ ~ gesture.pinch /\ Move
  /\ \E hit \in Layers, delta \in {-1, 1} :
       IF gesture.layer # NoLayer
       THEN /\ animation' = IF animation[gesture.layer] = NoTarget THEN animation
                            ELSE [animation EXCEPT ![gesture.layer] = Clamp(gesture.layer, @ + delta)]
            /\ UNCHANGED gesture
       ELSE LET from == FindScrollLayer(hit, TRUE)
                able == {i \in Outwards(from) : Taken(sync, Chain[i], delta) # 0}
                first == Chain[Min(able)]
            IN IF able = {}
               THEN animation' = ScrollAnimationAbort(from) /\ gesture' = Cleared(gesture)
               ELSE /\ animation' = [ScrollAnimationAbort(from)
                                       EXCEPT ![first] = Clamp(first, Current(sync, first) + delta)]
                    /\ gesture' = [Cleared(gesture) EXCEPT !.layer = first, !.wheel = TRUE]
  /\ UNCHANGED <<host, page_scale_animation, sync, client, offsets, input, total>>

\* External: a tick of the curve, by DidAnimateScrollOffset a commit.  On the way the
\* offset may be any; the last one is told.
ScrollAnimationTicks ==
  /\ \E l \in Layers : \E offset \in 0 .. MaxScrollOffset[l] :
       /\ animation[l] # NoTarget
       /\ Show([sync EXCEPT ![l].active_delta = offset - sync[l].active_base])
       /\ \/ Move /\ UNCHANGED <<gesture, animation>>
          \/ /\ offset = animation[l] /\ animation' = [animation EXCEPT ![l] = NoTarget]
             /\ gesture' = Cleared(gesture)            \* ScrollOffsetAnimationFinished
             /\ UNCHANGED moves
  /\ NeedsCommit(TRUE)
  /\ UNCHANGED <<host, page_scale_animation, offsets, input>>

\* One that runs is replaced.
StartPageScaleAnimation ==
  /\ Move
  /\ \E target \in 0 .. 2 : page_scale_animation' = target
  /\ NeedsCommit(TRUE)
  /\ UNCHANGED <<host, gesture, animation, sync, offsets, input, total>>

\* Ticks on the way ask for another frame and for no commit; the last one asks for it.
AnimatePageScale ==
  /\ page_scale_animation # NoTarget
  /\ \E next_scroll \in 0 .. 2 :
       /\ Show(ScrollViewportInnerFirst(sync, next_scroll - Current(sync, Inner) - Current(sync, Outer)))
       /\ \/ Move /\ UNCHANGED <<page_scale_animation, client>>
          \/ /\ next_scroll = page_scale_animation
             /\ page_scale_animation' = NoTarget /\ NeedsCommit(TRUE) /\ UNCHANGED moves
  /\ UNCHANGED <<host, gesture, animation, offsets, input>>

-----------------------------------------------------------------------------
(* The main thread.                                                        *)

ProcessScrollDeltas == [l \in Layers |-> Pulled(sync[l])]

\* With a pending tree there may already be the next frame.
SendBeginMainFrame ==
  /\ client.frame = "none" /\ client.commit
  /\ client' = [client EXCEPT !.frame = "sent", !.commit = FALSE]
  /\ sync' = ProcessScrollDeltas
  /\ UNCHANGED <<host, gesture, animation, page_scale_animation, offsets, input, total, moves>>

\* The main thread applies what it was sent.
ApplyScrollAndScale ==
  /\ client.frame = "sent"
  /\ offsets' = [l \in Layers |-> offsets[l] + sync[l].in_main]
  /\ client' = [client EXCEPT !.frame = "applied"]
  /\ UNCHANGED <<host, gesture, animation, page_scale_animation, sync, input, total, moves>>

\* The page scrolls, in a main frame.
ScrollByScript ==
  /\ client.frame = "applied" /\ Move
  /\ \E l \in Layers, offset \in 0 .. 2 :
       /\ offset <= MaxScrollOffset[l] /\ offset # offsets[l]
       /\ offsets' = [offsets EXCEPT ![l] = offset]
       /\ total' = [total EXCEPT ![l] = @ + offset - offsets[l]]
       /\ client' = [client EXCEPT !.frame = "changed"]
  /\ UNCHANGED <<host, gesture, animation, page_scale_animation, sync, input>>

BugBeginMainFrameAborted(handled) == UNCHANGED sync
\* If the frame was handled, the active tree is as if what was sent had been committed.
BeginMainFrameAborted(handled) ==
  sync' = IF handled THEN [l \in Layers |-> Aborted(sync[l])] ELSE sync

\* Handled without updates, or not at all, and then asked for again.
AbortMainFrame ==
  /\ \/ client.frame = "applied" /\ BeginMainFrameAborted(TRUE) /\ client' = [client EXCEPT !.frame = "none"]
     \/ /\ client.frame = "sent" /\ BeginMainFrameAborted(FALSE)
        /\ client' = [client EXCEPT !.frame = "none", !.commit = TRUE]
  /\ UNCHANGED <<host, gesture, animation, page_scale_animation, offsets, input, total, moves>>

Commit ==
  /\ client.frame \in {"applied", "changed"} /\ ~ client.pending
  /\ sync' = [l \in Layers |-> Committed(sync[l], offsets[l])]
  /\ client' = [client EXCEPT !.frame = "none", !.pending = TRUE]
  /\ UNCHANGED <<host, gesture, animation, page_scale_animation, offsets, input, total, moves>>

Activate ==
  /\ client.pending /\ client' = [client EXCEPT !.pending = FALSE]
  /\ sync' = [l \in Layers |-> Activated(sync[l])]
  /\ UNCHANGED <<host, gesture, animation, page_scale_animation, offsets, input, total, moves>>

Next ==
  \/ ScrollBegin \/ RootScrollBegin \/ ScrollBy \/ ScrollVerticallyByPage \/ ScrollEnd
  \/ PinchGestureBegin \/ PinchGestureUpdate \/ PinchGestureEnd
  \/ ScrollAnimated \/ ScrollAnimationTicks \/ StartPageScaleAnimation \/ AnimatePageScale
  \/ SendBeginMainFrame \/ ApplyScrollAndScale \/ ScrollByScript \/ AbortMainFrame \/ Commit \/ Activate

Spec == Init /\ [][Next]_vars

-----------------------------------------------------------------------------
(* Properties.                                                             *)

TypeOK ==
  /\ gesture.layer \in Layers \cup {NoLayer}
  /\ gesture.locked => gesture.layer # NoLayer
  /\ host => Cardinality({l \in Layers : animation[l] # NoTarget}) <= 1

\* No scroll is lost and none is applied twice, however frames, aborts, commits and
\* activations meet the scrolling of either thread.
EveryScrollCounts ==
  \A l \in Layers :
    LET sent == IF client.frame = "sent" THEN sync[l].in_main ELSE 0
        on_main == IF client.frame \in {"applied", "changed"} THEN sync[l].in_main ELSE 0
    IN offsets[l] + PendingDelta(sync[l]) - on_main = total[l]

\* And when all is activated both threads show the same.
QuietThreadsAgree ==
  client.frame = "none" /\ ~ client.pending =>
    \A l \in Layers : Current(sync, l) = total[l] /\ sync[l].active_base = offsets[l]

\* What the main thread does not know is on its way, or a commit is asked for, or a page
\* scale animation runs, whose last tick asks for it.
DeltasAreSent ==
  (\E l \in Layers : PendingDelta(sync[l]) # IF client.frame = "none" THEN 0 ELSE sync[l].in_main)
    => client.commit \/ page_scale_animation # NoTarget

\* A scroll that began on the impl thread has a layer until it ends: neither a pinch in
\* it nor an animation from before takes the layer away.
ScrollKeepsItsLayer == input.on => gesture.layer # NoLayer

\* A scroll that does not propagate moves one layer, once it has moved one, until a
\* pinch takes the viewport or a page of a wheel goes on to another layer.
OneLayerAtATime == Cardinality(input.moved) <= 1

\* Both threads count every scroll once.
ScrollsAreCounted == EveryScrollCounts /\ QuietThreadsAgree /\ DeltasAreSent

\* A gesture moves the layer it began with.
GestureKeepsItsLayer == ScrollKeepsItsLayer /\ OneLayerAtATime

===============================================================================
