---------------------------- MODULE MCCompositor ----------------------------
(***************************************************************************)
(* Small instances of five parts of the compositor none of which touches   *)
(* another's state: the layers of the main thread, the state of the GL     *)
(* context, the queries and overlays of the frames that are drawn, what    *)
(* the impl side needs in order to draw, and scrolling on two threads.     *)
(* A behaviour follows one of them, named by part; the others rest in      *)
(* their initial states.                                                   *)
(***************************************************************************)
EXTENDS Integers, Sequences, FiniteSets

CONSTANTS
  TreeLayers, Root, None, MasksDraw, MaxChanges,
  Foreign, Rects, SkiaTouches, MaxBatch, MaxQuads,
  kMaxPendingSyncQueries, Regions, MaxFrames,
  Uids, ToActive, MaxEvents,
  Nested, inner, outer, AnimationHosts, MaxMoves

Ext == INSTANCE SequencesExt

\* Layers one in the other, in the viewport, which is two offsets long.
MCChain == Ext!SetToSeq(Nested) \o <<outer, inner>>
MCMaxScrollOffset == [l \in Nested \cup {inner, outer} |-> IF l = outer THEN 2 ELSE 1]

VARIABLES
  part,
  layer, tree, nodes, committed, old, changes, uses,                             \* LayerTree
  caps, cached, context, batch, pass, frame, wrong,                              \* GLState
  can, phase, number, swap_rect, overlays, queries, query, visible, display,     \* FrameResources
  finished, fence, behind,
  h, main, events,                                                               \* ImplFrames
  animates, gesture, animation, page_scale_animation, sync, client, offsets,     \* Scrolling
  input, total, moves

layerVars    == <<layer, tree, nodes, committed, old, changes, uses>>
glVars       == <<caps, cached, context, batch, pass, frame, wrong>>
resourceVars == <<can, phase, number, swap_rect, overlays, queries, query, visible, display,
                  finished, fence, behind>>
hostVars     == <<h, main, events>>
scrollVars   == <<animates, gesture, animation, page_scale_animation, sync, client, offsets,
                  input, total, moves>>

L == INSTANCE LayerTree WITH Layers <- TreeLayers, host <- tree, behind <- old
G == INSTANCE GLState
R == INSTANCE FrameResources WITH caps <- can
H == INSTANCE ImplFrames
S == INSTANCE Scrolling WITH host <- animates, Chain <- MCChain, MaxScrollOffset <- MCMaxScrollOffset

ASSUME CompositorAssumption ==
  /\ L!LayersAssumption /\ G!GLAssumption /\ R!FrameAssumption
  /\ H!HostAssumption /\ S!ScrollAssumption /\ IsFiniteSet(Nested)

Init ==
  /\ part \in {"layers", "gl", "resources", "host", "scroll"}
  /\ L!Init
  /\ part # "layers" => uses = "transform"
  /\ G!Init
  /\ part # "gl" => caps.advanced /\ caps.stencil
  /\ R!Init
  /\ part # "resources" => can.partial /\ can.empty /\ can.release
  /\ H!Init
  /\ part # "host" => h.to_active = CHOOSE b \in ToActive : TRUE
  /\ S!Init
  /\ part # "scroll" => animates = CHOOSE b \in AnimationHosts : TRUE

LayersMove    == part = "layers"    /\ L!Next /\ UNCHANGED <<part, glVars, resourceVars, hostVars, scrollVars>>
GLMoves       == part = "gl"        /\ G!Next /\ UNCHANGED <<part, layerVars, resourceVars, hostVars, scrollVars>>
ResourcesMove == part = "resources" /\ R!Next /\ UNCHANGED <<part, layerVars, glVars, hostVars, scrollVars>>
HostMoves     == part = "host"      /\ H!Next /\ UNCHANGED <<part, layerVars, glVars, resourceVars, scrollVars>>
Scrolls       == part = "scroll"    /\ S!Next /\ UNCHANGED <<part, layerVars, glVars, resourceVars, hostVars>>

Next == LayersMove \/ GLMoves \/ ResourcesMove \/ HostMoves \/ Scrolls

vars == <<part, layerVars, glVars, resourceVars, hostVars, scrollVars>>

Spec == Init /\ [][Next]_vars

-----------------------------------------------------------------------------
(* The properties of the parts.                                            *)

\* Counts, links and trees of the layers are those of the tree, and what setters changed
\* since the last commit is in the next, but for the flag of a container of fixed layers,
\* whose setter does not always ask for that (layer.cc:1162-1173).
LayersAgree == L!TypeOK /\ L!LayersAgree

\* Everything is drawn with the state it was asked with, whoever changed it before.
DrawnAsAsked == G!TypeOK /\ G!CopyIsTrue /\ G!DrawnAsAsked

\* Resources are written again only when they were read, and the screen shows what was
\* drawn.
FramesKeepTheirResources == R!TypeOK /\ R!FramesKeepTheirResources

\* The scheduler knows whether the host can draw, what it draws has its resources, and
\* its first frame after a change that forbids it shows no tiles of low resolution.
HostIsReady == H!TypeOK /\ H!HostIsReady /\ H!FirstFrameIsSharp

\* No scroll of either thread is lost or applied twice, each is sent or will be asked for
\* (that of a running page scale animation by its last tick), and the layer of a gesture stays its layer.
ScrollsAreCounted == S!TypeOK /\ S!ScrollsAreCounted /\ S!GestureKeepsItsLayer
=============================================================================
