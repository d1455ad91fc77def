------------------------------- MODULE ImplFrames -------------------------------
(***************************************************************************)
(* The impl side of the layer tree host from one commit to the next: its    *)
(* three trees, its output surface and renderer, what it says of whether it *)
(* can draw, the UI resources it evicts and the main thread makes again,    *)
(* and the memory it may use.                                               *)
(*                                                                          *)
(* src/src/cc/trees/layer_tree_host_impl.cc.  A handler is an operator on   *)
(* the host `h`, so that one can call another.  External: the proxy with    *)
(* its scheduler, which draws when the host has said that it can and is     *)
(* visible, and the main thread with the UI resources its layers use.       *)
(***************************************************************************)
EXTENDS Integers, Sequences, FiniteSets, SequencesExt, FiniteSetsExt

CONSTANTS
  Uids,         \* UI resource ids
  ToActive,     \* set of values of CommitToActiveTree()
  MaxEvents     \* bound: events from outside

HostAssumption == MaxEvents \in Nat /\ ToActive \subseteq BOOLEAN

VARIABLES
  h,       \* LayerTreeHostImpl; fresh and blurred are bookkeeping
  main,    \* external: the main thread's UI resources, their requests, the frame it works on
  events

vars == <<h, main, events>>

NoTree == [here |-> FALSE, root |-> FALSE, invalid |-> FALSE, queue |-> <<>>, uses |-> {}, sharp |-> FALSE]

Init ==
  /\ events = 0
  /\ main = [live |-> {}, queue |-> <<>>, frame |-> "none"]
  /\ \E commit_to_active \in ToActive :
       h = [to_active |-> commit_to_active, visible |-> FALSE, policy |-> TRUE, hard |-> FALSE,
            aggressive |-> FALSE, dirty |-> FALSE, tasks |-> FALSE,
            renderer |-> FALSE, surface |-> FALSE, pool |-> FALSE,
            active |-> [NoTree EXCEPT !.here = TRUE], pending |-> NoTree, recycle |-> FALSE,
            device |-> 0, external |-> 0, resourceless |-> FALSE,
            map |-> {}, evicted |-> {}, high_res |-> FALSE, gpu |-> FALSE, gpu_dirty |-> FALSE,
            likely |-> FALSE,
            announced |-> FALSE, commit |-> FALSE, redraw |-> FALSE, activate |-> FALSE,
            uncommitted |-> FALSE, fresh |-> FALSE, blurred |-> FALSE]

-----------------------------------------------------------------------------
(* What the host tells its client.                                         *)

DrawViewportSize(g) == IF g.external = 0 THEN g.device ELSE g.external

CanDraw(g) ==
  /\ g.renderer /\ g.active.root
  /\ \/ g.resourceless
     \/ DrawViewportSize(g) # 0 /\ ~ g.active.invalid /\ g.evicted = {}

OnCanDrawStateChanged(g) == [g EXCEPT !.announced = CanDraw(g)]

SetNeedsRedraw(g) == [g EXCEPT !.redraw = TRUE]

SetNeedsCommit(g) == [g EXCEPT !.commit = TRUE]

-----------------------------------------------------------------------------
(* UI resources.                                                           *)

MarkUIResourceNotEvicted(g, uid) ==
  LET left == [g EXCEPT !.evicted = @ \ {uid}]
  IN IF uid \in g.evicted /\ left.evicted = {} THEN OnCanDrawStateChanged(left) ELSE left

\* One that is there is deleted first.
CreateUIResource(g, uid) == MarkUIResourceNotEvicted([g EXCEPT !.map = @ \cup {uid}], uid)

DeleteUIResource(g, uid) == MarkUIResourceNotEvicted([g EXCEPT !.map = @ \ {uid}], uid)

ClearUIResources(g) == [g EXCEPT !.evicted = @ \cup g.map, !.map = {}]

EvictAllUIResources(g) ==
  IF g.map = {} THEN g ELSE OnCanDrawStateChanged(SetNeedsCommit(ClearUIResources(g)))

\* External: LayerTreeImpl's queue, in the order of the requests.
ProcessUIResourceRequestQueue(g, queue) ==
  FoldLeft(LAMBDA a, q : IF q.op = "create" THEN CreateUIResource(a, q.uid) ELSE DeleteUIResource(a, q.uid),
           g, queue)

-----------------------------------------------------------------------------
(* Tiles and memory.                                                       *)

DidModifyTilePriorities(g) == [g EXCEPT !.dirty = TRUE]

UpdateTileManagerMemoryPolicy(g) ==
  IF ~ g.pool THEN g
  ELSE LET hard == g.visible /\ g.policy
       IN DidModifyTilePriorities([g EXCEPT !.hard = hard, !.aggressive = @ /\ ~ (g.surface /\ hard)])

\* Without limits the tile manager lets go of every tile.  Its tasks end later.
PrepareTiles(g) ==
  IF ~ g.dirty \/ ~ g.pool THEN g
  ELSE [g EXCEPT !.dirty = FALSE, !.tasks = TRUE, !.active.sharp = @ /\ g.hard, !.pending.sharp = @ /\ g.hard]

SetRequiresHighResToDraw(g) == [g EXCEPT !.high_res = TRUE]

ReleaseTreeResources(g) == EvictAllUIResources([g EXCEPT !.active.sharp = FALSE, !.pending.sharp = FALSE])

CleanUpTileManagerAndUIResources(g) == [ClearUIResources(g) EXCEPT !.pool = FALSE, !.tasks = FALSE]

CreateTileManagerResources(g) == UpdateTileManagerMemoryPolicy([g EXCEPT !.pool = TRUE])

UpdateTreeResourcesForGpuRasterizationIfNeeded(g) ==
  IF ~ g.gpu_dirty THEN g
  ELSE LET released == ReleaseTreeResources(g)
           remade == IF g.pool THEN CreateTileManagerResources(CleanUpTileManagerAndUIResources(released))
                     ELSE released
       IN [SetRequiresHighResToDraw(remade) EXCEPT !.gpu_dirty = FALSE]

UpdateGpuRasterizationStatus(g, wanted) ==
  LET use == wanted /\ g.surface
  IN IF use = g.gpu THEN g ELSE [g EXCEPT !.gpu = use, !.gpu_dirty = TRUE]

NotifyAllTileTasksCompleted(g) ==
  [g EXCEPT !.tasks = FALSE, !.aggressive = @ \/ (g.surface /\ ~ g.hard)]

\* No commit where what there was to draw had enough memory, and still has, and it is drawn.
SetManagedMemoryPolicy(g, policy, enough) ==
  LET policed == UpdateTileManagerMemoryPolicy([g EXCEPT !.policy = policy])
  IN IF g.policy = policy THEN g
     ELSE IF g.visible /\ enough THEN policed ELSE SetNeedsCommit(policed)

SetMemoryPolicy(g, policy, synchronous, enough) ==
  LET set == SetManagedMemoryPolicy(g, policy, enough)
  IN IF policy \/ ~ g.pool \/ ~ synchronous THEN set
     ELSE CreateTileManagerResources(
            NotifyAllTileTasksCompleted(CleanUpTileManagerAndUIResources(ReleaseTreeResources(set))))

-----------------------------------------------------------------------------
(* The output surface.                                                     *)

ReleaseOutputSurface(g) ==
  [CleanUpTileManagerAndUIResources([ReleaseTreeResources(g) EXCEPT !.renderer = FALSE])
     EXCEPT !.surface = FALSE, !.aggressive = FALSE]

CreateAndSetRenderer(g) == SetNeedsRedraw([g EXCEPT !.renderer = TRUE])

\* Binding may fail.
InitializeRenderer(g, binds, gpu) ==
  LET released == ReleaseOutputSurface(g)
  IN IF ~ binds THEN released
     ELSE SetRequiresHighResToDraw(OnCanDrawStateChanged(
              CreateTileManagerResources(
                UpdateGpuRasterizationStatus(CreateAndSetRenderer([released EXCEPT !.surface = TRUE]), gpu))))

-----------------------------------------------------------------------------
(* Trees.                                                                  *)

CreatePendingTree(g) ==
  OnCanDrawStateChanged(
    [g EXCEPT !.pending = [NoTree EXCEPT !.here = TRUE, !.root = g.active.root], !.recycle = FALSE])

SetViewportSize(g, size) ==
  IF size = g.device THEN g
  ELSE OnCanDrawStateChanged([g EXCEPT !.device = size, !.active.invalid = @ \/ g.pending.here])

\* The commit: BeginCommit, what LayerTreeHost pushes, CommitComplete.
BeginCommit(g) == IF g.to_active THEN g ELSE CreatePendingTree(g)

CommitComplete(g) ==
  LET updated == UpdateTreeResourcesForGpuRasterizationIfNeeded(g)
      prepared == PrepareTiles(updated)
  IN IF updated.dirty /\ updated.pool THEN prepared
     ELSE [prepared EXCEPT !.activate = TRUE, !.likely = @ /\ ~ g.to_active]

\* The requests are processed before the trees are swapped.
BugActivated(g) ==
  LET tree == g.pending
  IN [g EXCEPT !.pending = NoTree, !.recycle = TRUE,
               !.active = [tree EXCEPT !.queue = <<>>, !.invalid = FALSE]]
Activated(g) ==
  LET tree == g.pending
      served == ProcessUIResourceRequestQueue(g, tree.queue)
  IN [served EXCEPT !.pending = NoTree, !.recycle = TRUE,
                    !.active = [tree EXCEPT !.queue = <<>>, !.invalid = FALSE]]

ActivateSyncTree(g) ==
  LET synced == IF g.pending.here THEN Activated(g)
                ELSE [ProcessUIResourceRequestQueue(g, g.active.queue) EXCEPT !.active.queue = <<>>]
  IN [OnCanDrawStateChanged(DidModifyTilePriorities(synced)) EXCEPT !.activate = FALSE, !.uncommitted = FALSE,
                                                                   !.redraw = TRUE]

SetVisible(g, visible) ==
  LET policed == UpdateTileManagerMemoryPolicy([g EXCEPT !.visible = visible])
  IN IF visible THEN SetRequiresHighResToDraw(policed) ELSE PrepareTiles(EvictAllUIResources(policed))

\* A draw asked for by the output surface; one that is resourceless uses no textures.
OnDraw(g, viewport, resourceless) ==
  LET placed == [g EXCEPT !.external = viewport, !.resourceless = resourceless,
                          !.redraw = @ \/ resourceless \/ viewport # g.external]
  IN IF resourceless
     THEN OnCanDrawStateChanged([OnCanDrawStateChanged(placed) EXCEPT !.resourceless = FALSE, !.redraw = TRUE])
     ELSE placed

NotifyReadyToDraw(g) == [g EXCEPT !.likely = FALSE]

-----------------------------------------------------------------------------
(* The client's calls.                                                     *)

Becomes(g) == \E x \in {g} : h' = x

Event(g) == events < MaxEvents /\ events' = events + 1 /\ Becomes(g)

Visibility == UNCHANGED main /\ Event(SetVisible([h EXCEPT !.fresh = TRUE], ~ h.visible))

\* The scheduler activates what was committed before the surface is released.
LoseSurface == h.surface /\ ~ h.pending.here /\ ~ h.uncommitted /\ UNCHANGED main /\ Event(ReleaseOutputSurface(h))

NewSurface ==
  /\ ~ h.surface /\ UNCHANGED main
  /\ \E binds, gpu \in BOOLEAN : Event(InitializeRenderer([h EXCEPT !.fresh = TRUE], binds, gpu))

Memory ==
  /\ h.surface /\ UNCHANGED main
  /\ \E policy, synchronous, enough \in BOOLEAN :
       policy # h.policy /\ Event(SetMemoryPolicy(h, policy, synchronous, enough))

ExternalDraw ==
  /\ h.surface /\ UNCHANGED main
  /\ \E viewport \in {1, 2}, resourceless \in BOOLEAN : Event(OnDraw(h, viewport, resourceless))

\* The main thread makes and deletes UI resources.
UseUIResources ==
  /\ events < MaxEvents /\ events' = events + 1 /\ UNCHANGED h
  /\ \E uid \in Uids :
       main' = IF uid \in main.live
               THEN [main EXCEPT !.live = @ \ {uid}, !.queue = Append(@, [op |-> "delete", uid |-> uid])]
               ELSE [main EXCEPT !.live = @ \cup {uid}, !.queue = Append(@, [op |-> "create", uid |-> uid])]

\* The main frame is told whether UI resources were evicted.
SendBeginMainFrame ==
  /\ main.frame = "none" /\ h.visible /\ h.surface /\ ~ h.pending.here /\ ~ h.uncommitted
  /\ h.commit \/ main.queue # <<>> \/ ~ h.active.root
  /\ h' = [h EXCEPT !.commit = FALSE]
  /\ main' = [main EXCEPT !.frame = IF h.evicted = {} THEN "sent" ELSE "told"]
  /\ UNCHANGED events

\* Those it was told of are made again.
Requests ==
  main.queue \o IF main.frame = "told" THEN SetToSeq({[op |-> "create", uid |-> u] : u \in main.live}) ELSE <<>>

\* The whole commit, while the main thread waits; without a surface there is none.
Commit ==
  /\ main.frame # "none" /\ UNCHANGED events
  /\ IF h.surface
     THEN /\ \E size \in {1, 2}, gpu \in BOOLEAN :
               LET begun == SetViewportSize(UpdateGpuRasterizationStatus(BeginCommit(h), gpu), size)
                   tree == [here |-> TRUE, root |-> TRUE, invalid |-> FALSE, queue |-> Requests,
                            uses |-> main.live, sharp |-> FALSE]
                   pushed == IF h.to_active
                             THEN [begun EXCEPT !.active = [tree EXCEPT !.invalid = begun.active.invalid],
                                                !.uncommitted = TRUE]
                             ELSE [begun EXCEPT !.pending = tree]
               IN Becomes(CommitComplete([pushed EXCEPT !.fresh = @ \/ begun.gpu_dirty]))
          /\ main' = [main EXCEPT !.frame = "none", !.queue = <<>>]
     ELSE /\ Becomes(SetNeedsCommit(h))
          /\ main' = [main EXCEPT !.frame = "none"]

\* Tiles come in, or none are left to wait for.
TilesAreReady ==
  /\ h.pool /\ h.tasks /\ UNCHANGED <<main, events>>
  /\ LET done == NotifyAllTileTasksCompleted(h)
         sharp == [done EXCEPT !.active.sharp = @ \/ h.hard, !.pending.sharp = h.pending.here /\ (@ \/ h.hard)]
     IN Becomes(NotifyReadyToDraw([sharp EXCEPT !.activate = @ \/ h.pending.here \/ h.uncommitted]))

Prepare == h.dirty /\ h.pool /\ UNCHANGED <<main, events>> /\ Becomes(PrepareTiles(h))

Activate == h.activate /\ UNCHANGED <<main, events>> /\ Becomes(ActivateSyncTree(h))

\* PrepareToDraw gives up when content of high resolution is required and missing.
Drawable(g) == g.high_res => g.active.sharp

\* PrepareToDraw, DrawLayers and SwapBuffers.
Draw ==
  /\ h.redraw /\ h.visible /\ h.surface /\ h.announced /\ CanDraw(h) /\ Drawable(h) /\ ~ h.uncommitted
  /\ Becomes([h EXCEPT !.redraw = FALSE, !.high_res = FALSE,
                       !.fresh = FALSE,
                       !.blurred = h.fresh /\ ~ h.active.sharp])
  /\ UNCHANGED <<main, events>>

Next ==
  \/ Visibility \/ LoseSurface \/ NewSurface \/ Memory \/ ExternalDraw \/ UseUIResources
  \/ SendBeginMainFrame \/ Commit \/ TilesAreReady \/ Prepare \/ Activate \/ Draw

Spec == Init /\ [][Next]_vars

-----------------------------------------------------------------------------
(* Properties.                                                             *)

TypeOK ==
  /\ h.map \cup h.evicted \subseteq Uids /\ h.map \cap h.evicted = {}
  /\ h.renderer = h.surface /\ (h.map # {} => h.surface)
  /\ ~ (h.pending.here /\ h.recycle)

\* The scheduler knows whether the host can draw: whoever changes what CanDraw reads
\* calls OnCanDrawStateChanged (layer_tree_host_impl.cc:392-395), except when the
\* surface goes, which the scheduler is told otherwise, or a commit to the active tree
\* is not activated.
CanDrawIsKnown == h.surface /\ ~ h.uncommitted => h.announced = CanDraw(h)

\* Evicted UI resources keep the host from drawing until the main thread makes them
\* again, so a commit is asked for, on its way, or has brought the requests.
EvictedAreAskedFor ==
  h.evicted # {} =>
    \/ h.commit \/ main.frame = "told"
    \/ \A u \in h.evicted :
         \E q \in ToSet(main.queue) \cup ToSet(h.pending.queue) \cup ToSet(h.active.queue) : q.uid = u

\* What is drawn finds its UI resources: deletions and creations reach the active
\* tree with the layers they belong to, and after an eviction nothing is drawn.
DrawnWithItsResources == h.announced /\ h.surface /\ ~ h.uncommitted => h.active.uses \subseteq h.map

\* The first frame after the page becomes visible, gets a surface or another way of
\* rastering shows no tiles of low resolution.
FirstFrameIsSharp == ~ h.blurred

\* The worker context lets go of its memory while nothing may be kept, and only then.
WorkerFollowsThePolicy ==
  h.surface /\ h.pool => IF h.hard THEN ~ h.aggressive ELSE h.dirty \/ h.tasks \/ h.aggressive

\* The host draws with what it needs, and the scheduler knows when it can.
HostIsReady ==
  /\ CanDrawIsKnown
  /\ EvictedAreAskedFor
  /\ DrawnWithItsResources
  /\ WorkerFollowsThePolicy

===============================================================================
