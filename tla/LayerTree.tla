------------------------------- MODULE LayerTree -------------------------------
(***************************************************************************)
(* The main thread's tree of compositor layers: structure, what each       *)
(* layer keeps count of so that a commit finds what changed without        *)
(* looking at every layer, and the property trees built from it.           *)
(*                                                                         *)
(* src/src/cc/layers/layer.cc.  Everything runs on the main thread; a step *)
(* is one call of the client or one commit.  LayerTreeHost,                *)
(* TreeSynchronizer and the builder of the property trees are external.    *)
(* Copy requests of a layer are in CopyOutput.  Of the many properties of  *)
(* a layer there is one of each kind of setter.  Left out: the values that *)
(* an animation sets on both threads, which no commit carries              *)
(* (layer.cc:1749-1802), and how a layer's own transform and its parent's  *)
(* make it a container for fixed layers (layer.cc:675-681).                *)
(***************************************************************************)
EXTENDS Integers, Sequences, FiniteSets, SequencesExt

CONSTANTS
  Layers,      \* the layers of the client
  Root,        \* the root layer, always in the host
  None,
  MasksDraw,   \* may a mask or a replica draw content?
  MaxChanges   \* bound: calls of the client

LayersAssumption ==
  /\ Root \in Layers /\ None \notin Layers /\ IsFiniteSet(Layers)
  /\ MasksDraw \in BOOLEAN /\ MaxChanges \in Nat

VARIABLES
  layer,       \* the Layer objects; see NewLayer
  host,        \* the LayerTreeHost's flags
  \* external
  nodes,       \* the transform nodes of the property trees: owner -> its transform
  committed,   \* the structure the impl thread was given
  behind,      \* layers the impl thread has an old version of
  \* bookkeeping
  changes, uses

vars == <<layer, host, nodes, committed, behind, changes, uses>>

Features == {"transform", "draw", "scroll", "clip", "fixed"}
Slots == {"mask", "replica"}
Links == {"scroll", "clip"}

NewLayer ==
  [parent   |-> None,
   children |-> <<>>,
   slot     |-> [s \in Slots |-> None],   \* mask_layer_, replica_layer_
   attached |-> FALSE,                    \* layer_tree_host_
   needs    |-> FALSE,                    \* needs_push_properties_
   deps     |-> 0,                        \* num_dependents_need_push_properties_
   draws    |-> FALSE,                    \* draws_content_
   drawing  |-> 0,                        \* num_descendants_that_draw_content_
   transform |-> 0,                       \* 0 is the identity
   owns     |-> FALSE,                    \* transform_tree_index_ is of a node of its own
   link     |-> [k \in Links |-> None],   \* scroll_parent_, clip_parent_
   linked   |-> [k \in Links |-> {}],     \* scroll_children_, clip_children_
   fixed     |-> FALSE,                   \* position_constraint_
   container |-> FALSE,                   \* is_container_for_fixed_position_layers_
   gone     |-> FALSE]

-----------------------------------------------------------------------------
(* The state a call works on: t = [layer, host, behind].                   *)

Now == [layer |-> layer, host |-> host, behind |-> behind]

Dependents(t, l) ==
  ({t.layer[l].children[i] : i \in DOMAIN t.layer[l].children}
     \cup {t.layer[l].slot[s] : s \in Slots}) \ {None}

\* The i-th layer above l, counting l as the 0th.
Above(t, l) ==
  LET a[i \in 0 .. Cardinality(Layers)] ==
        IF i = 0 THEN l ELSE IF a[i - 1] = None THEN None ELSE t.layer[a[i - 1]].parent
  IN a

HasAncestor(t, l, a) == \E i \in 1 .. Cardinality(Layers) : Above(t, l)[i] = a

\* The layers from l upwards while each on the way is one of Through.
Climb(t, l, Through) ==
  LET a == Above(t, l)
  IN {a[i] : i \in {j \in DOMAIN a : a[j] # None /\ \A k \in 0 .. j - 1 : a[k] \in Through}}

Subtree(t, l) == {x \in Layers : x = l \/ HasAncestor(t, x, l)}

-----------------------------------------------------------------------------
(* What a commit has to push.                                              *)

parent_should_know(t, l) == t.layer[l].needs \/ t.layer[l].deps > 0

Quiet(t) == {l \in Layers : ~ parent_should_know(t, l)}

AddDependentNeedsPushProperties(t, p) ==
  IF p = None THEN t
  ELSE LET told == Climb(t, p, Quiet(t))
       IN [t EXCEPT !.layer = [l \in Layers |-> IF l \in told THEN [@[l] EXCEPT !.deps = @ + 1] ELSE @[l]]]

RemoveDependentNeedsPushProperties(t, p) ==
  IF p = None THEN t
  ELSE LET quiet == {l \in Layers : ~ t.layer[l].needs /\ t.layer[l].deps = 1}
           told  == Climb(t, p, quiet)
       IN [t EXCEPT !.layer = [l \in Layers |-> IF l \in told THEN [@[l] EXCEPT !.deps = @ - 1] ELSE @[l]]]

SetNeedsPushProperties(t, l) ==
  IF t.layer[l].needs THEN t
  ELSE LET u == IF parent_should_know(t, l) THEN t
                ELSE AddDependentNeedsPushProperties(t, t.layer[l].parent)
       IN [u EXCEPT !.layer[l].needs = TRUE]

\* A property changed that the impl thread is to have.
SetNeedsCommitNoRebuild(t, l) ==
  IF ~ t.layer[l].attached THEN t
  ELSE LET u == SetNeedsPushProperties(t, l)
       IN [u EXCEPT !.host.commit = TRUE, !.behind = @ \cup {l}]

SetNeedsCommit(t, l) ==
  IF ~ t.layer[l].attached THEN t
  ELSE [SetNeedsCommitNoRebuild(t, l) EXCEPT !.host.rebuild = TRUE]

SetNeedsFullTreeSync(t, l) ==
  IF t.layer[l].attached THEN [t EXCEPT !.host.sync = TRUE, !.host.commit = TRUE] ELSE t

-----------------------------------------------------------------------------
(* Structure.                                                              *)

\* The whole subtree moves to the host, or out of it; tree indices are void and what
\* was pushed counts no longer.
SetLayerTreeHost(t, l, attached) ==
  IF t.layer[l].attached = attached THEN t
  ELSE LET moved == Subtree(t, l)
           u == [t EXCEPT
                   !.layer = [x \in Layers |->
                     IF x \in moved THEN [@[x] EXCEPT !.attached = attached, !.owns = FALSE] ELSE @[x]],
                   !.host.rebuild = TRUE,
                   !.behind = @ \cup moved]
       IN FoldSet(LAMBDA x, v : SetNeedsPushProperties(v, x), u, moved)

SetParent(t, l, p) ==
  LET attached == p # None /\ t.layer[p].attached
      u == IF parent_should_know(t, l)
             THEN AddDependentNeedsPushProperties(RemoveDependentNeedsPushProperties(t, t.layer[l].parent), p)
             ELSE t
  IN [SetLayerTreeHost([u EXCEPT !.layer[l].parent = p], l, attached) EXCEPT !.host.rebuild = @ \/ attached]

AddDrawableDescendants(t, l, n) ==
  IF n = 0 THEN t
  ELSE LET counting == Climb(t, l, Layers)
           u == [t EXCEPT !.layer = [x \in Layers |->
                   IF x \in counting THEN [@[x] EXCEPT !.drawing = @ + n] ELSE @[x]]]
       IN FoldSet(LAMBDA x, v : SetNeedsCommit(v, x), u, counting)

Drawn(t, l) == t.layer[l].drawing + (IF t.layer[l].draws THEN 1 ELSE 0)

\* A mask or a replica leaves its slot, a child the list of children.
LeaveList(t, p, l) ==
  IF \E s \in Slots : t.layer[p].slot[s] = l
  THEN [t EXCEPT !.layer[p].slot = [s \in Slots |-> IF @[s] = l THEN None ELSE @[s]]]
  ELSE [AddDrawableDescendants(t, p, - Drawn(t, l)) EXCEPT !.layer[p].children = Remove(@, l)]

BugRemoveFromParent(t, l) ==
  LET p == t.layer[l].parent
  IN IF p = None THEN t ELSE LeaveList(SetParent(t, l, None), p, l)
RemoveFromParent(t, l) ==
  LET p == t.layer[l].parent
  IN IF p = None THEN t ELSE SetNeedsFullTreeSync(LeaveList(SetParent(t, l, None), p, l), p)

Adopt(t, p, l) == SetParent(AddDrawableDescendants(t, p, Drawn(t, l)), l, p)

InsertChild(t, p, l, index) ==
  SetNeedsFullTreeSync(
    [Adopt(RemoveFromParent(t, l), p, l) EXCEPT
       !.layer[p].children = InsertAt(@, (IF index > Len(@) THEN Len(@) ELSE index) + 1, l)], p)

\* new takes the place of old, or old goes without replacement.  That new leaves its
\* parent is left to InsertChild, which does it again.
ReplaceChild(t, p, old, new) ==
  LET index == (CHOOSE i \in DOMAIN t.layer[p].children : t.layer[p].children[i] = old) - 1
      u == RemoveFromParent(t, old)
  IN IF old = new THEN t ELSE IF new = None THEN u ELSE InsertChild(u, p, new, index)

RemoveAllChildren(t, l) ==
  FoldLeft(LAMBDA u, x : RemoveFromParent(u, x), t, t.layer[l].children)

\* SetMaskLayer and SetReplicaLayer.
SetSlot(t, p, s, l) ==
  LET u == IF t.layer[p].slot[s] = None THEN t ELSE RemoveFromParent(t, t.layer[p].slot[s])
      v == [u EXCEPT !.layer[p].slot[s] = l]
  IN SetNeedsFullTreeSync(IF l = None THEN v ELSE SetParent(v, l, p), p)

-----------------------------------------------------------------------------
(* Properties.                                                             *)

\* SetPosition, SetTransform, SetTransformOrigin, SetScrollOffset: where the layer
\* owns a node of the property trees the node is changed in place.
SetTransform(t, l, v) ==
  LET u == [t EXCEPT !.layer[l].transform = v]
  IN IF t.layer[l].transform = v THEN t
     ELSE IF t.layer[l].attached /\ t.layer[l].owns THEN SetNeedsCommitNoRebuild(u, l)
     ELSE SetNeedsCommit(u, l)

\* A scroll of the impl thread reaches the main thread: no commit is asked for.
SetScrollOffsetFromImplSide(t, l, v) ==
  LET u == SetNeedsPushProperties([t EXCEPT !.layer[l].transform = v, !.behind = @ \cup {l}], l)
  IN IF t.layer[l].transform = v THEN t
     ELSE IF t.layer[l].owns THEN u ELSE [u EXCEPT !.host.rebuild = TRUE]

\* SetIsDrawable
UpdateDrawsContent(t, l, draws) ==
  LET p == t.layer[l].parent
      u == IF p = None THEN t ELSE AddDrawableDescendants(t, p, IF draws THEN 1 ELSE -1)
  IN IF t.layer[l].draws = draws THEN t
     ELSE SetNeedsCommit([u EXCEPT !.layer[l].draws = draws], l)

\* Every other setter: nothing if the value is the same, else SetNeedsCommit.
SetProperty(t, l) == SetNeedsCommit(t, l)

SetPositionConstraint(t, l) == SetNeedsCommit([t EXCEPT !.layer[l].fixed = ~ @], l)

Listed(t) == {x \in Layers : t.layer[x].parent # None /\ \A s \in Slots : t.layer[t.layer[x].parent].slot[s] # x}

\* Below children, not below masks and replicas.
DescendantIsFixedToContainerLayer(t, l) ==
  \E x \in Layers \ {l} : t.layer[x].fixed /\ l \in Climb(t, x, Listed(t))

\* With a commit asked for by anyone, or nothing fixed below, the change is not pushed: the
\* impl thread keeps an old flag that no commit is sure to replace.
SetIsContainerForFixedPositionLayers(t, l) ==
  LET u == [t EXCEPT !.layer[l].container = ~ @]
  IN IF (t.layer[l].attached /\ t.host.commit) \/ ~ DescendantIsFixedToContainerLayer(t, l)
     THEN u ELSE SetNeedsCommit(u, l)

\* SetScrollParent and SetClipParent; the other end keeps the set of its children.
SetLink(t, k, l, p) ==
  LET q == t.layer[l].link[k]
      u == IF q = None THEN t
           ELSE SetNeedsCommit([t EXCEPT !.layer[q].linked[k] = @ \ {l}], q)
      v == [u EXCEPT !.layer[l].link[k] = p]
      w == IF p = None THEN v
           ELSE SetNeedsCommit([v EXCEPT !.layer[p].linked[k] = @ \cup {l}], p)
  IN IF q = p THEN t ELSE SetNeedsCommit(w, l)

\* RemoveFromScrollTree and RemoveFromClipTree.
RemoveFromLinks(t, k, l) ==
  SetLink(FoldSet(LAMBDA x, u : SetLink(u, k, x, None), t, t.layer[l].linked[k]), k, l, None)

\* ~Layer
Destroy(t, l) ==
  LET u == RemoveFromLinks(RemoveFromLinks(t, "scroll", l), "clip", l)
      v == RemoveAllChildren(u, l)
      w == FoldSet(LAMBDA s, x : IF x.layer[l].slot[s] = None THEN x
                                 ELSE RemoveFromParent(x, x.layer[l].slot[s]), v, Slots)
  IN [w EXCEPT !.layer[l] = [NewLayer EXCEPT !.gone = TRUE]]

-----------------------------------------------------------------------------
Init ==
  /\ uses \in Features
  /\ layer = [l \in Layers |-> [NewLayer EXCEPT !.attached = (l = Root), !.needs = (l = Root)]]
  /\ host = [commit |-> TRUE, rebuild |-> TRUE, sync |-> TRUE]
  /\ nodes = << >> /\ committed = << >> /\ behind = {Root}
  /\ changes = 0

Exists(l) == ~ layer[l].gone

\* The client makes a call.
Call(t) ==
  /\ changes < MaxChanges /\ changes' = changes + 1
  /\ layer' = t.layer /\ host' = t.host /\ behind' = t.behind
  /\ nodes' = [l \in DOMAIN nodes |-> IF t.layer[l].owns THEN t.layer[l].transform ELSE nodes[l]]
  /\ UNCHANGED <<committed, uses>>

Loose(l) == l # Root /\ Exists(l)

ClientInsertChild ==
  \E p, l \in Layers, i \in 0 .. 1 :
    /\ Exists(p) /\ Loose(l) /\ l # p /\ ~ HasAncestor(Now, p, l)
    /\ i <= Len(layer[p].children)
    /\ Call(InsertChild(Now, p, l, i))

ClientRemoveFromParent ==
  \E l \in Layers :
    /\ Loose(l) /\ layer[l].parent # None
    /\ Call(RemoveFromParent(Now, l))

ClientReplaceChild ==
  \E p, old \in Layers, new \in Layers \cup {None} :
    /\ \E i \in DOMAIN layer[p].children : layer[p].children[i] = old
    /\ new # None => Loose(new) /\ new # p /\ ~ HasAncestor(Now, p, new)
    /\ Call(ReplaceChild(Now, p, old, new))

ClientRemoveAllChildren ==
  \E l \in Layers : Len(layer[l].children) > 1 /\ Call(RemoveAllChildren(Now, l))

\* What takes a slot has no parent.
ClientSetSlot ==
  \E p \in Layers, s \in Slots, l \in Layers \cup {None} :
    /\ uses = "transform" \/ (uses = "draw" /\ MasksDraw)
    /\ Exists(p) /\ layer[p].slot[s] # l
    /\ l # None => Loose(l) /\ layer[l].parent = None /\ l # p /\ ~ HasAncestor(Now, p, l)
    /\ Call(SetSlot(Now, p, s, l))

ClientSetTransform ==
  \E l \in Layers, v \in 0 .. 2 :
    /\ uses = "transform" /\ Exists(l) /\ v # layer[l].transform
    /\ Call(SetTransform(Now, l, v))

\* During a BeginMainFrame, for a layer the impl thread scrolls.
HostScrolls ==
  \E l \in Layers, v \in 1 .. 2 :
    /\ uses = "transform" /\ layer[l].attached /\ host.commit /\ v # layer[l].transform
    /\ Call(SetScrollOffsetFromImplSide(Now, l, v))

ClientSetIsDrawable ==
  \E l \in Layers :
    /\ uses = "draw" /\ Exists(l)
    /\ Call(UpdateDrawsContent(Now, l, ~ layer[l].draws))

ClientSetProperty ==
  \E l \in Layers : Exists(l) /\ layer[l].attached /\ l \notin behind /\ Call(SetProperty(Now, l))

ClientSetPositionConstraint ==
  \E l \in Layers : uses = "fixed" /\ Exists(l) /\ Call(SetPositionConstraint(Now, l))

ClientSetIsContainer ==
  \E l \in Layers : uses = "fixed" /\ Exists(l) /\ Call(SetIsContainerForFixedPositionLayers(Now, l))

ClientSetLink ==
  \E l \in Layers, p \in Layers \cup {None} :
    /\ uses \in Links /\ Exists(l) /\ p # l /\ p # layer[l].link[uses]
    /\ p # None => Exists(p)
    /\ Call(SetLink(Now, uses, l, p))

\* The last reference to a layer outside the tree goes.
ClientRelease ==
  \E l \in Layers :
    /\ Loose(l) /\ layer[l].parent = None /\ uses \in Links
    /\ Call(Destroy(Now, l))

-----------------------------------------------------------------------------
(* External: a commit.                                                     *)

Structure == [l \in {x \in Layers : layer[x].attached} |->
                [parent |-> layer[l].parent, children |-> layer[l].children, slot |-> layer[l].slot]]

\* The walk of the commit enters a layer for what is said to have changed below it.
Walked ==
  {l \in Layers :
     /\ layer[l].attached
     /\ \A i \in 1 .. Cardinality(Layers) :
          LET a == Above(Now, l)[i] IN a # None => layer[a].deps > 0}

Pushed == {l \in Walked : layer[l].needs}

Owners == {l \in Layers : layer[l].attached /\ (l = Root \/ layer[l].transform # 0)}

Commit ==
  /\ host.commit
  /\ host' = [commit |-> FALSE, rebuild |-> FALSE, sync |-> FALSE]
  /\ nodes' = IF host.rebuild THEN [l \in Owners |-> layer[l].transform] ELSE nodes
  /\ committed' = IF host.sync THEN Structure ELSE committed
  /\ behind' = behind \ Pushed
  /\ layer' = [l \in Layers |->
       [layer[l] EXCEPT !.needs = IF l \in Pushed THEN FALSE ELSE @,
                        !.deps  = IF l \in Walked THEN 0 ELSE @,
                        !.owns  = IF host.rebuild THEN l \in Owners ELSE @]]
  /\ UNCHANGED <<changes, uses>>

Next ==
  \/ ClientInsertChild
  \/ ClientRemoveFromParent
  \/ ClientReplaceChild
  \/ ClientRemoveAllChildren
  \/ ClientSetSlot
  \/ ClientSetTransform
  \/ HostScrolls
  \/ ClientSetIsDrawable
  \/ ClientSetProperty
  \/ ClientSetPositionConstraint
  \/ ClientSetIsContainer
  \/ ClientSetLink
  \/ ClientRelease
  \/ Commit

Spec == Init /\ [][Next]_vars

-----------------------------------------------------------------------------
(* Properties.                                                             *)

TypeOK ==
  \A l \in Layers :
    /\ layer[l].parent \in Layers \cup {None} /\ layer[l].attached \in BOOLEAN
    /\ \A x \in Dependents(Now, l) : layer[x].parent = l
    /\ layer[l].attached = (l = Root \/ HasAncestor(Now, l, Root))

\* Each layer counts exactly the dependents that have something to push, however the
\* tree was cut and put together since the last commit.
DependentsAreCounted ==
  \A l \in Layers :
    layer[l].deps = Cardinality({x \in Dependents(Now, l) : parent_should_know(Now, x)})

\* A commit's walk comes by every layer of which the impl thread has an old version.  The
\* container flag is not counted where its setter trusts another's commit, which does not
\* come by (layer.cc:1167-1172): the impl thread may then keep the old flag for good.
NothingIsLeftBehind == \A l \in behind : layer[l].attached => l \in Pushed

\* The impl thread has the same tree, or a full sync is due.
SyncIsAskedFor == ~ host.sync => committed = Structure

\* Where no rebuild is due the property trees are those of the layers as they are.
TreesAreCurrent ==
  ~ host.rebuild =>
    /\ \A l \in Layers : layer[l].attached /\ layer[l].transform # 0 => l \in DOMAIN nodes
    /\ \A l \in DOMAIN nodes : layer[l].attached /\ nodes[l] = layer[l].transform

\* num_descendants_that_draw_content_ is that number where masks and replicas do not
\* draw, and so never negative (the assertion at layer.cc:1955).
DrawingIsCounted ==
  \A l \in Layers :
    layer[l].drawing =
      Cardinality({x \in Layers : HasAncestor(Now, x, l) /\ layer[x].draws})

\* Both ends of a scroll or clip link know of each other, and neither outlives it.
LinksMatch ==
  \A k \in Links, l \in Layers :
    /\ layer[l].linked[k] = {x \in Layers : layer[x].link[k] = l}
    /\ layer[l].link[k] # None => Exists(layer[l].link[k])

\* What a layer keeps about others is true, and what changed reaches the impl thread, but
\* for the container flag as said above.
LayersAgree ==
  /\ DependentsAreCounted
  /\ NothingIsLeftBehind
  /\ SyncIsAskedFor
  /\ TreesAreCurrent
  /\ DrawingIsCounted
  /\ LinksMatch

=============================================================================
