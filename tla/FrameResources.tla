----------------------------- MODULE FrameResources -----------------------------
(***************************************************************************)
(* What the GL renderer keeps beyond one frame: overlays that the display   *)
(* may still scan out, the part of the surface that has to be swapped, the  *)
(* back buffer of a hidden surface, and the queries by which the GPU tells  *)
(* that it is done reading a frame's resources.                             *)
(*                                                                          *)
(* src/src/cc/output/gl_renderer.cc.  External: the output surface, with at *)
(* most one swap on its way, the GPU, which finishes frames in their order, *)
(* and DirectRenderer, which draws while the renderer is visible and has    *)
(* the back buffer brought back before it does.                             *)
(***************************************************************************)
EXTENDS Integers, Sequences, FiniteSets, Functions

CONSTANTS
  kMaxPendingSyncQueries,
  Regions,      \* parts of the surface
  MaxFrames     \* bound: frames drawn

FrameAssumption == kMaxPendingSyncQueries \in Nat \ {0} /\ MaxFrames \in Nat

Frames == 1 .. MaxFrames

VARIABLES
  caps,       \* capabilities_ and settings_
  phase,      \* "idle", "drawing", "drawn"
  number,     \* frames so far
  swap_rect,  \* swap_buffer_rect_
  overlays,   \* pending_overlay_resources_, swapped_overlay_resources_: by frame
  queries,    \* pending_sync_queries_, available_sync_queries_, current_sync_query_
  query,      \* the frame a query, named by its first frame, was last begun for, and is_pending_
  visible,
  \* external
  display,    \* swaps not complete, frame on screen, discarded buffer, full root damage
  finished,   \* last frame the GPU finished
  \* bookkeeping
  fence,      \* frame to the query of its read lock fence, if a resource is locked by it
  behind      \* regions drawn and not swapped

vars == <<caps, phase, number, swap_rect, overlays, queries, query, visible, display, finished, fence, behind>>

Init ==
  /\ caps \in [partial : BOOLEAN, empty : BOOLEAN, release : BOOLEAN] /\ (caps.partial => caps.empty)
  /\ phase = "idle" /\ number = 0 /\ swap_rect = {}
  /\ overlays = [pending |-> {}, swapped |-> <<>>]
  /\ queries = [pending |-> <<>>, available |-> <<>>, current |-> 0]
  /\ query = [q \in Frames |-> [frame |-> 0, pending |-> FALSE]]
  /\ visible = TRUE
  /\ display = [swaps |-> 0, shown |-> 0, discarded |-> FALSE, full |-> FALSE]
  /\ finished = 0 /\ fence = [f \in Frames |-> 0] /\ behind = {}

-----------------------------------------------------------------------------
(* Queries.                                                                *)

IsPending(q) == query[q].pending /\ query[q].frame > finished

\* A fence whose query was begun again has passed.
HasPassed(f) == query[fence[f]].frame # f \/ ~ IsPending(fence[f])

\* Blocks for the oldest, if there are too many.
Wait ==
  IF Len(queries.pending) >= kMaxPendingSyncQueries /\ IsPending(Head(queries.pending))
  THEN query[Head(queries.pending)].frame ELSE finished

\* The queries at the front that are not pending can be used again.
BugDone(seq, done) == Len(seq)
Done(seq, done) ==
  CHOOSE n \in 0 .. Len(seq) :
    /\ \A i \in 1 .. n : ~ query[seq[i]].pending \/ query[seq[i]].frame <= done
    /\ n < Len(seq) => query[seq[n + 1]].pending /\ query[seq[n + 1]].frame > done

\* SyncQuery::Begin: the frame's fence; the query itself begins with the first read lock.
Begin(q, f, read) == query' = [query EXCEPT ![q] = [frame |-> f, pending |-> read]]

BeginDrawingFrame ==
  /\ phase = "idle" /\ visible /\ display.swaps = 0 /\ number < MaxFrames
  /\ LET f == number + 1
         done == Wait
         n == Done(queries.pending, done)
         available == queries.available \o SubSeq(queries.pending, 1, n)
         q == IF available = <<>> THEN f ELSE Head(available)
     IN /\ finished' = done /\ number' = f
        /\ queries' = [pending |-> SubSeq(queries.pending, n + 1, Len(queries.pending)),
                       available |-> IF available = <<>> THEN <<>> ELSE Tail(available), current |-> q]
        /\ \E read \in BOOLEAN :
             Begin(q, f, read) /\ fence' = [fence EXCEPT ![f] = IF read THEN q ELSE 0]
  /\ phase' = "drawing"
  /\ UNCHANGED <<caps, swap_rect, overlays, visible, display, behind>>

\* Overlays are locked for reading, whether as layers of Core Animation or as planes.
Schedule(f) == overlays' = [overlays EXCEPT !.pending = @ \cup {f}]

\* SyncQuery::End.
FinishDrawingFrame ==
  /\ phase = "drawing" /\ phase' = "drawn"
  /\ queries' = [queries EXCEPT !.pending = Append(@, queries.current), !.current = 0]
  /\ \E damage \in SUBSET Regions :
       LET all == IF display.full THEN Regions ELSE damage
       IN swap_rect' = swap_rect \cup all /\ behind' = behind \cup all
  /\ Schedule(number)
  /\ display' = [display EXCEPT !.full = FALSE]
  /\ UNCHANGED <<caps, number, query, visible, finished, fence>>

-----------------------------------------------------------------------------
(* Swaps.                                                                  *)

\* An empty swap, if it is allowed, stays empty.
SwapRect == IF caps.partial \/ (swap_rect = {} /\ caps.empty) THEN swap_rect ELSE Regions

Held(swapped) == IF caps.release \/ Len(swapped) <= 2 THEN swapped ELSE Tail(swapped)

SwapBuffers ==
  /\ phase = "drawn" /\ phase' = "idle"
  /\ overlays' = [pending |-> {}, swapped |-> Held(Append(overlays.swapped, overlays.pending))]
  /\ behind' = behind \ SwapRect /\ swap_rect' = {}
  /\ display' = [display EXCEPT !.swaps = @ + 1]
  /\ UNCHANGED <<caps, number, queries, query, visible, finished, fence>>

SwapBuffersComplete ==
  /\ display.swaps > 0
  /\ display' = [display EXCEPT !.swaps = @ - 1, !.shown = number]
  /\ overlays' = [overlays EXCEPT !.swapped = IF caps.release /\ @ # <<>> THEN Tail(@) ELSE @]
  /\ UNCHANGED <<caps, phase, number, swap_rect, queries, query, visible, finished, fence, behind>>

\* What was on the back buffer is gone: all of it is behind, and has to be drawn again.
DiscardBackbuffer ==
  IF display.discarded THEN UNCHANGED <<display, behind>>
  ELSE display' = [display EXCEPT !.discarded = TRUE, !.full = TRUE] /\ behind' = Regions

EnsureBackbuffer == display' = [display EXCEPT !.discarded = FALSE] /\ UNCHANGED behind

\* EnforceMemoryPolicy.
DidChangeVisibility ==
  /\ phase = "idle" /\ number < MaxFrames
  /\ visible' = ~ visible
  /\ IF visible THEN DiscardBackbuffer ELSE EnsureBackbuffer
  /\ UNCHANGED <<caps, phase, number, swap_rect, overlays, queries, query, finished, fence>>

\* A frame is done on the GPU some time after it was drawn.
GpuFinishes ==
  /\ finished < number /\ (finished + 1 = number => phase # "drawing")
  /\ finished' = finished + 1
  /\ UNCHANGED <<caps, phase, number, swap_rect, overlays, queries, query, visible, display, fence, behind>>

Next ==
  \/ BeginDrawingFrame \/ FinishDrawingFrame \/ SwapBuffers \/ SwapBuffersComplete
  \/ DidChangeVisibility \/ GpuFinishes

Spec == Init /\ [][Next]_vars

-----------------------------------------------------------------------------
(* Properties.                                                             *)

Drawn == {f \in Frames : f < number \/ (f = number /\ phase # "drawing")}

\* A resource is written again only when the GPU has read it: the fence of a frame
\* passes after the frame is finished, though its query serves later frames.
FencesTellTheTruth == \A f \in Drawn : fence[f] # 0 /\ HasPassed(f) => f <= finished

\* The frame on screen and the one that follows it keep their overlays: we always hold
\* onto resources until an extra frame has swapped (gl_renderer.cc:2644-2646).
ScannedOutIsLocked ==
  ~ caps.release =>
    \A f \in {display.shown} \cup (IF display.swaps > 0 THEN {number} ELSE {}) :
      f > 0 => f \in overlays.pending \cup UNION Range(overlays.swapped)

\* After a swap the surface shows all that was drawn, and one that lost its buffer is
\* drawn whole.
SwapShowsAll == phase = "idle" /\ ~ display.full => behind = {}

\* Slow as the GPU may be, the renderer is never more frames ahead of it than this.
TypeOK ==
  /\ Len(queries.pending) <= kMaxPendingSyncQueries
  /\ Cardinality({query[q].frame : q \in Range(queries.pending)}) = Len(queries.pending)
  /\ swap_rect \subseteq Regions /\ behind \subseteq Regions
  /\ (phase = "drawing") = (queries.current # 0)

\* What a frame reads is kept while it is read, and what it drew is shown.
FramesKeepTheirResources == FencesTellTheTruth /\ ScannedOutIsLocked /\ SwapShowsAll

===============================================================================
