------------------------------ MODULE CopyOutput ------------------------------
(***************************************************************************)
(* The way of a copy request: from the view's frame host to the layer, with *)
(* a commit to the pending tree, by activation to the active tree, into the *)
(* render passes of one frame, through the renderer's reading of pixels and *)
(* back as a task to the thread that asked, where the GL helper may still   *)
(* have to read a texture back.  A request that is destroyed on any part of *)
(* the way answers for itself, with nothing.                                *)
(*                                                                          *)
(* src/src/content/browser/compositor/delegated_frame_host.cc, cc/layers/   *)
(* layer.cc, cc/trees/layer_tree_host_impl.cc, cc/output/gl_renderer.cc and *)
(* copy_output_request.cc.  External: the scheduler, the GPU, the asker.    *)
(* Left out: with surfaces a subscriber's capture goes straight to the      *)
(* cc::Surface (delegated_frame_host.cc:345-352), which is not here; here   *)
(* all requests take the way through the layer (353-355).                   *)
(***************************************************************************)
EXTENDS Integers, Sequences, FiniteSets, SequencesExt

CONSTANTS Requests, None

Callers == {"screenshot", "bitmap", "subscriber", "video"}
Results == {"ok", "failed"}
Copies == {"texture", "bitmap", "empty"}

CopyAssumption == None \notin Requests \cup Results

VARIABLES
  asked,        \* requests made: who made each
  answer,       \* what the callback of a request was told
  copy_requests,\* Layer::copy_requests_
  pending,      \* requests on the pending tree
  active,       \* requests on the active tree
  reads,        \* pending_async_read_pixels_
  tasks,        \* results on their way back to the main thread
  helper,       \* requests whose texture the GL helper is reading back
  needs,        \* needs a commit, needs to draw
  host,         \* does the DelegatedFrameHost, and its layer, exist?
  single,       \* CommitToActiveTree()
  texture,      \* subscriber_texture of a request, named by the request it was made for
  idle,         \* idle_frame_subscriber_textures_
  stale,        \* textures lost with the context: texture_id() is 0
  acked         \* screenshots SendScreenshotAck told of

waiting == <<copy_requests, pending, active, reads, tasks, helper>>
mailboxes == <<texture, idle, stale>>
vars == <<asked, answer, waiting, needs, host, single, mailboxes, acked>>

Init ==
  /\ asked = <<>> /\ answer = [r \in Requests |-> None]
  /\ copy_requests = <<>> /\ pending = {} /\ active = {} /\ reads = {} /\ tasks = <<>> /\ helper = {}
  /\ needs = [commit |-> FALSE, draw |-> FALSE]
  /\ host = TRUE /\ single \in BOOLEAN
  /\ texture = [r \in Requests |-> None] /\ idle = {} /\ stale = {}
  /\ acked = {}

Asked == DOMAIN asked
ForVideo(r) == asked[r] \in {"subscriber", "video"}
ToBitmap(r) == ~ ForVideo(r)

-----------------------------------------------------------------------------
(* Answers.                                                                *)

\* The texture goes back to the idle ones if its mailbox survived and the host still
\* has a subscriber.
ReturnSubscriberTexture(rs, subscribed) ==
  IF host /\ subscribed THEN {texture[r] : r \in rs} \ (stale \cup {None}) ELSE {}

Answered(rs, result) ==
  answer' = [r \in Requests |-> IF r \in rs THEN result ELSE answer[r]]

Finish(rs, result) ==
  /\ Answered(rs, result)
  /\ \E subscribed \in BOOLEAN : idle' = idle \cup ReturnSubscriberTexture(rs, subscribed)
  /\ texture' = [r \in Requests |-> IF r \in rs THEN None ELSE texture[r]]
  /\ UNCHANGED stale

\* ~CopyOutputRequest of relays: an empty result, as a task for the main thread.
Empty(rs) == SetToSeq({[request |-> r, copy |-> "empty"] : r \in rs})
Posted(rs) == tasks' = tasks \o Empty(rs)

-----------------------------------------------------------------------------
(* The browser asks.                                                       *)

\* The first request of the same source that no commit took yet is destroyed: its place
\* in the queue, if there is one.
FromSubscriber == {i \in DOMAIN copy_requests : asked[copy_requests[i]] = "subscriber"}

BugSuperseded(caller) == {}
Superseded(caller) ==
  {i \in FromSubscriber : caller = "subscriber" /\ \A k \in FromSubscriber : i <= k}

RequestCopyOfOutput(r, caller) ==
  /\ LET old == Superseded(caller)
         others == IF old = {} THEN copy_requests
                   ELSE RemoveAt(copy_requests, CHOOSE i \in old : TRUE)
     IN copy_requests' = Append(others, r)
  /\ needs' = [needs EXCEPT !.commit = TRUE]

\* A surface unavailable, or no external content, is answered without a request.
CopyFromCompositingSurface(r, caller, can) ==
  /\ caller # "subscriber"
  /\ IF can
     THEN RequestCopyOfOutput(r, caller) /\ UNCHANGED answer
     ELSE Answered({r}, "failed") /\ UNCHANGED <<copy_requests, needs>>
  /\ UNCHANGED mailboxes

\* A texture to reuse, or a new one.  The superseded request gives its texture back
\* only after that.
SubscriberTexture(r) == IF idle = {} THEN r ELSE CHOOSE t \in idle : TRUE

PopTexture(t) == idle \ {t}

\* Without a surface factory.
AttemptFrameSubscriberCapture(r, helped) ==
  LET old == {copy_requests[i] : i \in Superseded("subscriber")}
      mine == IF idle # {} \/ helped THEN SubscriberTexture(r) ELSE None
  IN /\ RequestCopyOfOutput(r, "subscriber")
     /\ Answered(old, "failed")
     /\ \E subscribed \in BOOLEAN : idle' = PopTexture(mine) \cup ReturnSubscriberTexture(old, subscribed)
     /\ texture' = [x \in Requests |-> IF x = r THEN mine ELSE IF x \in old THEN None ELSE texture[x]]
     /\ UNCHANGED stale

Ask ==
  /\ host
  /\ \E r \in Requests \ Asked, caller \in Callers, possible \in BOOLEAN :
       /\ asked' = [x \in Asked \cup {r} |-> IF x = r THEN caller ELSE asked[x]]
       /\ IF caller = "subscriber"
          THEN AttemptFrameSubscriberCapture(r, possible)
          ELSE CopyFromCompositingSurface(r, caller, possible)
  /\ UNCHANGED <<pending, active, reads, tasks, helper, host, single, acked>>

\* The layer takes its uncommitted requests with it; its textures and the trees go later.
DestroyHost ==
  /\ host /\ host' = FALSE
  /\ Answered(ToSet(copy_requests), "failed")
  /\ copy_requests' = <<>> /\ idle' = {}
  /\ texture' = [r \in Requests |-> IF r \in ToSet(copy_requests) THEN None ELSE texture[r]]
  /\ needs' = [needs EXCEPT !.commit = TRUE]
  /\ UNCHANGED <<asked, pending, active, reads, tasks, helper, single, stale, acked>>

-----------------------------------------------------------------------------
(* The layer trees.                                                        *)

Elsewhere == <<asked, answer, reads, helper, host, single, mailboxes, acked>>

\* Without its layer a tree's requests are destroyed.
Activated(requests) ==
  IF host THEN active' = active \cup requests /\ UNCHANGED tasks
  ELSE active' = {} /\ Posted(active \cup requests)

\* PushPropertiesTo wraps each request, so that it answers on the main thread.
Pushed == ToSet(copy_requests)

Commit ==
  /\ needs.commit /\ pending = {}
  /\ copy_requests' = <<>>
  /\ IF single
     THEN Activated(Pushed) /\ UNCHANGED pending /\ needs' = [commit |-> FALSE, draw |-> TRUE]
     ELSE pending' = Pushed \cup {None} /\ UNCHANGED <<active, tasks>>
          /\ needs' = [needs EXCEPT !.commit = FALSE]
  /\ UNCHANGED Elsewhere

ActivateSyncTree ==
  /\ pending # {}
  /\ Activated(pending \ {None}) /\ pending' = {}
  /\ needs' = [needs EXCEPT !.draw = TRUE]
  /\ UNCHANGED <<copy_requests, Elsewhere>>

\* May a frame with something missing be shown?
DrawResult(missing, animated, high_res, resourceless) ==
  IF resourceless THEN "success"
  ELSE IF missing /\ high_res THEN "missing_high_res"
  ELSE IF missing /\ animated /\ ~ single THEN "checkerboard"
  ELSE "success"

\* Requests on layers that own a surface which contributes go into the frame's render
\* passes; any left in the tree are aborted.
BugTaken(surfaces) == [frame |-> surfaces, left |-> {}]
Taken(surfaces) == [frame |-> surfaces, left |-> active \ surfaces]

\* Each request of a frame that is drawn is read as a texture or, if it forced that, as a
\* bitmap once the GPU is done.  A request for no pixels at all is destroyed.
GetFramebufferPixelsAsync(rs, bitmaps, nothing) ==
  /\ tasks' = tasks \o Empty(nothing)
                    \o SetToSeq({[request |-> r, copy |-> "texture"] : r \in rs \ (bitmaps \cup nothing)})
  /\ reads' = reads \cup (bitmaps \ nothing)
  /\ acked' = acked \cup {r \in rs \ (bitmaps \cup nothing) : asked[r] = "screenshot"}

\* A missing tile's frame is tried again, an animation's asks for another commit.
AbortDraw(frame, left, result) ==
  /\ Posted(frame \cup left)
  /\ needs' = IF result = "missing_high_res" THEN needs ELSE [commit |-> TRUE, draw |-> FALSE]
  /\ UNCHANGED <<reads, acked>>

CalculateRenderPasses ==
  /\ needs.draw
  /\ \E surfaces \in SUBSET active, missing, animated, high_res, resourceless \in BOOLEAN :
       LET taken == Taken(surfaces)
           result == DrawResult(missing, animated, high_res, resourceless)
       IN /\ active' = active \ (taken.frame \cup taken.left)
          /\ IF result = "success"
             THEN /\ needs' = [commit |-> needs.commit \/ taken.frame # {}, draw |-> FALSE]
                  /\ \E bitmaps \in SUBSET taken.frame, nothing \in SUBSET taken.frame :
                       GetFramebufferPixelsAsync(taken.frame, bitmaps, nothing \cup taken.left)
             ELSE AbortDraw(taken.frame, taken.left, result)
  /\ UNCHANGED <<asked, answer, copy_requests, pending, helper, host, single, mailboxes>>

-----------------------------------------------------------------------------
(* Pixels.                                                                 *)

\* The GPU is done with one of the reads, in any order; its buffer may not map.
FinishedReadback ==
  /\ \E r \in reads, mapped \in BOOLEAN :
       /\ reads' = reads \ {r}
       /\ tasks' = Append(tasks, [request |-> r, copy |-> IF mapped THEN "bitmap" ELSE "empty"])
  /\ UNCHANGED <<asked, answer, copy_requests, pending, active, helper, needs, host, single, mailboxes,
                 acked>>

\* The output surface goes and its renderer with it: every read is cancelled.
DestroyRenderer == tasks \o Empty(reads)

ReleaseOutputSurface ==
  /\ reads # {} /\ reads' = {} /\ tasks' = DestroyRenderer
  /\ needs' = [needs EXCEPT !.commit = TRUE]
  /\ UNCHANGED <<asked, answer, copy_requests, pending, active, helper, host, single, mailboxes, acked>>

\* The shared context goes: mailboxes are void, and the GL helper answers for what it had.
OnLostResources ==
  /\ Answered(helper, "failed") /\ helper' = {}
  /\ stale' = stale \cup {r \in Asked : r \in idle \/ \E x \in Requests : texture[x] = r}
  /\ idle' = {}
  /\ texture' = [r \in Requests |-> IF r \in helper THEN None ELSE texture[r]]
  /\ UNCHANGED <<asked, copy_requests, pending, active, reads, tasks, needs, host, single, acked>>

-----------------------------------------------------------------------------
(* Back on the main thread.                                                *)

\* A texture is read back by the GL helper, if there is one and the bitmap to read it into.
PrepareTextureCopyOutputResult(r, possible) ==
  IF possible THEN helper' = helper \cup {r} /\ UNCHANGED <<answer, mailboxes>>
  ELSE UNCHANGED helper /\ Finish({r}, "failed")

\* A bitmap is scaled and painted at once, memory permitting.
PrepareBitmapCopyOutputResult(r, possible) ==
  UNCHANGED helper /\ Finish({r}, IF possible THEN "ok" ELSE "failed")

\* A video frame needs the host and a region that is not empty, and for a texture the
\* subscriber's own, if it had one.  Every early return answers, and returns the texture.
CopyFromCompositingSurfaceHasResultForVideo(r, copy, possible) ==
  LET can == host /\ possible
  IN IF copy = "texture" THEN PrepareTextureCopyOutputResult(r, can /\ texture[r] \notin stale)
     ELSE PrepareBitmapCopyOutputResult(r, can /\ copy = "bitmap")

HasResult(r, copy, possible) ==
  IF ForVideo(r) THEN CopyFromCompositingSurfaceHasResultForVideo(r, copy, possible)
  ELSE IF copy = "texture" THEN PrepareTextureCopyOutputResult(r, possible)
  ELSE PrepareBitmapCopyOutputResult(r, possible /\ copy = "bitmap")

CopyFromCompositingSurfaceHasResult ==
  /\ tasks # <<>> /\ tasks' = Tail(tasks)
  /\ \E possible \in BOOLEAN : HasResult(Head(tasks).request, Head(tasks).copy, possible)
  /\ UNCHANGED <<asked, copy_requests, pending, active, reads, needs, host, single, acked>>

\* The helper's callback (ReadbackQueue).
CopyFromCompositingSurfaceFinished ==
  /\ \E r \in helper, ok \in BOOLEAN :
       helper' = helper \ {r} /\ Finish({r}, IF ok THEN "ok" ELSE "failed")
  /\ UNCHANGED <<asked, copy_requests, pending, active, reads, tasks, needs, host, single, acked>>

Frame == Commit \/ ActivateSyncTree

Return == FinishedReadback \/ CopyFromCompositingSurfaceHasResult \/ CopyFromCompositingSurfaceFinished

Next == Ask \/ DestroyHost \/ Frame \/ CalculateRenderPasses \/ Return \/ ReleaseOutputSurface \/ OnLostResources

Spec == Init /\ [][Next]_vars

\* The scheduler commits, activates and draws as asked, the GPU finishes what it reads
\* and tasks run.  Draws may be aborted for ever.
FairSpec == Spec /\ WF_vars(Frame) /\ WF_vars(CalculateRenderPasses) /\ WF_vars(Return)

-----------------------------------------------------------------------------
(* Properties.                                                             *)

\* Whoever asked is told, once, wherever the request ends.
A == INSTANCE AnswerOnce WITH Requests <- Requests, Answers <- Results, asked <- Asked
EveryCopyIsAnswered == A!LiveSpec

InFlight ==
  ToSet(copy_requests) \cup (pending \ {None}) \cup active \cup reads \cup helper
    \cup {tasks[i].request : i \in DOMAIN tasks}

\* A request is somewhere on the way exactly as long as it has no answer, and in one
\* place: it has a single owner (the scoped_ptr every stage moves on).
OnTheWayUntilAnswered == InFlight = {r \in Asked : answer[r] = None}

\* The pixels of two captures never share a texture: one is idle, or carries one request.
NoTextureTwice ==
  /\ \A r \in Requests : texture[r] # None => texture[r] \notin idle
  /\ \A r, s \in Requests : r # s /\ texture[r] # None => texture[r] # texture[s]

\* At most one capture of the subscriber waits for a commit (delegated_frame_host.cc:333-338).
OneUncommittedCapture ==
  \A i, j \in DOMAIN copy_requests :
    asked[copy_requests[i]] = "subscriber" /\ asked[copy_requests[j]] = "subscriber" => i = j

TypeOK ==
  /\ Asked \subseteq Requests
  /\ \A r \in Asked : asked[r] \in Callers
  /\ answer \in [Requests -> Results \cup {None}]
  /\ \A i \in DOMAIN tasks : tasks[i] \in [request : Requests, copy : Copies]
  /\ idle \subseteq Requests /\ acked \subseteq Asked
  /\ Cardinality(pending \cap Requests) + Cardinality(active) <= Cardinality(Asked)

\* Requests and the textures they carry have one place at a time.
CopiesHaveOnePlace == OnTheWayUntilAnswered /\ NoTextureTwice /\ OneUncommittedCapture

===============================================================================
