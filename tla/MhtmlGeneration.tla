--------------------------- MODULE MhtmlGeneration ---------------------------
(***************************************************************************)
(* Saving a page as MHTML: MHTMLGenerationManager and its Jobs on the      *)
(* browser's UI thread ask one frame after the other to append its part to *)
(* a shared file (mhtml_generation_manager.cc); each RenderFrameImpl       *)
(* writes and answers (render_frame_impl.cc, OnSerializeAsMHTML).          *)
(* Frames may be detached, and processes may die, at any time.             *)
(***************************************************************************)
EXTENDS Integers, Sequences

CONSTANTS
  Frames,      \* frame tree nodes of the page in tree order, main frame first
  Procs,       \* renderer processes
  HostOf,      \* process of each frame
  Resources,   \* URIs a frame may refer to
  Sizes,       \* outcomes of a write: "ok", "short" (some bytes), "error" (-1)
  MaxJobs      \* bound: calls of SaveMHTML

FrameSet == {Frames[i] : i \in DOMAIN Frames}
MainFrame == Frames[1]
None == "none"     \* kFrameTreeNodeInvalidId; no observed process
JobIds == 0 .. MaxJobs - 1

ASSUME MhtmlAssumption ==
  /\ Frames \in Seq(FrameSet) /\ Frames # <<>>
  /\ \A i, j \in DOMAIN Frames : Frames[i] = Frames[j] => i = j
  /\ HostOf \in [FrameSet -> Procs]
  /\ Sizes \subseteq {"ok", "short", "error"}
  /\ MaxJobs \in Nat
  /\ None \notin FrameSet \cup Procs

VARIABLES
  next_job_id,
  id_to_job,   \* live jobs
  results,     \* results[j]: values the callback of job j was run with
  statuses,    \* history: the JobStatus each job finished with
  blamed,      \* processes reported by ReceivedBadMessage
  tree,        \* frames of the browser's frame tree
  frames,      \* frames that exist in their renderer
  alive,       \* live processes
  requests,    \* FrameMsg_SerializeAsMHTML on the way
  responses,   \* FrameHostMsg_SerializeAsMHTMLResponse on the way
  file,        \* file[j]: what was written for job j, in order
  astray       \* a request was sent to a process or frame that is no more

managerVars  == <<next_job_id, id_to_job, results, statuses, blamed>>
rendererVars == <<frames, alive>>
vars == <<next_job_id, id_to_job, results, statuses, blamed, tree, frames,
          alive, requests, responses, file, astray>>

-----------------------------------------------------------------------------
(* The Job.                                                                *)

NewJob(pending) ==
  [pending |-> pending, busy |-> None, observed |-> None, open |-> FALSE,
   digests |-> {}]

\* The constructor visits the tree and queues each frame it finds there.
AddFrame(queue, f) == IF f \in tree THEN Append(queue, f) ELSE queue
PendingFrames ==
  LET Queue[i \in 0 .. Len(Frames)] ==
        IF i = 0 THEN <<>> ELSE AddFrame(Queue[i - 1], Frames[i])
  IN  Queue[Len(Frames)]

IsDone(job) == job.busy = None /\ job.pending = <<>>

\* SendToNextRenderFrame: the job after taking the next frame off the queue.
\* It fails when the frame left the tree; the result of Send is not looked at.
CanSend(job) == Head(job.pending) \in tree
AfterSend(job) ==
  [job EXCEPT !.pending = Tail(@), !.busy = Head(job.pending),
              !.observed = HostOf[Head(job.pending)]]
IsLast(job) == Tail(job.pending) = <<>>
Request(j, job) ==
  [job |-> j, frame |-> Head(job.pending), is_last_frame |-> IsLast(job),
   skip |-> job.digests]
SentTo(f) == HostOf[f] \in alive

\* Send the next request of job j, whose state is `job`.
SendNext(j, job) ==
  LET f == Head(job.pending)
  IN  /\ requests' = (requests \cup
                        IF SentTo(f) THEN {Request(j, job)} ELSE {})
      /\ astray' = (astray \/ ~ SentTo(f))

\* CloseFile answers at once, with 1 for any valid file.
CloseFile(job) == IF job.open THEN 1 ELSE -1

\* OnFileClosed erases and deletes the job after its callback.
Forget(js) == [j \in DOMAIN id_to_job \ js |-> id_to_job[j]]

\* JobFinished and OnFileClosed: run the callbacks, forget the jobs.
Finish(js, job, status) ==
  /\ results' = [j \in JobIds |->
       IF j \in js
         THEN Append(results[j],
                     IF status = "SUCCESS" THEN CloseFile(job[j]) ELSE -1)
         ELSE results[j]]
  /\ statuses' = [j \in JobIds |->
       IF j \in js THEN Append(statuses[j], status) ELSE statuses[j]]
  /\ id_to_job' = Forget(js)

NoCallback == UNCHANGED <<results, statuses>>

-----------------------------------------------------------------------------
Init ==
  /\ next_job_id = 0
  /\ id_to_job = << >>
  /\ results = [j \in JobIds |-> <<>>]
  /\ statuses = [j \in JobIds |-> <<>>]
  /\ blamed = {}
  /\ tree = FrameSet /\ frames = FrameSet
  /\ alive = Procs
  /\ requests = {} /\ responses = {}
  /\ file = [j \in JobIds |-> <<>>]
  /\ astray = FALSE

\* SaveMHTML creates the job and, in this fork, the file on the UI thread.
SaveMHTML(created) ==
  LET j   == next_job_id
      job == NewJob(PendingFrames)
  IN  /\ j < MaxJobs
      /\ next_job_id' = j + 1
      /\ IF created
           THEN /\ id_to_job' = [k \in DOMAIN id_to_job \cup {j} |->
                     IF k = j THEN [AfterSend(job) EXCEPT !.open = TRUE]
                     ELSE id_to_job[k]]
                /\ SendNext(j, job)
                /\ NoCallback
           ELSE /\ Finish({j}, [k \in {j} |-> job], "FAILURE")
                /\ UNCHANGED <<requests, astray>>
      /\ UNCHANGED <<blamed, tree, rendererVars, responses, file>>

\* Digests of what the frame just wrote are not written again.
BugMergeDigests(old, new) == new
MergeDigests(old, new) == old \cup new

\* The job ends with a failure when the renderer or the file failed, or when
\* the next frame is gone; it ends with success after the last frame.
OnSerializeAsMHTMLResponse(m) ==
  /\ m \in responses
  /\ responses' = responses \ {m}
  /\ LET j == m.job
         BadMessage == blamed' = blamed \cup {HostOf[m.frame]}
     IN  \/ /\ j \notin DOMAIN id_to_job
            /\ BadMessage
            /\ NoCallback /\ UNCHANGED <<id_to_job, requests, astray>>
         \/ /\ j \in DOMAIN id_to_job /\ ~ m.success
            /\ Finish({j}, id_to_job, "FAILURE")
            /\ UNCHANGED <<blamed, requests, astray>>
         \/ /\ j \in DOMAIN id_to_job /\ m.success
            /\ m.frame # id_to_job[j].busy
            /\ BadMessage
            /\ Finish({j}, id_to_job, "FAILURE")
            /\ UNCHANGED <<requests, astray>>
         \/ /\ j \in DOMAIN id_to_job /\ m.success
            /\ m.frame = id_to_job[j].busy
            /\ LET job == [id_to_job[j] EXCEPT
                             !.busy = None,
                             !.digests = MergeDigests(@, m.digests)]
               IN  IF IsDone(job)
                     THEN /\ Finish({j}, id_to_job, "SUCCESS")
                          /\ UNCHANGED <<requests, astray>>
                     ELSE IF CanSend(job)
                     THEN /\ id_to_job' = [id_to_job EXCEPT ![j] = AfterSend(job)]
                          /\ SendNext(j, job)
                          /\ NoCallback
                     ELSE /\ Finish({j}, id_to_job, "FAILURE")
                          /\ UNCHANGED <<requests, astray>>
            /\ UNCHANGED blamed
  /\ UNCHANGED <<next_job_id, tree, rendererVars, file>>

\* A renderer dies: what it was sent and what it sent is lost; each job that
\* observes it fails.
BugNoObservers(p) == {}
BugAllObserve(p) == DOMAIN id_to_job
Observers(p) == {j \in DOMAIN id_to_job : id_to_job[j].observed = p}
RenderProcessExited(p) ==
  /\ p \in alive
  /\ alive' = alive \ {p}
  /\ frames' = {f \in frames : HostOf[f] # p}
  /\ requests' = {m \in requests : HostOf[m.frame] # p}
  /\ responses' = {m \in responses : HostOf[m.frame] # p}
  /\ Finish(Observers(p), id_to_job, "FAILURE")
  /\ UNCHANGED <<next_job_id, blamed, tree, file, astray>>

\* The host object of a dead process goes away: the job only stops observing.
RenderProcessHostDestroyed(p) ==
  /\ p \notin alive
  /\ \E j \in DOMAIN id_to_job : id_to_job[j].observed = p
  /\ id_to_job' = [j \in DOMAIN id_to_job |->
       IF id_to_job[j].observed = p
         THEN [id_to_job[j] EXCEPT !.observed = None] ELSE id_to_job[j]]
  /\ UNCHANGED <<next_job_id, results, statuses, blamed, tree, rendererVars,
                 requests, responses, file, astray>>

-----------------------------------------------------------------------------
(* The renderer.                                                           *)

\* shouldSkipResource: the frame leaves out what earlier frames wrote.
Part(kind, f, res, size) ==
  [kind |-> kind, frame |-> f, resources |-> res, size |-> size]

\* Header (main frame), parts, footer (last frame); the first write that fails
\* ends the sequence.  A short write is a success: only < 0 is an error.
Chunks(m, res) ==
  (IF m.frame = MainFrame THEN <<[kind |-> "header", res |-> {}]>> ELSE <<>>)
  \o <<[kind |-> "parts", res |-> res]>>
  \o (IF m.is_last_frame THEN <<[kind |-> "footer", res |-> {}]>> ELSE <<>>)

\* What reaches the file when the writes of the chunks end with `sizes`.
Written(m, res, sizes) ==
  [i \in DOMAIN sizes |->
     Part(Chunks(m, res)[i].kind, m.frame, Chunks(m, res)[i].res, sizes[i])]

\* OnSerializeAsMHTML: choose what the frame refers to and how writing ends.
Outcomes(n) ==
  {s \in UNION {[1 .. k -> Sizes] : k \in 1 .. n} :
     /\ \A i \in 1 .. Len(s) - 1 : s[i] # "error"
     /\ Len(s) < n => s[Len(s)] = "error"}

OnSerializeAsMHTML(m) ==
  /\ m \in requests /\ m.frame \in frames
  /\ requests' = requests \ {m}
  /\ \E refs \in SUBSET Resources :
       LET res == refs \ m.skip
       IN  \E sizes \in Outcomes(Len(Chunks(m, res))) :
             LET success == sizes[Len(sizes)] # "error"
                 whole   == SubSeq(Written(m, res, sizes), 1,
                                   IF success THEN Len(sizes) ELSE Len(sizes) - 1)
                 wrote   == Len(sizes) > 1 \/ success \/ m.frame # MainFrame
             IN  /\ file' = [file EXCEPT ![m.job] = @ \o whole]
                 /\ responses' = responses \cup
                      {[job |-> m.job, frame |-> m.frame, success |-> success,
                        digests |-> IF wrote THEN res ELSE {}]}
  /\ UNCHANGED <<managerVars, tree, rendererVars, astray>>

\* A child frame is removed by script.  A request for it finds no frame; the
\* browser hears of it after every response the frame still sent.
Detach(f) ==
  /\ f \in frames \ {MainFrame}
  /\ frames' = frames \ {f}
  /\ UNCHANGED <<managerVars, tree, alive, requests, responses, file, astray>>

DropRequest(m) ==
  /\ m \in requests /\ m.frame \notin frames
  /\ requests' = requests \ {m}
  /\ astray' = TRUE
  /\ UNCHANGED <<managerVars, tree, rendererVars, responses, file>>

OnDetach(f) ==
  /\ f \in tree \ frames /\ f # MainFrame
  /\ \A m \in responses : m.frame # f
  /\ tree' = tree \ {f}
  /\ UNCHANGED <<managerVars, rendererVars, requests, responses, file, astray>>

-----------------------------------------------------------------------------
Next ==
  \/ \E created \in BOOLEAN : SaveMHTML(created)
  \/ \E m \in responses : OnSerializeAsMHTMLResponse(m)
  \/ \E p \in Procs : RenderProcessExited(p) \/ RenderProcessHostDestroyed(p)
  \/ \E m \in requests : OnSerializeAsMHTML(m) \/ DropRequest(m)
  \/ \E f \in FrameSet : Detach(f) \/ OnDetach(f)

Spec == Init /\ [][Next]_vars

\* Messages are delivered and live frames answer.
FairSpec ==
  /\ Spec
  /\ WF_vars(\E m \in responses : OnSerializeAsMHTMLResponse(m))
  /\ WF_vars(\E m \in requests : OnSerializeAsMHTML(m) \/ DropRequest(m))

-----------------------------------------------------------------------------
(* What a saved page is worth.                                             *)

JobType ==
  [pending : Seq(FrameSet), busy : FrameSet \cup {None},
   observed : Procs \cup {None}, open : BOOLEAN, digests : SUBSET Resources]

\* The variables stay in their types.
TypeOK ==
  /\ next_job_id \in 0 .. MaxJobs
  /\ DOMAIN id_to_job \subseteq JobIds
  /\ \A j \in DOMAIN id_to_job : id_to_job[j] \in JobType
  /\ results \in [JobIds -> Seq(Int)]
  /\ statuses \in [JobIds -> Seq({"SUCCESS", "FAILURE"})]
  /\ blamed \subseteq Procs
  /\ tree \subseteq FrameSet /\ frames \subseteq tree
  /\ alive \subseteq Procs /\ astray \in BOOLEAN

\* A job that reports success has written one header first, then the parts of
\* every frame the page still has, the main frame's first, and one footer last,
\* whatever was detached or died meanwhile.
WholePage(parts) ==
  LET n == Len(parts)
  IN  /\ n > 2 /\ parts[1].kind = "header" /\ parts[n].kind = "footer"
      /\ \A i \in 2 .. n - 1 : parts[i].kind = "parts"
      /\ parts[2].frame = MainFrame
      /\ \A f \in tree : \E i \in 2 .. n - 1 : parts[i].frame = f
SuccessIsWholePage ==
  \A j \in JobIds : \A i \in DOMAIN statuses[j] :
    statuses[j][i] = "SUCCESS" => WholePage(file[j])

\* No resource is in the file for two frames.
NoResourceTwice ==
  \A j \in JobIds : \A i, k \in DOMAIN file[j] :
    i # k => file[j][i].resources \cap file[j][k].resources = {}

\* The file a job reports as saved is the page, each part of it once
\* (mhtml_generation_manager.cc:173-300).
FileIsThePage == TypeOK /\ SuccessIsWholePage /\ NoResourceTwice

\* The renderers of the model follow the protocol: none of them is reported
\* (and killed) for a bad message, however late its answer comes.
NoHonestRendererBlamed == blamed = {}

\* One frame at a time appends to the file of a job: a second request is sent
\* only after the first was answered, and the callback runs once, at the end.
OneWriter ==
  \A j \in JobIds :
    LET writers == {m \in requests \cup responses : m.job = j}
    IN  /\ \A m, n \in writers : m = n
        /\ writers # {} => j \in DOMAIN id_to_job /\ results[j] = <<>>
        /\ j < next_job_id /\ j \notin DOMAIN id_to_job => Len(results[j]) = 1

\* A job and its renderers keep to the protocol: one of them writes at a time, and none is
\* blamed that answered what it was asked (mhtml_generation_manager.cc:173-220, 327-360).
OneHonestWriter == OneWriter /\ NoHonestRendererBlamed

\* A job whose requests all reach a frame runs its callback, also when the
\* renderer it waits for dies.
JobEnds ==
  [](~ astray) =>
    \A j \in JobIds : (next_job_id > j) ~> (results[j] # <<>>)

=============================================================================
