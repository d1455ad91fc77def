----------------------------- MODULE ReadbackQueue -----------------------------
(***************************************************************************)
(* The GL helper's queue of pixels being read back from the GPU.  The GPU  *)
(* signals a transfer when it is done, in any order; the pixels are copied *)
(* and the callbacks run in the order of the requests, and a callback may  *)
(* ask for more, or destroy the helper it is called from.                  *)
(*                                                                         *)
(* src/src/content/common/gpu/client/gl_helper.cc.  External: the GPU, the *)
(* owner of the helper and the callbacks.  What is drawn into a texture is *)
(* left out; which textures exist is not.                                  *)
(***************************************************************************)
EXTENDS Integers, Sequences, FiniteSets

CONSTANTS Jobs, None

\* A video frame is read by the plain pipeline or by the one with several draw buffers.
Video == {"yuv", "mrt"}
Kinds == {"bitmap", "gray", "plain"} \cup Video
Results == {"ok", "failed"}

VARIABLES
  helper,      \* does the GLHelper exist?
  queue,       \* request_queue_
  running,     \* FinishRequestHelper: finished requests whose callbacks are to run
  asked,       \* jobs started
  answer,      \* what the callback of a job was told
  textures,    \* GL textures that exist, by what they were made for
  \* bookkeeping
  stray        \* pixels were written for a job whose memory is gone

vars == <<helper, queue, running, asked, answer, textures, stray>>

Init ==
  /\ helper = TRUE /\ queue = <<>> /\ running = <<>> /\ asked = {}
  /\ answer = [j \in Jobs |-> None]
  /\ textures = {} /\ stray = FALSE

\* A request; tells its job only if it is the last of the job's planes.
Request(job, plane, final) == [job |-> job, plane |-> plane, final |-> final, done |-> FALSE, result |-> FALSE]

Planes(kind) == IF kind \in Video THEN <<"Y", "U", "V">> ELSE <<"RGB">>

-----------------------------------------------------------------------------
(* Starting a job.                                                         *)

\* The requests of a job; those of the first planes have a callback that does nothing.
BugReadbackPlanes(job, kind) ==
  [i \in DOMAIN Planes(kind) |-> Request(job, Planes(kind)[i], i = 1)]
ReadbackPlanes(job, kind) ==
  [i \in DOMAIN Planes(kind) |-> Request(job, Planes(kind)[i], i = Len(Planes(kind)))]

ReadbackAsync(q, job, kind) == q \o ReadbackPlanes(job, kind)

\* Textures made on the way and deleted again.
ScaleTexture(made) == made \cup {"scaled"}

\* The scaled texture, if there is one, is not needed after this.
EncodeTextureAsGrayscale(made) == (made \cup {"encoded"}) \ {"scaled"}

\* The cheapest scaling is left to the encoding, if there is one.
CropScaleReadbackAndCleanTexture(made, kind, fast) ==
  LET scaled == IF kind = "gray" /\ fast THEN made ELSE ScaleTexture(made)
  IN IF kind = "gray" THEN EncodeTextureAsGrayscale(scaled) \ {"encoded"} ELSE scaled \ {"scaled"}

ConsumeMailboxToTexture(made) == made \cup {"mailbox"}

CropScaleReadbackAndCleanMailbox(made, kind, fast, possible) ==
  LET t == ConsumeMailboxToTexture(made)
  IN (IF possible THEN CropScaleReadbackAndCleanTexture(t, kind, fast) ELSE t) \ {"mailbox"}

\* The scaler and the planes have textures of their own, which live as long as the
\* pipeline.
ReadbackYUV(made) == ConsumeMailboxToTexture(made) \ {"mailbox"}

\* It draws the planes two at a time.
ReadbackYUV_MRT(made) == ConsumeMailboxToTexture(made) \ {"mailbox"}

Textures(kind, fast, possible) ==
  CASE kind \in {"bitmap", "gray"} -> CropScaleReadbackAndCleanMailbox(textures, kind, fast, possible)
    [] kind = "yuv"                -> ReadbackYUV(textures)
    [] kind = "mrt"                -> ReadbackYUV_MRT(textures)
    [] OTHER                       -> textures

\* The colour may not be readable and the target rectangle may lie outside the frame:
\* then there is nothing to wait for.
Start(job, kind, fast, possible) ==
  /\ helper /\ job \notin asked
  /\ asked' = asked \cup {job}
  /\ textures' = Textures(kind, fast, possible)
  /\ IF possible
     THEN queue' = ReadbackAsync(queue, job, kind) /\ UNCHANGED answer
     ELSE answer' = [answer EXCEPT ![job] = "failed"] /\ UNCHANGED queue

\* The owner asks, or a callback that has just run.
Readback ==
  /\ \E job \in Jobs, kind \in Kinds, fast, possible \in BOOLEAN : Start(job, kind, fast, possible)
  /\ UNCHANGED <<helper, running, stray>>

-----------------------------------------------------------------------------
(* Finishing.                                                              *)

\* The requests at the front that are done.
Finished(q) == CHOOSE n \in 0 .. Len(q) : /\ \A i \in 1 .. n : q[i].done
                                          /\ n < Len(q) => ~ q[n + 1].done

Copied(requests, mapped) == [i \in DOMAIN requests |-> [requests[i] EXCEPT !.result = mapped]]

Alive(job) == answer[job] = None

TakeFinished(q) == SubSeq(q, 1, Finished(q))

\* They are popped from the front.
Without(q, taken) == SubSeq(q, Len(taken) + 1, Len(q))

\* The pixels of each are copied if its buffer can be mapped; callbacks come last.
ReadbackDone ==
  /\ running = <<>>
  /\ \E i \in DOMAIN queue, mapped \in BOOLEAN :
       LET q == [queue EXCEPT ![i].done = TRUE]
           taken == TakeFinished(q)
       IN /\ ~ queue[i].done
          /\ queue' = Without(q, taken)
          /\ running' = Copied(taken, mapped)
          /\ stray' = (stray \/ (mapped /\ \E k \in DOMAIN taken : ~ Alive(taken[k].job)))
  /\ UNCHANGED <<helper, asked, answer, textures>>

\* ~CopyTextureToImpl: whatever is still queued is answered, and before anything else.
CancelRequests(rest) == Copied(queue, FALSE) \o rest

Tell(r) ==
  IF r.final
  THEN answer' = [answer EXCEPT ![r.job] = IF r.result THEN "ok" ELSE "failed"]
  ELSE UNCHANGED answer

RunCallback ==
  /\ running # <<>>
  /\ Tell(Head(running)) /\ running' = Tail(running)
  /\ UNCHANGED <<helper, queue, asked, textures, stray>>

\* The owner lets the helper go, or a callback that has just run: the others that were
\* finished with it still run, after those that are cancelled.
Destroy ==
  /\ helper
  /\ helper' = FALSE /\ queue' = <<>> /\ running' = CancelRequests(running)
  /\ UNCHANGED <<asked, answer, textures, stray>>

Next == Readback \/ ReadbackDone \/ RunCallback \/ Destroy

Spec == Init /\ [][Next]_vars

\* The GPU signals every query, or the helper goes.
FairSpec == Spec /\ WF_vars(ReadbackDone) /\ WF_vars(RunCallback)

-----------------------------------------------------------------------------
(* Properties.                                                             *)

\* In either case the callback must be called exactly once (gl_helper.cc:221-222): the
\* queue implements what the asker is promised, also when a callback destroys the helper.
A == INSTANCE AnswerOnce WITH Requests <- Jobs, Answers <- Results
EveryReadbackIsAnswered == A!LiveSpec

\* Pixels are copied only while their memory is there: a video frame lives as long as
\* the callback of its last plane, so no plane may be copied after it (gl_helper.cc:739-740).
WritesIntoLiveMemory == ~ stray

\* A texture outlives no call (gl_helper.cc:221-222, the texture must be deleted).
NoTextureIsKept == textures = {}

TypeOK ==
  /\ helper \in BOOLEAN /\ stray \in BOOLEAN
  /\ \A i \in DOMAIN queue : queue[i].job \in asked
  /\ queue # <<>> => ~ queue[1].done

\* Nothing the helper works on outlives its use, or is used after it.
MemoryIsSafe == WritesIntoLiveMemory /\ NoTextureIsKept

===============================================================================
