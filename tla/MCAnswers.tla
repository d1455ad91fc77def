------------------------------ MODULE MCAnswers ------------------------------
(***************************************************************************)
(* Small instances of four parts that owe somebody an answer, and of which *)
(* none touches another's state: frames that are swapped for proxies, the  *)
(* frames a renderer sends to its host, requests for a copy of the screen, *)
(* and the readbacks that serve them.  A behaviour follows one of them,    *)
(* named by part; the others rest in their initial states.                 *)
(***************************************************************************)
EXTENDS Integers, Sequences, FiniteSets

CONSTANTS MaxIds, Sizes, MaxOutputs, EmptyFrames, MaxEvents, Requests, Jobs, None

VARIABLES
  part,
  \* FrameLife
  parentLocal, frames, proxies, slot, widgets, toRenderer, toBrowser, node, nextId, lost,
  \* DelegatedFrameHost
  d, use_surfaces, ui, rd, wire, back, events,
  \* CopyOutput
  asked, answer, copy_requests, pending, active, reads, tasks, helper, needs, host, single,
  texture, idle, stale, acked,
  \* ReadbackQueue
  gl_helper, queue, running, started, told, textures, stray

lifeVars     == <<parentLocal, frames, proxies, slot, widgets, toRenderer, toBrowser, node, nextId, lost>>
shownVars    == <<d, use_surfaces, ui, rd, wire, back, events>>
copyVars     == <<asked, answer, copy_requests, pending, active, reads, tasks, helper, needs, host,
                  single, texture, idle, stale, acked>>
readbackVars == <<gl_helper, queue, running, started, told, textures, stray>>

vars == <<part, lifeVars, shownVars, copyVars, readbackVars>>

L == INSTANCE FrameLife WITH host <- node
D == INSTANCE DelegatedFrameHost
C == INSTANCE CopyOutput
Q == INSTANCE ReadbackQueue WITH helper <- gl_helper, asked <- started, answer <- told

ASSUME AnswersAssumption == L!LifeAssumption /\ D!HostAssumption /\ C!CopyAssumption

Init ==
  /\ part \in {"life", "shown", "copy", "readback"}
  /\ L!Init
  /\ part # "life" => parentLocal
  /\ D!Init
  /\ part # "shown" => use_surfaces
  /\ rd.size = CHOOSE s \in Sizes : TRUE   \* sizes are only compared: any will do
  /\ C!Init
  /\ part # "copy" => single
  /\ Q!Init

Life     == part = "life"     /\ L!Next /\ UNCHANGED <<part, shownVars, copyVars, readbackVars>>
Shown    == part = "shown"    /\ D!Next /\ UNCHANGED <<part, lifeVars, copyVars, readbackVars>>
Copy     == part = "copy"     /\ C!Next /\ UNCHANGED <<part, lifeVars, shownVars, readbackVars>>
Readback == part = "readback" /\ Q!Next /\ UNCHANGED <<part, lifeVars, shownVars, copyVars>>

Next == Life \/ Shown \/ Copy \/ Readback

Spec == Init /\ [][Next]_vars

\* The fairness of each part, for the behaviours that follow it.
FairSpec ==
  /\ Spec
  /\ WF_lifeVars(part = "life" /\ L!RendererReceives)
  /\ WF_lifeVars(part = "life" /\ L!BrowserHears)
  /\ WF_shownVars(part = "shown" /\ D!Progress)
  /\ WF_copyVars(part = "copy" /\ C!Frame)
  /\ WF_copyVars(part = "copy" /\ C!CalculateRenderPasses)
  /\ WF_copyVars(part = "copy" /\ C!Return)
  /\ WF_readbackVars(part = "readback" /\ Q!ReadbackDone)
  /\ WF_readbackVars(part = "readback" /\ Q!RunCallback)

-----------------------------------------------------------------------------
(* The properties of the parts.                                            *)

\* The renderer's tree and the browser's, through swaps, detachments and messages that
\* cross.
TreesAgree == L!TypeOK /\ L!TreesAgree

\* Every frame told to swap out is heard of again: it answers, or it was removed.
SwapOutIsAnswered == L!SwapOutIsAnswered

\* Each frame of a renderer is acknowledged once, to the output it came from; resources of
\* an old output never go back under the name of a new one, though those of a new one may
\* under an old one's (delegated_frame_host.cc:539-548); a resize waits only for a frame that
\* was asked for.
FramesGoHome == D!TypeOK /\ D!FramesGoHome

\* Skipped latency information and frames in flight do not wait for ever.
FramesGoOn == D!FramesGoOn

\* A copy request, and a texture, has one owner at a time.
CopiesHaveOnePlace == C!TypeOK /\ C!CopiesHaveOnePlace

\* Readbacks write only into memory that is there, and keep no texture.
MemoryIsSafe == Q!TypeOK /\ Q!MemoryIsSafe

\* The callbacks of copy requests and of readbacks run exactly once.
EachRequestIsAnswered == C!EveryCopyIsAnswered /\ Q!EveryReadbackIsAnswered
=============================================================================
