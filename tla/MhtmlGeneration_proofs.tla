----------------------- MODULE MhtmlGeneration_proofs -----------------------
(***************************************************************************)
(* Proofs about MhtmlGeneration, for any page, any renderer processes, any *)
(* resources and any number of jobs: a job and its renderers keep to the   *)
(* protocol, and a file that is reported as saved is the page.             *)
(***************************************************************************)
EXTENDS MhtmlGeneration, WellFoundedInduction, SequenceTheorems, TLAPS

RequestType ==
  [job : JobIds, frame : FrameSet, is_last_frame : BOOLEAN, skip : SUBSET Resources]

ResponseType ==
  [job : JobIds, frame : FrameSet, success : BOOLEAN, digests : SUBSET Resources]

PartType ==
  [kind : {"header", "parts", "footer"}, frame : FrameSet,
   resources : SUBSET Resources, size : Sizes]

\* The types of all variables, those of the messages included; the main frame stays.
Typed ==
  /\ TypeOK
  /\ \A m \in requests : m \in RequestType
  /\ \A m \in responses : m \in ResponseType
  /\ file \in [JobIds -> Seq(PartType)]
  /\ MainFrame \in tree

\* A job that is alive waits for one frame, and has told nobody anything.
JobsRun ==
  /\ \A j \in DOMAIN id_to_job :
       /\ j < next_job_id
       /\ id_to_job[j].busy # None
       /\ results[j] = <<>> /\ statuses[j] = <<>>
  /\ \A j \in JobIds :
       IF j < next_job_id
         THEN j \notin DOMAIN id_to_job => Len(results[j]) = 1
         ELSE results[j] = <<>> /\ statuses[j] = <<>> /\ file[j] = <<>>

\* Whoever writes for a job is the frame it waits for, in a live process it observes.
WritersAreAsked ==
  /\ \A m \in requests \cup responses :
       /\ m.job \in DOMAIN id_to_job
       /\ m.frame = id_to_job[m.job].busy
       /\ HostOf[m.frame] \in alive
       /\ id_to_job[m.job].observed = HostOf[m.frame]
  /\ \A m, n \in requests \cup responses : m.job = n.job => m = n
  /\ blamed = {}

Protocol == Typed /\ JobsRun /\ WritersAreAsked
-----------------------------------------------------------------------------
(* The file of a job.                                                      *)

\* Begun and not ended: a header, the main frame's parts and those of other frames.
Opened(parts) ==
  /\ Len(parts) > 1 /\ parts[1].kind = "header" /\ parts[2].frame = MainFrame
  /\ \A i \in 2 .. Len(parts) : parts[i].kind = "parts"

\* The same with its footer.
Closed(parts) ==
  /\ Len(parts) > 2 /\ parts[1].kind = "header" /\ parts[2].frame = MainFrame
  /\ \A i \in 2 .. Len(parts) - 1 : parts[i].kind = "parts"
  /\ parts[Len(parts)].kind = "footer"

Has(parts, f) == \E i \in DOMAIN parts : parts[i].kind = "parts" /\ parts[i].frame = f

Within(parts, digests) == \A i \in DOMAIN parts : parts[i].resources \subseteq digests

Disjoint(parts) ==
  \A i, k \in DOMAIN parts : i # k => parts[i].resources \cap parts[k].resources = {}

Queued(job) == {job.pending[i] : i \in DOMAIN job.pending}

\* Every frame the page still has was written, is being written or will be.
Covered(j, job) ==
  /\ MainFrame \notin Queued(job)
  /\ \A f \in tree : f = job.busy \/ f \in Queued(job) \/ Has(file[j], f)

\* The file as the renderer finds it, and the request it gets with it.
Waiting(j, job) ==
  /\ Within(file[j], job.digests)
  /\ IF job.busy = MainFrame THEN file[j] = <<>> ELSE Opened(file[j])

Asked(m, job) == m.is_last_frame = (job.pending = <<>>) /\ m.skip = job.digests

\* What the renderer made of it.
Answered(j, job, m) ==
  /\ Within(file[j], job.digests \cup m.digests)
  /\ m.success => /\ Has(file[j], m.frame)
                  /\ IF job.pending = <<>> THEN Closed(file[j]) ELSE Opened(file[j])

FilesGrow ==
  /\ \A j \in DOMAIN id_to_job :
       /\ Covered(j, id_to_job[j])
       /\ (\A m \in responses : m.job # j) => Waiting(j, id_to_job[j])
  /\ \A m \in requests : Asked(m, id_to_job[m.job])
  /\ \A m \in responses : Answered(m.job, id_to_job[m.job], m)
  /\ \A j \in JobIds : Disjoint(file[j])

Pages == Protocol /\ FilesGrow /\ SuccessIsWholePage

-----------------------------------------------------------------------------
(* Induction over the natural numbers, in the form of a set that holds 0   *)
(* and the successor of each of its elements.                              *)

LEMMA LeastNatural ==
  ASSUME NEW T, T \subseteq Nat, T # {}
  PROVE  \E n \in T : \A m \in T : n <= m
<1> DEFINE R == OpToRel(<, Nat)
<1>1. IsWellFoundedOn(R, Nat)
  BY NatLessThanWellFounded
<1>2. \A x, y \in Nat : <<y, x>> \in R <=> y < x
  BY DEF OpToRel
<1> HIDE DEF R
<1>3. PICK n \in T : \A m \in T : ~ (<<m, n>> \in R)
  BY <1>1, WFMin
<1>4. \A m \in T : ~ (m < n)
  BY <1>2, <1>3
<1> QED BY <1>4

LEMMA SetInduction ==
  ASSUME NEW T, 0 \in T, \A n \in Nat : n \in T => n + 1 \in T
  PROVE  Nat \subseteq T
<1> DEFINE U == {n \in Nat : n \notin T}
<1> SUFFICES ASSUME U # {} PROVE FALSE
  OBVIOUS
<1>1. PICK m \in U : \A n \in U : m <= n
  <2>1. U \subseteq Nat
    OBVIOUS
  <2> QED BY <2>1, LeastNatural
<1>2. m \in Nat /\ m # 0 /\ m - 1 \in Nat /\ m - 1 \notin U
  BY <1>1
<1>3. (m - 1) + 1 \in T
  BY <1>2
<1> QED BY <1>1, <1>2, <1>3

-----------------------------------------------------------------------------
(* The frames a new job queues.                                            *)

\* The queue after each of the first n frames.
Builds(q, n) ==
  q = [i \in 0 .. n |-> IF i = 0 THEN <<>> ELSE AddFrame(q[i - 1], Frames[i])]

LEMMA QueueSteps ==
  ASSUME NEW q, NEW n \in Nat, Builds(q, n)
  PROVE  q[0] = <<>> /\ \A i \in 1 .. n : q[i] = AddFrame(q[i - 1], Frames[i])
<1> DEFINE e(i) == IF i = 0 THEN <<>> ELSE AddFrame(q[i - 1], Frames[i])
<1>1. q = [i \in 0 .. n |-> e(i)]
  BY DEF Builds
<1> HIDE DEF e
<1>2. \A i \in 0 .. n : q[i] = e(i)
  BY <1>1
<1> QED BY <1>2 DEF e

LEMMA QueueExists == \A n \in Nat : \E q : Builds(q, n)
<1> DEFINE T == {n \in Nat : \E q : Builds(q, n)}
<1>1. 0 \in T
  <2> DEFINE q == [i \in 0 .. 0 |-> <<>>]
  <2>1. q = [i \in 0 .. 0 |-> IF i = 0 THEN <<>> ELSE AddFrame(q[i - 1], Frames[i])]
    OBVIOUS
  <2> HIDE DEF q
  <2> QED BY <2>1 DEF Builds
<1>2. ASSUME NEW n \in Nat, n \in T PROVE n + 1 \in T
  <2>1. PICK q : Builds(q, n)
    BY <1>2
  <2> DEFINE r == [i \in 0 .. n + 1 |->
                     IF i = 0 THEN <<>> ELSE AddFrame(q[i - 1], Frames[i])]
  <2>2. \A i \in 0 .. n : r[i] = q[i]
    BY <2>1, QueueSteps
  <2>3. \A i \in 0 .. n + 1 : i # 0 => AddFrame(q[i - 1], Frames[i]) = AddFrame(r[i - 1], Frames[i])
    <3> TAKE i \in 0 .. n + 1
    <3> HAVE i # 0
    <3>1. i - 1 \in 0 .. n
      OBVIOUS
    <3>2. r[i - 1] = q[i - 1]
      BY <2>2, <3>1
    <3> HIDE DEF r
    <3> QED BY <3>2
  <2>4. r = [i \in 0 .. n + 1 |-> IF i = 0 THEN <<>> ELSE AddFrame(r[i - 1], Frames[i])]
    BY <2>3
  <2> HIDE DEF r
  <2> QED BY <2>4 DEF Builds
<1> HIDE DEF T
<1>3. Nat \subseteq T
  BY <1>1, <1>2, SetInduction
<1> QED BY <1>3 DEF T

Elements(q) == {q[i] : i \in DOMAIN q}

LEMMA HeadAndTail ==
  ASSUME NEW q \in Seq(FrameSet), q # <<>>
  PROVE  Elements(q) = {Head(q)} \cup Elements(Tail(q))
<1>1. \A f \in Elements(q) : f = Head(q) \/ f \in Elements(Tail(q))
  <2> TAKE f \in Elements(q)
  <2>1. PICK i \in DOMAIN q : q[i] = f
    BY DEF Elements
  <2>2. CASE i = 1
    BY <2>1, <2>2
  <2>3. CASE i # 1
    <3>1. i - 1 \in DOMAIN Tail(q) /\ Tail(q)[i - 1] = f
      BY <2>1, <2>3
    <3> QED BY <3>1 DEF Elements
  <2> QED BY <2>2, <2>3
<1>2. Head(q) \in Elements(q)
  BY DEF Elements
<1>3. \A f \in Elements(Tail(q)) : f \in Elements(q)
  <2> TAKE f \in Elements(Tail(q))
  <2>1. PICK i \in DOMAIN Tail(q) : Tail(q)[i] = f
    BY DEF Elements
  <2>2. i + 1 \in DOMAIN q /\ q[i + 1] = f
    BY <2>1
  <2> QED BY <2>2 DEF Elements
<1> QED BY <1>1, <1>2, <1>3

\* A job asks for every frame the page has, the main frame first and only once.
LEMMA PendingIsTree ==
  ASSUME tree \subseteq FrameSet, MainFrame \in tree
  PROVE  /\ PendingFrames \in Seq(FrameSet) /\ PendingFrames # <<>>
         /\ Elements(PendingFrames) = tree
         /\ Head(PendingFrames) = MainFrame
         /\ MainFrame \notin Elements(Tail(PendingFrames))
<1> DEFINE N == Len(Frames)
           Q == CHOOSE q : Builds(q, N)
           Until(n) == {Frames[i] : i \in 1 .. n}
           P(q, n) == /\ q \in Seq(FrameSet)
                      /\ Elements(q) = tree \cap Until(n)
                      /\ n > 0 => /\ q # <<>> /\ Head(q) = MainFrame
                                  /\ MainFrame \notin Elements(Tail(q))
           T == {n \in Nat : n <= N => P(Q[n], n)}
<1>1. /\ N \in Nat /\ N > 0 /\ Frames \in Seq(FrameSet) /\ DOMAIN Frames = 1 .. N
      /\ \A i, j \in 1 .. N : Frames[i] = Frames[j] => i = j
      /\ \A i \in 1 .. N : Frames[i] \in FrameSet
  BY MhtmlAssumption
<1>2. Builds(Q, N)
  BY <1>1, QueueExists
<1>3. PendingFrames = Q[N]
  BY DEF PendingFrames, Builds
<1> HIDE DEF Q, N
<1>4. Q[0] = <<>> /\ \A i \in 1 .. N : Q[i] = AddFrame(Q[i - 1], Frames[i])
  BY <1>1, <1>2, QueueSteps
<1>5. P(Q[0], 0)
  BY <1>4 DEF Elements
<1>6. ASSUME NEW n \in Nat, n + 1 <= N, P(Q[n], n)
      PROVE  P(Q[n + 1], n + 1)
  <2> DEFINE q == Q[n]
             f == Frames[n + 1]
             r == Q[n + 1]
  <2> SUFFICES P(r, n + 1)
    OBVIOUS
  <2>1. r = IF f \in tree THEN Append(q, f) ELSE q
    <3>1. n + 1 \in 1 .. N /\ (n + 1) - 1 = n
      BY <1>1, <1>6
    <3> QED BY <1>4, <3>1 DEF AddFrame
  <2>2. f \in FrameSet /\ Until(n + 1) = Until(n) \cup {f}
    BY <1>1, <1>6
  <2>3. q \in Seq(FrameSet) /\ Elements(q) = tree \cap Until(n)
    BY <1>6
  <2>4. n > 0 => f # MainFrame /\ q # <<>> /\ Head(q) = MainFrame /\ MainFrame \notin Elements(Tail(q))
    BY <1>1, <1>6 DEF MainFrame
  <2>5. n = 0 => f = MainFrame /\ q = <<>> /\ f \in tree
    BY <1>4 DEF MainFrame
  <2> HIDE DEF q, f, r, Until
  <2>6. CASE f \notin tree
    BY <2>1, <2>2, <2>3, <2>4, <2>5, <2>6
  <2>7. CASE f \in tree
    <3>1. r = Append(q, f)
      BY <2>1, <2>7
    <3>2. r \in Seq(FrameSet) /\ r # <<>>
      BY <3>1, <2>2, <2>3
    <3>3. Elements(r) = Elements(q) \cup {f}
      BY <3>1, <2>2, <2>3 DEF Elements
    <3>4. Head(r) = MainFrame /\ MainFrame \notin Elements(Tail(r))
      <4>1. CASE n = 0
        BY <4>1, <2>5, <3>1 DEF Elements
      <4>2. CASE n > 0
        <5>1. Head(r) = Head(q) /\ Tail(r) = Append(Tail(q), f)
          BY <4>2, <2>4, <2>2, <2>3, <3>1, HeadTailAppend
        <5>2. Tail(q) \in Seq(FrameSet)
          BY <4>2, <2>4, <2>3
        <5>3. Elements(Append(Tail(q), f)) = Elements(Tail(q)) \cup {f}
          BY <5>2, <2>2 DEF Elements
        <5> QED BY <4>2, <2>4, <5>1, <5>3
      <4> QED BY <4>1, <4>2
    <3> QED BY <3>2, <3>3, <3>4, <2>2, <2>3, <2>7
  <2> QED BY <2>6, <2>7
<1> HIDE DEF P
<1>7. 0 \in T /\ \A n \in Nat : n \in T => n + 1 \in T
  BY <1>1, <1>5, <1>6
<1>8. N \in T
  BY <1>1, <1>7, SetInduction
<1>9. P(Q[N], N)
  BY <1>1, <1>8
<1>10. Until(N) = FrameSet
  BY <1>1 DEF FrameSet
<1> QED BY <1>1, <1>3, <1>9, <1>10 DEF P

-----------------------------------------------------------------------------
(* The pieces of a step.                                                   *)

LEMMA JobIdsAreNatural == \A j \in JobIds : j \in Nat
  BY MhtmlAssumption DEF JobIds

LEMMA HostsAreProcesses ==
  ASSUME NEW f \in FrameSet
  PROVE  HostOf[f] \in Procs /\ HostOf[f] # None /\ f # None
  BY MhtmlAssumption

LEMMA NextFrame ==
  ASSUME NEW job \in JobType, job.pending # <<>>
  PROVE  /\ Head(job.pending) \in FrameSet
         /\ AfterSend(job) \in JobType
         /\ AfterSend(job).busy = Head(job.pending)
         /\ AfterSend(job).observed = HostOf[Head(job.pending)]
         /\ AfterSend(job).pending = Tail(job.pending)
         /\ AfterSend(job).digests = job.digests
         /\ AfterSend(job).open = job.open
<1>1. Head(job.pending) \in FrameSet /\ Tail(job.pending) \in Seq(FrameSet)
  BY DEF JobType
<1>2. HostOf[Head(job.pending)] \in Procs
  BY <1>1, HostsAreProcesses
<1> QED BY <1>1, <1>2 DEF AfterSend, JobType

\* The jobs that end get one more result; the others stay as they are.
Ended(js, status) ==
  /\ results' \in [JobIds -> Seq(Int)]
  /\ statuses' \in [JobIds -> Seq({"SUCCESS", "FAILURE"})]
  /\ DOMAIN id_to_job' = DOMAIN id_to_job \ js
  /\ \A j \in DOMAIN id_to_job' : id_to_job'[j] = id_to_job[j]
  /\ \A j \in js : /\ Len(results'[j]) = Len(results[j]) + 1
                   /\ statuses'[j] = Append(statuses[j], status)
  /\ \A j \in JobIds \ js : results'[j] = results[j] /\ statuses'[j] = statuses[j]

LEMMA FinishEffect ==
  ASSUME TypeOK, NEW js \in SUBSET JobIds, NEW told \in [js -> Int],
         NEW status \in {"SUCCESS", "FAILURE"},
         results' = [j \in JobIds |-> IF j \in js THEN Append(results[j], told[j])
                                     ELSE results[j]],
         statuses' = [j \in JobIds |-> IF j \in js THEN Append(statuses[j], status)
                                      ELSE statuses[j]],
         id_to_job' = Forget(js)
  PROVE  Ended(js, status)
<1>1. \A j \in JobIds : results[j] \in Seq(Int) /\ statuses[j] \in Seq({"SUCCESS", "FAILURE"})
  BY DEF TypeOK
<1>2. \A j \in js : /\ Append(results[j], told[j]) \in Seq(Int)
                    /\ Len(Append(results[j], told[j])) = Len(results[j]) + 1
  BY <1>1
<1>3. \A j \in JobIds : Append(statuses[j], status) \in Seq({"SUCCESS", "FAILURE"})
  BY <1>1
<1>4. id_to_job' = [j \in DOMAIN id_to_job \ js |-> id_to_job[j]]
  BY DEF Forget
<1> QED BY <1>1, <1>2, <1>3, <1>4 DEF Ended

\* So a live job ends ...
LEMMA FinishLive ==
  ASSUME TypeOK, NEW js \in SUBSET DOMAIN id_to_job, NEW status \in {"SUCCESS", "FAILURE"},
         Finish(js, id_to_job, status)
  PROVE  Ended(js, status)
<1> DEFINE told == [j \in js |-> IF status = "SUCCESS" THEN CloseFile(id_to_job[j]) ELSE -1]
<1>1. told \in [js -> Int]
  BY DEF CloseFile
<1>2. results' = [j \in JobIds |-> IF j \in js THEN Append(results[j], told[j]) ELSE results[j]]
  BY DEF Finish
<1>3. js \in SUBSET JobIds
  BY DEF TypeOK
<1> HIDE DEF told
<1> QED BY <1>1, <1>2, <1>3, FinishEffect DEF Finish

\* ... and one whose file could not be created.
LEMMA FinishNew ==
  ASSUME TypeOK, NEW j \in JobIds, NEW job, Finish({j}, [k \in {j} |-> job], "FAILURE")
  PROVE  Ended({j}, "FAILURE")
<1> DEFINE told == [k \in {j} |-> -1]
<1>1. told \in [{j} -> Int]
  OBVIOUS
<1>2. results' = [k \in JobIds |-> IF k \in {j} THEN Append(results[k], told[k]) ELSE results[k]]
  BY DEF Finish
<1> HIDE DEF told
<1> QED BY <1>1, <1>2, FinishEffect DEF Finish

\* Jobs end whose writers are gone, or go with them.
LEMMA EndKeepsProtocol ==
  ASSUME Protocol,
         NEW js \in SUBSET DOMAIN id_to_job, NEW status \in {"SUCCESS", "FAILURE"},
         Finish(js, id_to_job, status),
         requests' \subseteq requests, responses' \subseteq responses,
         alive' \subseteq alive, frames' \subseteq frames,
         \A m \in requests' \cup responses' : m.job \notin js /\ HostOf[m.frame] \in alive',
         UNCHANGED <<next_job_id, blamed, tree, file, astray>>
  PROVE  Protocol'
<1> USE DEF Protocol
<1>1. js \subseteq JobIds
  BY DEF Typed, TypeOK
<1>2. Ended(js, status)
  BY FinishLive DEF Typed
<1> USE DEF Ended
<1>3. Typed'
  BY <1>2 DEF Typed, TypeOK
<1>4. JobsRun'
  <2>1. \A j \in js : Len(results'[j]) = 1
    <3>1. \A j \in js : results[j] = <<>>
      BY DEF JobsRun
    <3>2. \A j \in js : Len(results[j]) + 1 = 1
      BY <3>1
    <3> QED BY <1>2, <3>2
  <2> QED BY <1>1, <1>2, <2>1 DEF JobsRun, Typed, TypeOK
<1>5. WritersAreAsked'
  BY <1>2 DEF WritersAreAsked
<1> QED BY <1>3, <1>4, <1>5

\* Job j, new or without a writer, asks its next frame.
LEMMA SendKeepsProtocol ==
  ASSUME Protocol,
         NEW j \in JobIds, NEW job \in JobType, job.pending # <<>>,
         NEW next \in JobType,
         next.busy = Head(job.pending), next.observed = HostOf[Head(job.pending)],
         SendNext(j, job),
         id_to_job' = [k \in DOMAIN id_to_job \cup {j} |-> IF k = j THEN next ELSE id_to_job[k]],
         responses' \subseteq responses,
         \A m \in requests \cup responses' : m.job # j,
         j < next_job_id',
         \/ j \in DOMAIN id_to_job /\ next_job_id' = next_job_id
         \/ j = next_job_id /\ next_job_id' = next_job_id + 1,
         UNCHANGED <<results, statuses, blamed, tree, frames, alive, file>>
  PROVE  Protocol'
<1> USE DEF Protocol
<1> DEFINE f == Head(job.pending)
<1>1. f \in FrameSet /\ HostOf[f] # None /\ f # None
  BY NextFrame, HostsAreProcesses
<1>2. DOMAIN id_to_job' = DOMAIN id_to_job \cup {j}
      /\ id_to_job'[j] = next
      /\ \A k \in DOMAIN id_to_job \ {j} : id_to_job'[k] = id_to_job[k]
  OBVIOUS
<1>3. /\ requests' = requests \cup (IF HostOf[f] \in alive THEN {Request(j, job)} ELSE {})
      /\ astray' \in BOOLEAN
  BY DEF SendNext, SentTo, Typed, TypeOK
<1>4. Request(j, job) \in RequestType /\ Request(j, job).job = j /\ Request(j, job).frame = f
  BY <1>1 DEF Request, RequestType, IsLast, JobType
<1> HIDE DEF f
<1>5. Typed'
  <2>1. next_job_id' \in 0 .. MaxJobs
    BY JobIdsAreNatural, MhtmlAssumption DEF Typed, TypeOK, JobIds
  <2> QED BY <1>2, <1>3, <1>4, <2>1 DEF Typed, TypeOK
<1>6. JobsRun'
  <2>1. results[j] = <<>> /\ statuses[j] = <<>>
    BY JobIdsAreNatural DEF JobsRun
  <2>2. next.busy # None
    BY <1>1 DEF f
  <2>3. \A k \in JobIds : k < next_job_id' <=> k < next_job_id \/ k = j
    BY JobIdsAreNatural DEF JobsRun, Typed, TypeOK
  <2>4. \A k \in DOMAIN id_to_job' : k < next_job_id' /\ id_to_job'[k].busy # None
                                     /\ results[k] = <<>> /\ statuses[k] = <<>>
    BY <1>2, <2>1, <2>2, <2>3 DEF JobsRun, Typed, TypeOK
  <2>5. \A k \in JobIds :
          IF k < next_job_id'
            THEN k \notin DOMAIN id_to_job' => Len(results[k]) = 1
            ELSE results[k] = <<>> /\ statuses[k] = <<>> /\ file[k] = <<>>
    BY <1>2, <2>3 DEF JobsRun
  <2> QED BY <2>4, <2>5 DEF JobsRun
<1>7. WritersAreAsked'
  BY <1>2, <1>3, <1>4 DEF WritersAreAsked, f
<1> QED BY <1>5, <1>6, <1>7

-----------------------------------------------------------------------------
(* The writes of a frame.                                                  *)

LEMMA OutcomeShape ==
  ASSUME NEW n \in Nat, NEW s \in Outcomes(n)
  PROVE  /\ s \in Seq(Sizes) /\ Len(s) \in 1 .. n
         /\ \A i \in 1 .. Len(s) - 1 : s[i] # "error"
         /\ s[Len(s)] # "error" => Len(s) = n
<1>1. PICK k \in 1 .. n : s \in [1 .. k -> Sizes]
  BY DEF Outcomes
<1>2. s \in Seq(Sizes) /\ Len(s) = k
  BY <1>1
<1>3. /\ \A i \in 1 .. Len(s) - 1 : s[i] # "error"
      /\ Len(s) < n => s[Len(s)] = "error"
  BY DEF Outcomes
<1> QED BY <1>1, <1>2, <1>3

LEMMA Concatenations ==
  ASSUME NEW S, NEW a \in S, NEW b \in S, NEW c \in S
  PROVE  /\ <<a>> \o <<b>> = <<a, b>> /\ <<a, b>> \o <<c>> = <<a, b, c>>
         /\ <<>> \o <<a>> = <<a>> /\ <<a>> \o <<>> = <<a>> /\ <<a, b>> \o <<>> = <<a, b>>
<1>1. <<a>> \in Seq(S) /\ <<b>> \in Seq(S) /\ <<c>> \in Seq(S) /\ <<a, b>> \in Seq(S)
  OBVIOUS
<1>2. <<a>> \o <<b>> = <<a, b>>
  <2> DEFINE r == <<a>> \o <<b>>
  <2>1. Len(<<a>>) = 1 /\ Len(<<b>>) = 1 /\ <<a>>[1] = a /\ <<b>>[1] = b
    OBVIOUS
  <2>2. r \in Seq(S) /\ Len(r) = 2 /\ r[1] = a /\ r[2] = b
    BY <1>1, <2>1, ConcatProperties
  <2> HIDE DEF r
  <2>3. r = <<a, b>>
    BY <2>2
  <2> QED BY <2>3 DEF r
<1>3. <<a, b>> \o <<c>> = <<a, b, c>>
  <2> DEFINE r == <<a, b>> \o <<c>>
  <2>1. Len(<<a, b>>) = 2 /\ Len(<<c>>) = 1 /\ <<a, b>>[1] = a /\ <<a, b>>[2] = b /\ <<c>>[1] = c
    OBVIOUS
  <2>2. r \in Seq(S) /\ Len(r) = 3 /\ r[1] = a /\ r[2] = b /\ r[3] = c
    BY <1>1, <2>1, ConcatProperties
  <2> HIDE DEF r
  <2>3. r = <<a, b, c>>
    BY <2>2
  <2> QED BY <2>3 DEF r
<1>4. <<>> \o <<a>> = <<a>> /\ <<a>> \o <<>> = <<a>> /\ <<a, b>> \o <<>> = <<a, b>>
  BY <1>1, ConcatEmptySeq
<1> QED BY <1>2, <1>3, <1>4

ChunkType == [kind : {"header", "parts", "footer"}, res : SUBSET Resources]

LEMMA ChunksShape ==
  ASSUME NEW m \in RequestType, NEW res \in SUBSET Resources
  PROVE  /\ Chunks(m, res) \in Seq(ChunkType)
         /\ Len(Chunks(m, res)) = (IF m.frame = MainFrame THEN 2 ELSE 1)
                                  + (IF m.is_last_frame THEN 1 ELSE 0)
         /\ m.frame = MainFrame =>
              Chunks(m, res)[1] = [kind |-> "header", res |-> {}]
         /\ LET n == IF m.frame = MainFrame THEN 2 ELSE 1
            IN  /\ Chunks(m, res)[n] = [kind |-> "parts", res |-> res]
                /\ m.is_last_frame =>
                     Chunks(m, res)[n + 1] = [kind |-> "footer", res |-> {}]
<1> DEFINE header == [kind |-> "header", res |-> {}]
           body == [kind |-> "parts", res |-> res]
           footer == [kind |-> "footer", res |-> {}]
<1>1. header \in ChunkType /\ body \in ChunkType /\ footer \in ChunkType
  BY DEF ChunkType
<1>2. Chunks(m, res) = (IF m.frame = MainFrame THEN <<header>> ELSE <<>>)
                       \o <<body>> \o (IF m.is_last_frame THEN <<footer>> ELSE <<>>)
  BY DEF Chunks
<1> SUFFICES
      /\ Chunks(m, res) \in Seq(ChunkType)
      /\ Len(Chunks(m, res)) = (IF m.frame = MainFrame THEN 2 ELSE 1)
                               + (IF m.is_last_frame THEN 1 ELSE 0)
      /\ m.frame = MainFrame => Chunks(m, res)[1] = header
      /\ LET n == IF m.frame = MainFrame THEN 2 ELSE 1
         IN  /\ Chunks(m, res)[n] = body
             /\ m.is_last_frame => Chunks(m, res)[n + 1] = footer
  OBVIOUS
<1> HIDE DEF header, body, footer
<1>3. CASE m.frame = MainFrame /\ m.is_last_frame
  <2>1. Chunks(m, res) = <<header>> \o <<body>> \o <<footer>>
    BY <1>2, <1>3
  <2>2. Chunks(m, res) = <<header, body, footer>>
    BY <1>1, <2>1, Concatenations
  <2> QED BY <1>1, <1>3, <2>2
<1>4. CASE m.frame = MainFrame /\ ~ m.is_last_frame
  <2>1. Chunks(m, res) = <<header>> \o <<body>> \o <<>>
    BY <1>2, <1>4
  <2>2. Chunks(m, res) = <<header, body>>
    BY <1>1, <2>1, Concatenations
  <2> QED BY <1>1, <1>4, <2>2
<1>5. CASE m.frame # MainFrame /\ m.is_last_frame
  <2>1. Chunks(m, res) = <<>> \o <<body>> \o <<footer>>
    BY <1>2, <1>5
  <2>2. Chunks(m, res) = <<body, footer>>
    BY <1>1, <2>1, Concatenations
  <2> QED BY <1>1, <1>5, <2>2
<1>6. CASE m.frame # MainFrame /\ ~ m.is_last_frame
  <2>1. Chunks(m, res) = <<>> \o <<body>> \o <<>>
    BY <1>2, <1>6
  <2>2. Chunks(m, res) = <<body>>
    BY <1>1, <2>1, Concatenations
  <2> QED BY <1>1, <1>6, <2>2
<1> QED BY <1>3, <1>4, <1>5, <1>6

\* What a frame adds to the file.
LEMMA WrittenShape ==
  ASSUME NEW m \in RequestType, NEW res \in SUBSET Resources,
         NEW sizes \in Outcomes(Len(Chunks(m, res)))
  PROVE  /\ Written(m, res, sizes) \in Seq(PartType)
         /\ Len(Written(m, res, sizes)) = Len(sizes)
         /\ \A i \in 1 .. Len(sizes) :
              Written(m, res, sizes)[i]
                = Part(Chunks(m, res)[i].kind, m.frame, Chunks(m, res)[i].res, sizes[i])
<1> DEFINE n == Len(Chunks(m, res))
           part(i) == Part(Chunks(m, res)[i].kind, m.frame, Chunks(m, res)[i].res, sizes[i])
<1>1. n \in Nat /\ \A i \in 1 .. n : Chunks(m, res)[i] \in ChunkType
  <2>1. Chunks(m, res) \in Seq(ChunkType)
    BY ChunksShape
  <2> QED BY <2>1
<1>2. sizes \in Seq(Sizes) /\ Len(sizes) \in 1 .. n
  BY <1>1, OutcomeShape
<1>3. \A i \in 1 .. Len(sizes) : part(i) \in PartType
  <2> TAKE i \in 1 .. Len(sizes)
  <2>1. Chunks(m, res)[i] \in ChunkType /\ sizes[i] \in Sizes
    BY <1>1, <1>2
  <2> HIDE DEF n
  <2> QED BY <2>1 DEF ChunkType, PartType, Part, RequestType
<1>4. Written(m, res, sizes) = [i \in 1 .. Len(sizes) |-> part(i)]
  BY <1>2 DEF Written
<1> HIDE DEF n, part
<1>5. /\ Written(m, res, sizes) \in Seq(PartType)
      /\ Len(Written(m, res, sizes)) = Len(sizes)
      /\ \A i \in 1 .. Len(sizes) : Written(m, res, sizes)[i] = part(i)
  BY <1>2, <1>3, <1>4
<1> QED BY <1>5 DEF part
\* What a frame's writes leave, however they end.
WrittenPart(parts, m, res, success) ==
  LET n == IF m.frame = MainFrame THEN 2 ELSE 1
  IN  /\ parts \in Seq(PartType)
      /\ Disjoint(parts) /\ Within(parts, res)
      /\ success =>
           /\ Len(parts) = n + (IF m.is_last_frame THEN 1 ELSE 0)
           /\ m.frame = MainFrame => parts[1].kind = "header"
           /\ parts[n].kind = "parts" /\ parts[n].frame = m.frame
           /\ m.is_last_frame => parts[n + 1].kind = "footer"

LEMMA WholeShape ==
  ASSUME NEW m \in RequestType, NEW res \in SUBSET Resources,
         NEW sizes \in Outcomes(Len(Chunks(m, res)))
  PROVE  LET success == sizes[Len(sizes)] # "error"
         IN  WrittenPart(SubSeq(Written(m, res, sizes), 1,
                                IF success THEN Len(sizes) ELSE Len(sizes) - 1),
                         m, res, success)
<1> DEFINE success == sizes[Len(sizes)] # "error"
           last == IF success THEN Len(sizes) ELSE Len(sizes) - 1
           whole == SubSeq(Written(m, res, sizes), 1, last)
           n == IF m.frame = MainFrame THEN 2 ELSE 1
           total == n + (IF m.is_last_frame THEN 1 ELSE 0)
           chunk(i) == Chunks(m, res)[i]
           Shape(w) == /\ Disjoint(w) /\ Within(w, res)
                       /\ success =>
                            /\ Len(w) = total
                            /\ m.frame = MainFrame => w[1].kind = "header"
                            /\ w[n].kind = "parts" /\ w[n].frame = m.frame
                            /\ m.is_last_frame => w[n + 1].kind = "footer"
<1>1. /\ Len(Chunks(m, res)) = total /\ Chunks(m, res) \in Seq(ChunkType)
      /\ m.frame = MainFrame => chunk(1) = [kind |-> "header", res |-> {}]
      /\ chunk(n) = [kind |-> "parts", res |-> res]
      /\ m.is_last_frame => chunk(n + 1) = [kind |-> "footer", res |-> {}]
  BY ChunksShape
<1>2. /\ Len(sizes) \in 1 .. total /\ (success => Len(sizes) = total)
  <2>1. total \in Nat
    OBVIOUS
  <2> QED BY <1>1, <2>1, OutcomeShape
<1>3. /\ Written(m, res, sizes) \in Seq(PartType)
      /\ Len(Written(m, res, sizes)) = Len(sizes)
      /\ \A i \in 1 .. Len(sizes) :
           Written(m, res, sizes)[i] = Part(chunk(i).kind, m.frame, chunk(i).res, sizes[i])
  BY WrittenShape
<1>4. last \in 0 .. Len(sizes) /\ (success => last = total)
  BY <1>2
<1> HIDE DEF last
<1>5. whole \in Seq(PartType) /\ Len(whole) = last
      /\ \A i \in 1 .. last : whole[i] = Written(m, res, sizes)[i]
  BY <1>2, <1>3, <1>4
<1>6. \A i \in 1 .. last : /\ whole[i].kind = chunk(i).kind /\ whole[i].frame = m.frame
                           /\ whole[i].resources = chunk(i).res
  <2> TAKE i \in 1 .. last
  <2>1. whole[i] = Part(chunk(i).kind, m.frame, chunk(i).res, sizes[i])
    BY <1>2, <1>3, <1>4, <1>5
  <2> HIDE DEF whole, chunk
  <2> QED BY <2>1 DEF Part
<1>7. \A i \in 1 .. total : chunk(i).res = (IF i = n THEN res ELSE {})
  <2>1. CASE m.frame = MainFrame /\ m.is_last_frame
    <3>1. \A i \in 1 .. total : i = 1 \/ i = 2 \/ i = 3
      BY <2>1
    <3>2. chunk(1).res = {} /\ chunk(2).res = res /\ chunk(3).res = {} /\ n = 2
      BY <1>1, <2>1
    <3> HIDE DEF chunk
    <3> QED BY <3>1, <3>2
  <2>2. CASE m.frame = MainFrame /\ ~ m.is_last_frame
    <3>1. \A i \in 1 .. total : i = 1 \/ i = 2
      BY <2>2
    <3>2. chunk(1).res = {} /\ chunk(2).res = res /\ n = 2
      BY <1>1, <2>2
    <3> HIDE DEF chunk
    <3> QED BY <3>1, <3>2
  <2>3. CASE m.frame # MainFrame /\ m.is_last_frame
    <3>1. \A i \in 1 .. total : i = 1 \/ i = 2
      BY <2>3
    <3>2. chunk(1).res = res /\ chunk(2).res = {} /\ n = 1
      BY <1>1, <2>3
    <3> HIDE DEF chunk
    <3> QED BY <3>1, <3>2
  <2>4. CASE m.frame # MainFrame /\ ~ m.is_last_frame
    <3>1. \A i \in 1 .. total : i = 1
      BY <2>4
    <3>2. chunk(1).res = res /\ n = 1
      BY <1>1, <2>4
    <3> HIDE DEF chunk
    <3> QED BY <3>1, <3>2
  <2> QED BY <2>1, <2>2, <2>3, <2>4
<1>8. DOMAIN whole = 1 .. last
  BY <1>5
<1> HIDE DEF whole, success, chunk
<1>9. Disjoint(whole) /\ Within(whole, res)
  <2>1. \A i \in 1 .. last : whole[i].resources = (IF i = n THEN res ELSE {})
    BY <1>2, <1>4, <1>6, <1>7
  <2> HIDE DEF n
  <2> QED BY <1>8, <2>1 DEF Disjoint, Within
<1>10. success => Shape(whole)
  BY <1>1, <1>4, <1>5, <1>6, <1>9
<1>11. WrittenPart(whole, m, res, success)
  BY <1>5, <1>9, <1>10 DEF WrittenPart
<1> QED BY <1>11 DEF whole, success, last

-----------------------------------------------------------------------------
(* One writer at a time: every step keeps the protocol.                    *)

LEMMA InitKeeps == ASSUME Init PROVE Protocol
<1>1. Typed
  <2>1. MainFrame \in FrameSet
    BY MhtmlAssumption DEF MainFrame, FrameSet
  <2>2. \A j \in JobIds : <<>> \in Seq(Int) /\ <<>> \in Seq({"SUCCESS", "FAILURE"})
                          /\ <<>> \in Seq(PartType)
    OBVIOUS
  <2>3. DOMAIN id_to_job = {}
    BY DEF Init
  <2>4. TypeOK
    <3>1. next_job_id \in 0 .. MaxJobs
      BY MhtmlAssumption DEF Init
    <3>2. results \in [JobIds -> Seq(Int)] /\ statuses \in [JobIds -> Seq({"SUCCESS", "FAILURE"})]
      BY <2>2 DEF Init
    <3>3. /\ blamed = {} /\ tree = FrameSet /\ frames = FrameSet
          /\ alive = Procs /\ astray = FALSE
      BY DEF Init
    <3> QED BY <2>3, <3>1, <3>2, <3>3 DEF TypeOK
  <2> QED BY <2>1, <2>2, <2>4 DEF Init, Typed
<1>2. JobsRun
  <2>1. \A j \in JobIds : ~ (j < 0)
    BY JobIdsAreNatural
  <2> QED BY <2>1 DEF Init, JobsRun
<1> QED BY <1>1, <1>2 DEF Init, Protocol, WritersAreAsked

\* What SaveMHTML starts with: a fresh job, and nobody writing for it.
LEMMA NewJobShape ==
  ASSUME Protocol, next_job_id < MaxJobs
  PROVE  /\ next_job_id \in JobIds /\ next_job_id \notin DOMAIN id_to_job
         /\ NewJob(PendingFrames) \in JobType
         /\ NewJob(PendingFrames).pending = PendingFrames /\ PendingFrames # <<>>
         /\ \A m \in requests \cup responses : m.job # next_job_id
<1>1. next_job_id \in JobIds
  BY MhtmlAssumption DEF Protocol, Typed, TypeOK, JobIds
<1>2. next_job_id \notin DOMAIN id_to_job
  BY <1>1, JobIdsAreNatural DEF Protocol, JobsRun
<1>3. PendingFrames \in Seq(FrameSet) /\ PendingFrames # <<>>
  BY PendingIsTree DEF Protocol, Typed, TypeOK
<1>4. tree \subseteq FrameSet
  BY DEF Protocol, Typed, TypeOK
<1>5. NewJob(PendingFrames) \in JobType /\ NewJob(PendingFrames).pending = PendingFrames
  BY <1>3 DEF NewJob, JobType
<1> QED BY <1>1, <1>2, <1>3, <1>5 DEF Protocol, WritersAreAsked

LEMMA SaveKeeps ==
  ASSUME Protocol, NEW created \in BOOLEAN, SaveMHTML(created)
  PROVE  Protocol'
<1> DEFINE j == next_job_id
           job == NewJob(PendingFrames)
<1>1. j < MaxJobs /\ next_job_id' = j + 1
  BY DEF SaveMHTML
<1>2. /\ j \in JobIds /\ j \notin DOMAIN id_to_job
      /\ job \in JobType /\ job.pending # <<>>
      /\ \A m \in requests \cup responses : m.job # j
  BY <1>1, NewJobShape
<1>3. UNCHANGED <<blamed, tree, frames, alive, responses, file>>
  BY DEF SaveMHTML, rendererVars
<1>4. CASE created
  <2> DEFINE next == [AfterSend(job) EXCEPT !.open = TRUE]
  <2>1. /\ id_to_job' = [k \in DOMAIN id_to_job \cup {j} |-> IF k = j THEN next ELSE id_to_job[k]]
        /\ SendNext(j, job)
        /\ UNCHANGED <<results, statuses>>
    BY <1>4 DEF SaveMHTML, NoCallback
  <2>2. next \in JobType /\ next.busy = Head(job.pending)
        /\ next.observed = HostOf[Head(job.pending)]
    <3> HIDE DEF job
    <3>1. AfterSend(job) \in JobType
      BY <1>2, NextFrame
    <3> QED BY <1>2, <3>1, NextFrame DEF JobType
  <2>3. j < next_job_id'
    BY <1>1, <1>2, JobIdsAreNatural
  <2> HIDE DEF job, next
  <2>4. j = next_job_id
    OBVIOUS
  <2> HIDE DEF j
  <2> QED BY <1>1, <1>2, <1>3, <2>1, <2>2, <2>3, <2>4, SendKeepsProtocol
<1>5. CASE ~ created
  <2>1. Finish({j}, [k \in {j} |-> job], "FAILURE") /\ UNCHANGED <<requests, astray>>
    BY <1>5 DEF SaveMHTML
  <2>2. Ended({j}, "FAILURE")
    BY <1>2, <2>1, FinishNew DEF Protocol, Typed
  <2>3. DOMAIN id_to_job' = DOMAIN id_to_job
        /\ \A k \in DOMAIN id_to_job : id_to_job'[k] = id_to_job[k]
    BY <1>2, <2>2 DEF Ended
  <2>4. Typed'
    <3>1. next_job_id' \in 0 .. MaxJobs
      BY <1>1, <1>2, JobIdsAreNatural, MhtmlAssumption DEF JobIds
    <3> QED BY <1>3, <2>1, <2>2, <2>3, <3>1 DEF Protocol, Typed, TypeOK, Ended
  <2>5. JobsRun'
    <3>1. \A k \in JobIds : k < j + 1 <=> k < j \/ k = j
      BY <1>2, JobIdsAreNatural
    <3>2. Len(results'[j]) = 1
      <4>1. results[j] = <<>>
        BY <1>2, JobIdsAreNatural DEF Protocol, JobsRun
      <4>2. Len(results[j]) + 1 = 1
        BY <4>1
      <4> QED BY <2>2, <4>2 DEF Ended
    <3>3. \A k \in JobIds \ {j} : results'[k] = results[k] /\ statuses'[k] = statuses[k]
      BY <2>2 DEF Ended
    <3>4. DOMAIN id_to_job \subseteq JobIds \ {j}
      BY <1>2 DEF Protocol, Typed, TypeOK
    <3> HIDE DEF j
    <3>5. \A k \in JobIds : IF k < j
            THEN k \notin DOMAIN id_to_job => Len(results[k]) = 1
            ELSE results[k] = <<>> /\ statuses[k] = <<>> /\ file[k] = <<>>
      BY DEF j, Protocol, JobsRun
    <3>6. \A k \in DOMAIN id_to_job : k < j /\ id_to_job[k].busy # None
                                       /\ results[k] = <<>> /\ statuses[k] = <<>>
      BY DEF j, Protocol, JobsRun
    <3> QED BY <1>1, <1>3, <2>3, <3>1, <3>2, <3>3, <3>4, <3>5, <3>6 DEF JobsRun
  <2>6. WritersAreAsked'
    BY <1>3, <2>1, <2>3 DEF Protocol, WritersAreAsked
  <2> QED BY <2>4, <2>5, <2>6 DEF Protocol
<1> QED BY <1>4, <1>5
LEMMA RequestIsNoResponse == RequestType \cap ResponseType = {}
<1> SUFFICES ASSUME NEW m \in RequestType, m \in ResponseType PROVE FALSE
  OBVIOUS
<1>1. DOMAIN m = {"job", "frame", "is_last_frame", "skip"}
  BY DEF RequestType
<1>2. DOMAIN m = {"job", "frame", "success", "digests"}
  BY DEF ResponseType
<1> QED BY <1>1, <1>2

\* The job after an answer that was asked for.
AfterAnswer(m) ==
  [id_to_job[m.job] EXCEPT !.busy = None, !.digests = MergeDigests(@, m.digests)]

LEMMA AnswerShape ==
  ASSUME Protocol, NEW m \in responses
  PROVE  /\ m.job \in DOMAIN id_to_job /\ m.job \in JobIds /\ m.frame = id_to_job[m.job].busy
         /\ m \in ResponseType
         /\ id_to_job[m.job] \in JobType
         /\ AfterAnswer(m) \in JobType
         /\ AfterAnswer(m).pending = id_to_job[m.job].pending
         /\ AfterAnswer(m).digests = id_to_job[m.job].digests \cup m.digests
         /\ IsDone(AfterAnswer(m)) <=> id_to_job[m.job].pending = <<>>
         /\ \A n \in requests \cup (responses \ {m}) : n.job # m.job
<1>1. m.job \in DOMAIN id_to_job /\ m.job \in JobIds /\ m.frame = id_to_job[m.job].busy
      /\ m \in ResponseType /\ id_to_job[m.job] \in JobType
  BY DEF Protocol, Typed, TypeOK, WritersAreAsked
<1>2. \A n \in requests \cup (responses \ {m}) : n.job # m.job
  <2> SUFFICES ASSUME NEW n \in requests, n.job = m.job PROVE FALSE
    BY DEF Protocol, WritersAreAsked
  <2>1. n = m
    BY DEF Protocol, WritersAreAsked
  <2>2. n \in RequestType /\ m \in ResponseType
    BY DEF Protocol, Typed
  <2> QED BY <2>1, <2>2, RequestIsNoResponse
<1> DEFINE J == id_to_job[m.job]
<1>3. AfterAnswer(m) = [J EXCEPT !.busy = None, !.digests = J.digests \cup m.digests]
  BY <1>1 DEF AfterAnswer, MergeDigests, JobType
<1>4. m.digests \subseteq Resources
  BY <1>1 DEF ResponseType
<1> HIDE DEF J
<1>5. J \in JobType
  BY <1>1 DEF J
<1>6. /\ AfterAnswer(m) \in JobType
      /\ AfterAnswer(m).pending = J.pending
      /\ AfterAnswer(m).busy = None
      /\ AfterAnswer(m).digests = J.digests \cup m.digests
  BY <1>3, <1>4, <1>5 DEF JobType
<1> QED BY <1>1, <1>2, <1>6 DEF J, IsDone

LEMMA ResponseKeeps ==
  ASSUME Protocol, NEW m \in responses, OnSerializeAsMHTMLResponse(m)
  PROVE  Protocol'
<1> DEFINE j == m.job
           job == AfterAnswer(m)
<1>1. /\ j \in DOMAIN id_to_job /\ j \in JobIds /\ m.frame = id_to_job[j].busy
      /\ job \in JobType /\ (IsDone(job) <=> job.pending = <<>>)
      /\ \A n \in requests \cup (responses \ {m}) : n.job # j
  BY AnswerShape
<1>2. responses' = responses \ {m}
      /\ UNCHANGED <<next_job_id, tree, frames, alive, file>>
  BY DEF OnSerializeAsMHTMLResponse, rendererVars
<1>3. ASSUME NEW status \in {"SUCCESS", "FAILURE"}, Finish({j}, id_to_job, status),
             UNCHANGED <<blamed, requests, astray>>
      PROVE  Protocol'
  <2>1. \A n \in requests' \cup responses' : n.job \notin {j} /\ HostOf[n.frame] \in alive'
    BY <1>1, <1>2, <1>3 DEF Protocol, WritersAreAsked
  <2>2. {j} \in SUBSET DOMAIN id_to_job
    BY <1>1
  <2>3. requests' \subseteq requests /\ responses' \subseteq responses
        /\ alive' \subseteq alive /\ frames' \subseteq frames
    BY <1>2, <1>3
  <2> HIDE DEF j
  <2> QED BY <1>2, <1>3, <2>1, <2>2, <2>3, EndKeepsProtocol
<1>4. CASE ~ m.success
  <2>1. Finish({j}, id_to_job, "FAILURE") /\ UNCHANGED <<blamed, requests, astray>>
    BY <1>1, <1>4 DEF OnSerializeAsMHTMLResponse
  <2> QED BY <1>3, <2>1
<1>5. CASE m.success /\ IsDone(job)
  <2>1. Finish({j}, id_to_job, "SUCCESS") /\ UNCHANGED <<blamed, requests, astray>>
    BY <1>1, <1>5 DEF OnSerializeAsMHTMLResponse, AfterAnswer
  <2> QED BY <1>3, <2>1
<1>6. CASE m.success /\ ~ IsDone(job) /\ ~ CanSend(job)
  <2>1. Finish({j}, id_to_job, "FAILURE") /\ UNCHANGED <<blamed, requests, astray>>
    BY <1>1, <1>6 DEF OnSerializeAsMHTMLResponse, AfterAnswer
  <2> QED BY <1>3, <2>1
<1>7. CASE m.success /\ ~ IsDone(job) /\ CanSend(job)
  <2>1. /\ id_to_job' = [id_to_job EXCEPT ![j] = AfterSend(job)]
        /\ SendNext(j, job)
        /\ UNCHANGED <<results, statuses, blamed>>
    BY <1>1, <1>7 DEF OnSerializeAsMHTMLResponse, AfterAnswer, NoCallback
  <2>2. /\ AfterSend(job) \in JobType /\ job.pending # <<>>
        /\ AfterSend(job).busy = Head(job.pending)
        /\ AfterSend(job).observed = HostOf[Head(job.pending)]
    BY <1>1, <1>7, NextFrame
  <2> DEFINE next == AfterSend(job)
  <2> HIDE DEF job
  <2>3. id_to_job' = [k \in DOMAIN id_to_job \cup {j} |-> IF k = j THEN next ELSE id_to_job[k]]
    BY <1>1, <2>1
  <2>4. j < next_job_id' /\ next_job_id' = next_job_id
    BY <1>1, <1>2 DEF Protocol, JobsRun
  <2>5. responses' \subseteq responses /\ \A n \in requests \cup responses' : n.job # j
    BY <1>1, <1>2
  <2> HIDE DEF next, j
  <2>6. next \in JobType /\ next.busy = Head(job.pending)
        /\ next.observed = HostOf[Head(job.pending)]
    BY <2>2 DEF next
  <2> QED BY <1>1, <1>2, <2>1, <2>2, <2>3, <2>4, <2>5, <2>6, SendKeepsProtocol
<1> QED BY <1>4, <1>5, <1>6, <1>7

LEMMA ExitKeeps ==
  ASSUME Protocol, NEW p \in Procs, RenderProcessExited(p)
  PROVE  Protocol'
<1>1. Observers(p) \in SUBSET DOMAIN id_to_job
  BY DEF Observers
<1>2. Finish(Observers(p), id_to_job, "FAILURE")
      /\ UNCHANGED <<next_job_id, blamed, tree, file, astray>>
  BY DEF RenderProcessExited
<1>3. requests' \subseteq requests /\ responses' \subseteq responses
      /\ alive' \subseteq alive /\ frames' \subseteq frames
  BY DEF RenderProcessExited
<1>4. \A m \in requests' \cup responses' :
        m.job \notin Observers(p) /\ HostOf[m.frame] \in alive'
  BY DEF RenderProcessExited, Observers, Protocol, WritersAreAsked
<1> QED BY <1>1, <1>2, <1>3, <1>4, EndKeepsProtocol

LEMMA DestroyedKeeps ==
  ASSUME Protocol, NEW p \in Procs, RenderProcessHostDestroyed(p)
  PROVE  Protocol'
<1>1. DOMAIN id_to_job' = DOMAIN id_to_job
  BY DEF RenderProcessHostDestroyed
<1>2. \A j \in DOMAIN id_to_job :
        /\ id_to_job'[j] \in JobType
        /\ id_to_job'[j].busy = id_to_job[j].busy
        /\ id_to_job[j].observed # p => id_to_job'[j] = id_to_job[j]
  <2> TAKE j \in DOMAIN id_to_job
  <2>1. id_to_job[j] \in JobType
    BY DEF Protocol, Typed, TypeOK
  <2>2. id_to_job'[j] = IF id_to_job[j].observed = p
                          THEN [id_to_job[j] EXCEPT !.observed = None] ELSE id_to_job[j]
    BY DEF RenderProcessHostDestroyed
  <2> QED BY <2>1, <2>2 DEF JobType
<1>3. p \notin alive
      /\ UNCHANGED <<next_job_id, results, statuses, blamed, tree, frames, alive,
                     requests, responses, file, astray>>
  BY DEF RenderProcessHostDestroyed, rendererVars
<1>4. Typed'
  BY <1>1, <1>2, <1>3 DEF Protocol, Typed, TypeOK
<1>5. JobsRun'
  BY <1>1, <1>2, <1>3 DEF Protocol, JobsRun
<1>6. WritersAreAsked'
  BY <1>1, <1>2, <1>3 DEF Protocol, WritersAreAsked
<1> QED BY <1>4, <1>5, <1>6 DEF Protocol
\* What the renderer answers to a request, having written the chunks `parts`.
Reply(m, success, digests) ==
  [job |-> m.job, frame |-> m.frame, success |-> success, digests |-> digests]

LEMMA SerializeShape ==
  ASSUME Protocol, NEW m \in requests, OnSerializeAsMHTML(m)
  PROVE  \E success \in BOOLEAN, res \in SUBSET Resources, digests \in SUBSET Resources,
            whole \in Seq(PartType) :
           /\ WrittenPart(whole, m, res, success) /\ res \cap m.skip = {}
           /\ whole # <<>> => digests = res
           /\ file' = [file EXCEPT ![m.job] = @ \o whole]
           /\ responses' = responses \cup {Reply(m, success, digests)}
<1> DEFINE Wrote(res, sizes) ==
      LET success == sizes[Len(sizes)] # "error"
          whole == SubSeq(Written(m, res, sizes), 1,
                          IF success THEN Len(sizes) ELSE Len(sizes) - 1)
          wrote == Len(sizes) > 1 \/ success \/ m.frame # MainFrame
      IN  /\ file' = [file EXCEPT ![m.job] = @ \o whole]
          /\ responses' = responses \cup {Reply(m, success, IF wrote THEN res ELSE {})}
<1>0. PICK refs \in SUBSET Resources :
        \E sizes \in Outcomes(Len(Chunks(m, refs \ m.skip))) : Wrote(refs \ m.skip, sizes)
  BY DEF OnSerializeAsMHTML, Reply
<1>1. PICK sizes \in Outcomes(Len(Chunks(m, refs \ m.skip))) : Wrote(refs \ m.skip, sizes)
  BY <1>0
<1> DEFINE res == refs \ m.skip
           success == sizes[Len(sizes)] # "error"
           last == IF success THEN Len(sizes) ELSE Len(sizes) - 1
           whole == SubSeq(Written(m, res, sizes), 1, last)
           wrote == Len(sizes) > 1 \/ success \/ m.frame # MainFrame
           digests == IF wrote THEN res ELSE {}
<1>2. m \in RequestType
  BY DEF Protocol, Typed
<1>3. res \in SUBSET Resources /\ digests \in SUBSET Resources /\ res \cap m.skip = {}
  OBVIOUS
<1>4. /\ Chunks(m, res) \in Seq(ChunkType)
      /\ Written(m, res, sizes) \in Seq(PartType)
      /\ Len(Written(m, res, sizes)) = Len(sizes)
  <2>1. Chunks(m, res) \in Seq(ChunkType)
    BY <1>2, <1>3, ChunksShape
  <2>2. sizes \in Outcomes(Len(Chunks(m, res)))
    OBVIOUS
  <2> QED BY <1>2, <1>3, <2>1, <2>2, WrittenShape
<1>5. Len(sizes) \in Nat /\ Len(sizes) > 0
  <2>1. Len(Chunks(m, res)) \in Nat
    BY <1>4
  <2> QED BY <2>1, OutcomeShape
<1>6. whole \in Seq(PartType) /\ Len(whole) = last
  BY <1>4, <1>5
<1>7. whole # <<>> => digests = res
  <2>1. whole # <<>> => Len(sizes) > 1 \/ success
    BY <1>5, <1>6
  <2> QED BY <2>1
<1>8. /\ file' = [file EXCEPT ![m.job] = @ \o whole]
      /\ responses' = responses \cup {Reply(m, success, digests)}
  BY <1>1
<1>9. WrittenPart(whole, m, res, success)
  BY <1>2, <1>3, WholeShape
<1> HIDE DEF res, digests, whole
<1> QED BY <1>3, <1>6, <1>7, <1>8, <1>9

LEMMA SerializeKeeps ==
  ASSUME Protocol, NEW m \in requests, OnSerializeAsMHTML(m)
  PROVE  Protocol'
<1>1. PICK success \in BOOLEAN, digests \in SUBSET Resources, whole \in Seq(PartType) :
        /\ file' = [file EXCEPT ![m.job] = @ \o whole]
        /\ responses' = responses \cup {Reply(m, success, digests)}
  BY SerializeShape
<1>2. requests' = requests \ {m}
      /\ UNCHANGED <<next_job_id, id_to_job, results, statuses, blamed, tree, frames, alive, astray>>
  BY DEF OnSerializeAsMHTML, managerVars, rendererVars
<1> DEFINE r == Reply(m, success, digests)
<1>3. m \in RequestType /\ m.job \in DOMAIN id_to_job /\ m.job \in JobIds
  BY DEF Protocol, Typed, TypeOK, WritersAreAsked
<1>4. r \in ResponseType /\ r.job = m.job /\ r.frame = m.frame
  BY <1>3 DEF Reply, RequestType, ResponseType
<1>5. file[m.job] \in Seq(PartType) /\ file[m.job] \o whole \in Seq(PartType)
  BY <1>3 DEF Protocol, Typed
<1> HIDE DEF r
<1>6. Typed'
  BY <1>1, <1>2, <1>4, <1>5 DEF r, Protocol, Typed, TypeOK
<1>7. JobsRun'
  <2>1. m.job < next_job_id
    BY <1>3 DEF Protocol, JobsRun
  <2>2. \A j \in JobIds : j < next_job_id \/ file'[j] = file[j]
    BY <1>1, <2>1 DEF Protocol, Typed
  <2> QED BY <1>2, <2>2 DEF Protocol, JobsRun
<1>8. WritersAreAsked'
  <2>1. \A n \in (requests \ {m}) \cup responses : n.job # m.job
    BY <1>3, RequestIsNoResponse DEF Protocol, Typed, WritersAreAsked
  <2>2. requests' = requests \ {m} /\ responses' = responses \cup {r}
    BY <1>1, <1>2 DEF r
  <2> QED BY <1>2, <1>4, <2>1, <2>2 DEF Protocol, WritersAreAsked
<1> QED BY <1>6, <1>7, <1>8 DEF Protocol

LEMMA FrameStepKeeps ==
  ASSUME Protocol, NEW f \in FrameSet, Detach(f) \/ OnDetach(f)
  PROVE  Protocol'
<1>1. UNCHANGED <<next_job_id, id_to_job, results, statuses, blamed, alive,
                  requests, responses, file, astray>>
  BY DEF Detach, OnDetach, managerVars, rendererVars
<1>2. tree' \subseteq tree /\ frames' \subseteq tree' /\ MainFrame \in tree'
  BY DEF Detach, OnDetach, rendererVars, Protocol, Typed, TypeOK
<1>3. frames' \subseteq frames
  BY DEF Detach, OnDetach, rendererVars
<1>4. Typed'
  BY <1>1, <1>2 DEF Protocol, Typed, TypeOK
<1>5. JobsRun' /\ WritersAreAsked'
  BY <1>1 DEF Protocol, JobsRun, WritersAreAsked
<1> QED BY <1>4, <1>5 DEF Protocol

LEMMA DropKeeps ==
  ASSUME Protocol, NEW m \in requests, DropRequest(m)
  PROVE  Protocol'
<1>1. UNCHANGED <<next_job_id, id_to_job, results, statuses, blamed, tree, frames, alive,
                  responses, file>>
      /\ requests' \subseteq requests /\ astray' = TRUE
  BY DEF DropRequest, managerVars, rendererVars
<1> QED BY <1>1 DEF Protocol, Typed, TypeOK, JobsRun, WritersAreAsked

LEMMA NextKeeps == Protocol /\ [Next]_vars => Protocol'
<1> SUFFICES ASSUME Protocol, [Next]_vars PROVE Protocol'
  OBVIOUS
<1>1. CASE \E created \in BOOLEAN : SaveMHTML(created)
  BY <1>1, SaveKeeps
<1>2. CASE \E m \in responses : OnSerializeAsMHTMLResponse(m)
  BY <1>2, ResponseKeeps
<1>3. CASE \E p \in Procs : RenderProcessExited(p) \/ RenderProcessHostDestroyed(p)
  BY <1>3, ExitKeeps, DestroyedKeeps
<1>4. CASE \E m \in requests : OnSerializeAsMHTML(m) \/ DropRequest(m)
  BY <1>4, SerializeKeeps, DropKeeps
<1>5. CASE \E f \in FrameSet : Detach(f) \/ OnDetach(f)
  BY <1>5, FrameStepKeeps
<1>6. CASE UNCHANGED vars
  BY <1>6 DEF vars, Protocol, Typed, TypeOK, JobsRun, WritersAreAsked
<1> QED BY <1>1, <1>2, <1>3, <1>4, <1>5, <1>6 DEF Next

\* At most one frame at a time is asked for, or writes, the part of a job; the
\* callback of each job is run once; and no renderer that only answers what it was
\* asked is blamed (mhtml_generation_manager.cc:173-220, 327-360).
THEOREM WritersTakeTurns == Spec => []OneHonestWriter
<1>1. Init => Protocol
  BY InitKeeps
<1>2. Protocol => OneHonestWriter
  <2> SUFFICES ASSUME Protocol PROVE OneWriter /\ blamed = {}
    BY DEF OneHonestWriter, NoHonestRendererBlamed
  <2>1. blamed = {}
    BY DEF Protocol, WritersAreAsked
  <2>2. OneWriter
    BY DEF Protocol, JobsRun, WritersAreAsked, OneWriter
  <2> QED BY <2>1, <2>2
<1> QED BY <1>1, <1>2, NextKeeps, PTL DEF Spec
-----------------------------------------------------------------------------
(* The pages: every step keeps what is known of the files.                 *)

\* A part appended to a file.
LEMMA Appended ==
  ASSUME NEW old \in Seq(PartType), NEW parts \in Seq(PartType)
  PROVE  /\ old \o parts \in Seq(PartType)
         /\ Len(old \o parts) = Len(old) + Len(parts)
         /\ \A i \in 1 .. Len(old) : (old \o parts)[i] = old[i]
         /\ \A i \in 1 .. Len(parts) : (old \o parts)[Len(old) + i] = parts[i]
         /\ \A i \in 1 .. Len(old) + Len(parts) :
              \/ i \in 1 .. Len(old) /\ (old \o parts)[i] = old[i]
              \/ \E k \in 1 .. Len(parts) : i = Len(old) + k /\ (old \o parts)[i] = parts[k]
<1>1. Len(old) \in Nat /\ Len(parts) \in Nat
  OBVIOUS
<1>2. /\ old \o parts \in Seq(PartType)
      /\ Len(old \o parts) = Len(old) + Len(parts)
      /\ \A i \in 1 .. Len(old) + Len(parts) : (old \o parts)[i] =
                     IF i <= Len(old) THEN old[i] ELSE parts[i - Len(old)]
  BY ConcatProperties
<1> DEFINE new == old \o parts
           a == Len(old)
           b == Len(parts)
<1> HIDE DEF new, a, b
<1>3. /\ a \in Nat /\ b \in Nat
      /\ \A i \in 1 .. a + b : new[i] = IF i <= a THEN old[i] ELSE parts[i - a]
  BY <1>1, <1>2 DEF new, a, b
<1>4. \A i \in 1 .. a : new[i] = old[i]
  BY <1>3
<1>5. \A i \in 1 .. b : new[a + i] = parts[i]
  <2> TAKE i \in 1 .. b
  <2>1. a + i \in 1 .. a + b /\ ~ (a + i <= a) /\ (a + i) - a = i
    BY <1>3
  <2> QED BY <1>3, <2>1
<1>6. \A i \in 1 .. a + b :
        \/ i \in 1 .. a /\ new[i] = old[i]
        \/ \E k \in 1 .. b : i = a + k /\ new[i] = parts[k]
  <2> TAKE i \in 1 .. a + b
  <2>1. CASE i <= a
    BY <1>3, <2>1
  <2>2. CASE ~ (i <= a)
    <3>1. i - a \in 1 .. b /\ i = a + (i - a)
      BY <1>3, <2>2
    <3> QED BY <1>3, <2>2, <3>1
  <2> QED BY <2>1, <2>2
<1> QED BY <1>2, <1>4, <1>5, <1>6 DEF new, a, b

\* A file that is open, and the part of the frame that was asked for, make a file
\* that is open, or closed by the last frame.
LEMMA FileGrows ==
  ASSUME NEW old \in Seq(PartType), NEW m \in RequestType, NEW res \in SUBSET Resources,
         NEW success \in BOOLEAN, NEW parts, WrittenPart(parts, m, res, success),
         res \cap m.skip = {},
         Disjoint(old), Within(old, m.skip),
         IF m.frame = MainFrame THEN old = <<>> ELSE Opened(old)
  PROVE  /\ Disjoint(old \o parts)
         /\ Within(old \o parts, m.skip \cup res)
         /\ parts = <<>> => Within(old \o parts, m.skip)
         /\ \A f : Has(old, f) => Has(old \o parts, f)
         /\ success => /\ Has(old \o parts, m.frame)
                       /\ IF m.is_last_frame THEN Closed(old \o parts) ELSE Opened(old \o parts)
<1> DEFINE new == old \o parts
           n == IF m.frame = MainFrame THEN 2 ELSE 1
<1>1. parts \in Seq(PartType) /\ Disjoint(parts) /\ Within(parts, res)
  BY DEF WrittenPart
<1>2. /\ new \in Seq(PartType) /\ Len(new) = Len(old) + Len(parts)
      /\ \A i \in 1 .. Len(old) : new[i] = old[i]
      /\ \A i \in 1 .. Len(parts) : new[Len(old) + i] = parts[i]
      /\ \A i \in 1 .. Len(old) + Len(parts) :
           \/ i \in 1 .. Len(old) /\ new[i] = old[i]
           \/ \E k \in 1 .. Len(parts) : i = Len(old) + k /\ new[i] = parts[k]
  BY <1>1, Appended
<1>3. /\ DOMAIN new = 1 .. Len(old) + Len(parts) /\ DOMAIN old = 1 .. Len(old)
      /\ DOMAIN parts = 1 .. Len(parts) /\ Len(old) \in Nat /\ Len(parts) \in Nat
  BY <1>1, <1>2
<1> HIDE DEF new
<1>4. Within(new, m.skip \cup res) /\ (parts = <<>> => Within(new, m.skip))
  <2>1. \A i \in DOMAIN old : old[i].resources \subseteq m.skip
    BY DEF Within
  <2>2. \A i \in DOMAIN parts : parts[i].resources \subseteq res
    BY <1>1 DEF Within
  <2>3. \A i \in DOMAIN new : \/ \E x \in DOMAIN old : new[i] = old[x]
                              \/ \E x \in DOMAIN parts : new[i] = parts[x]
    BY <1>2, <1>3
  <2>4. parts = <<>> => DOMAIN parts = {}
    OBVIOUS
  <2> QED BY <2>1, <2>2, <2>3, <2>4 DEF Within
<1>5. Disjoint(new)
  <2> SUFFICES ASSUME NEW i \in DOMAIN new, NEW k \in DOMAIN new, i # k
               PROVE  new[i].resources \cap new[k].resources = {}
    BY DEF Disjoint
  <2>1. \A x \in DOMAIN old, y \in DOMAIN parts : old[x].resources \cap parts[y].resources = {}
    BY <1>1 DEF Within
  <2>2. \/ i \in DOMAIN old /\ new[i] = old[i]
        \/ \E x \in DOMAIN parts : i = Len(old) + x /\ new[i] = parts[x]
    BY <1>2, <1>3
  <2>3. \/ k \in DOMAIN old /\ new[k] = old[k]
        \/ \E x \in DOMAIN parts : k = Len(old) + x /\ new[k] = parts[x]
    BY <1>2, <1>3
  <2>4. \A x, y \in DOMAIN old : x # y => old[x].resources \cap old[y].resources = {}
    BY DEF Disjoint
  <2>5. \A x, y \in DOMAIN parts : x # y => parts[x].resources \cap parts[y].resources = {}
    BY <1>1 DEF Disjoint
  <2> QED BY <2>1, <2>2, <2>3, <2>4, <2>5
<1>6. \A f : Has(old, f) => Has(new, f)
  <2> SUFFICES ASSUME NEW f, NEW i \in DOMAIN old, old[i].kind = "parts", old[i].frame = f
               PROVE  Has(new, f)
    BY DEF Has
  <2>1. i \in DOMAIN new /\ new[i] = old[i]
    BY <1>2, <1>3
  <2> QED BY <2>1 DEF Has
<1>7. ASSUME success
      PROVE  /\ Has(new, m.frame)
             /\ IF m.is_last_frame THEN Closed(new) ELSE Opened(new)
  <2>1. /\ Len(parts) = n + (IF m.is_last_frame THEN 1 ELSE 0)
        /\ m.frame = MainFrame => parts[1].kind = "header"
        /\ parts[n].kind = "parts" /\ parts[n].frame = m.frame
        /\ m.is_last_frame => parts[n + 1].kind = "footer"
    BY <1>7 DEF WrittenPart
  <2>2. Has(new, m.frame)
    <3>1. n \in 1 .. Len(parts) /\ Len(old) + n \in DOMAIN new
      BY <1>3, <2>1
    <3>2. new[Len(old) + n] = parts[n]
      BY <1>2, <3>1
    <3> QED BY <2>1, <3>1, <3>2 DEF Has
  <2>3. CASE m.frame = MainFrame
    <3>1. old = <<>> /\ Len(old) = 0 /\ n = 2
      BY <2>3
    <3>2. new[1] = parts[1] /\ new[2] = parts[2] /\ (m.is_last_frame => new[3] = parts[3])
          /\ Len(new) = (IF m.is_last_frame THEN 3 ELSE 2)
      BY <1>2, <1>3, <2>1, <3>1
    <3>3. /\ new[1].kind = "header" /\ new[2].kind = "parts" /\ new[2].frame = MainFrame
          /\ m.is_last_frame => new[3].kind = "footer"
      BY <2>1, <2>3, <3>1, <3>2
    <3>4. CASE m.is_last_frame
      <4>1. Len(new) = 3 /\ \A i \in 2 .. 3 - 1 : i = 2
        BY <3>2, <3>4
      <4> QED BY <2>2, <3>3, <3>4, <4>1 DEF Closed
    <3>5. CASE ~ m.is_last_frame
      <4>1. Len(new) = 2 /\ \A i \in 2 .. 2 : i = 2
        BY <3>2, <3>5
      <4> QED BY <2>2, <3>3, <3>5, <4>1 DEF Opened
    <3> QED BY <3>4, <3>5
  <2>4. CASE m.frame # MainFrame
    <3>1. n = 1 /\ Len(old) > 1 /\ old[1].kind = "header" /\ old[2].frame = MainFrame
          /\ \A i \in 2 .. Len(old) : old[i].kind = "parts"
      BY <2>4 DEF Opened
    <3>2. new[1] = old[1] /\ new[2] = old[2] /\ new[Len(old) + 1] = parts[1]
          /\ (m.is_last_frame => new[Len(old) + 2] = parts[2])
      BY <1>2, <1>3, <2>1, <3>1
    <3>3. \A i \in 2 .. Len(old) + 1 : new[i].kind = "parts"
      <4> TAKE i \in 2 .. Len(old) + 1
      <4>1. i \in 2 .. Len(old) \/ i = Len(old) + 1
        BY <1>3
      <4>2. i \in 2 .. Len(old) => new[i] = old[i]
        BY <1>2, <1>3
      <4> QED BY <2>1, <3>1, <3>2, <4>1, <4>2
    <3>4. CASE m.is_last_frame
      <4>1. Len(new) = Len(old) + 2 /\ (Len(old) + 2) - 1 = Len(old) + 1
        BY <1>2, <1>3, <2>1, <3>1, <3>4
      <4>2. parts[2].kind = "footer"
        BY <2>1, <3>1, <3>4
      <4> QED BY <1>3, <2>2, <3>1, <3>2, <3>3, <3>4, <4>1, <4>2 DEF Closed
    <3>5. CASE ~ m.is_last_frame
      <4>1. Len(new) = Len(old) + 1
        BY <1>2, <1>3, <2>1, <3>1, <3>5
      <4> QED BY <1>3, <2>2, <3>1, <3>2, <3>3, <3>5, <4>1 DEF Opened
    <3> QED BY <3>4, <3>5
  <2> QED BY <2>3, <2>4
<1> QED BY <1>4, <1>5, <1>6, <1>7 DEF new

\* A file that was closed for a frame it has, with all others before it, is the page.
LEMMA ClosedIsWhole ==
  ASSUME NEW parts \in Seq(PartType), Closed(parts), \A f \in tree : Has(parts, f)
  PROVE  WholePage(parts)
<1> DEFINE n == Len(parts)
<1>1. n \in Nat /\ n > 2 /\ DOMAIN parts = 1 .. n
  BY DEF Closed
<1>2. \A f \in tree : \E i \in 2 .. n - 1 : parts[i].frame = f
  <2> TAKE f \in tree
  <2>1. PICK i \in 1 .. n : parts[i].kind = "parts" /\ parts[i].frame = f
    BY <1>1 DEF Has
  <2>2. i # 1 /\ i # n
    BY <2>1 DEF Closed
  <2> HIDE DEF n
  <2>3. i \in 2 .. n - 1
    BY <1>1, <2>2
  <2> QED BY <2>1, <2>3
<1> QED BY <1>1, <1>2 DEF Closed, WholePage

\* Jobs end: what is known of the others stays, and so do their files.
LEMMA EndKeepsFiles ==
  ASSUME Pages,
         NEW js \in SUBSET DOMAIN id_to_job, NEW status \in {"SUCCESS", "FAILURE"},
         Finish(js, id_to_job, status),
         requests' \subseteq requests, responses' \subseteq responses,
         \A m \in responses \ responses' : m.job \in js,
         \A m \in requests' \cup responses' : m.job \notin js,
         UNCHANGED <<tree, file>>,
         status = "SUCCESS" => \A j \in js : WholePage(file[j])
  PROVE  FilesGrow' /\ SuccessIsWholePage'
<1>1. Ended(js, status)
  BY FinishLive DEF Pages, Protocol, Typed
<1>2. \A m \in requests \cup responses : m.job \in DOMAIN id_to_job
  BY DEF Pages, Protocol, WritersAreAsked
<1>3. FilesGrow'
  <2>1. \A j \in DOMAIN id_to_job' : j \in DOMAIN id_to_job /\ j \notin js
                                     /\ id_to_job'[j] = id_to_job[j]
    BY <1>1 DEF Ended
  <2>2. \A j \in DOMAIN id_to_job' : Covered(j, id_to_job[j])'
    BY <2>1 DEF Pages, FilesGrow, Covered
  <2>3. ASSUME NEW j \in DOMAIN id_to_job', \A m \in responses' : m.job # j
        PROVE  Waiting(j, id_to_job[j])'
    <3>1. \A m \in responses : m.job # j
      BY <2>1, <2>3
    <3>2. Waiting(j, id_to_job[j])
      BY <2>1, <3>1 DEF Pages, FilesGrow
    <3> QED BY <2>1, <3>2 DEF Waiting
  <2>4. \A m \in requests' \cup responses' :
           m.job \in DOMAIN id_to_job' /\ id_to_job'[m.job] = id_to_job[m.job]
    BY <1>1, <1>2, <2>1 DEF Ended
  <2>5. \A m \in requests' : Asked(m, id_to_job'[m.job])
    BY <2>4 DEF Pages, FilesGrow
  <2>6. \A m \in responses' : Answered(m.job, id_to_job[m.job], m)'
    BY <2>4 DEF Pages, FilesGrow, Answered
  <2> QED BY <2>1, <2>2, <2>3, <2>5, <2>6 DEF Pages, FilesGrow, Covered, Asked
<1>4. SuccessIsWholePage'
  <2> SUFFICES ASSUME NEW j \in JobIds, NEW i \in DOMAIN statuses'[j],
                      statuses'[j][i] = "SUCCESS"
               PROVE  WholePage(file[j])
    BY DEF SuccessIsWholePage, WholePage
  <2>1. CASE j \notin js
    <3>1. statuses'[j] = statuses[j]
      BY <1>1, <2>1 DEF Ended
    <3> QED BY <3>1 DEF Pages, SuccessIsWholePage
  <2>2. CASE j \in js
    <3>1. statuses[j] = <<>>
      BY <2>2 DEF Pages, Protocol, JobsRun
    <3>2. statuses'[j] = Append(<<>>, status)
      BY <1>1, <2>2, <3>1 DEF Ended
    <3>3. status = "SUCCESS"
      BY <3>2
    <3> QED BY <2>2, <3>3
  <2> QED BY <2>1, <2>2
<1> QED BY <1>3, <1>4

\* A job asks its next frame: its file is empty, or open.
LEMMA SendKeepsFiles ==
  ASSUME Pages,
         NEW j \in JobIds, NEW job \in JobType, job.pending # <<>>,
         NEW next \in JobType,
         next.busy = Head(job.pending), next.pending = Tail(job.pending),
         next.digests = job.digests,
         SendNext(j, job),
         id_to_job' = [k \in DOMAIN id_to_job \cup {j} |-> IF k = j THEN next ELSE id_to_job[k]],
         responses' \subseteq responses,
         \A m \in responses \ responses' : m.job = j,
         \A m \in requests \cup responses' : m.job # j,
         UNCHANGED <<statuses, tree, file>>,
         Covered(j, next), Waiting(j, next)
  PROVE  FilesGrow' /\ SuccessIsWholePage'
<1>1. DOMAIN id_to_job' = DOMAIN id_to_job \cup {j}
      /\ id_to_job'[j] = next
      /\ \A k \in DOMAIN id_to_job \ {j} : id_to_job'[k] = id_to_job[k]
  OBVIOUS
<1>2. \A m \in requests \cup responses : m.job \in DOMAIN id_to_job
  BY DEF Pages, Protocol, WritersAreAsked
<1>3. \A k \in DOMAIN id_to_job' : Covered(k, id_to_job[k])'
  BY <1>1 DEF Pages, FilesGrow, Covered
<1>4. ASSUME NEW k \in DOMAIN id_to_job', \A m \in responses' : m.job # k
      PROVE  Waiting(k, id_to_job[k])'
  <2>1. CASE k = j
    BY <1>1, <2>1 DEF Waiting
  <2>2. CASE k # j
    <3>1. k \in DOMAIN id_to_job /\ id_to_job'[k] = id_to_job[k]
          /\ \A m \in responses : m.job # k
      BY <1>1, <1>4, <2>2
    <3>2. Waiting(k, id_to_job[k])
      BY <3>1 DEF Pages, FilesGrow
    <3> QED BY <3>1, <3>2 DEF Waiting
  <2> QED BY <2>1, <2>2
<1>5. \A m \in requests' : Asked(m, id_to_job'[m.job])
  <2> TAKE m \in requests'
  <2>1. CASE m \in requests
    <3>1. m.job \in DOMAIN id_to_job \ {j}
      BY <1>2, <2>1
    <3>2. Asked(m, id_to_job[m.job])
      BY <2>1 DEF Pages, FilesGrow
    <3> QED BY <1>1, <3>1, <3>2
  <2>2. CASE m \notin requests
    <3>1. m = Request(j, job)
      BY <2>2 DEF SendNext
    <3>2. m.job = j /\ m.is_last_frame = (Tail(job.pending) = <<>>) /\ m.skip = job.digests
      BY <3>1 DEF Request, IsLast
    <3> QED BY <1>1, <3>2 DEF Asked
  <2> QED BY <2>1, <2>2
<1>6. \A m \in responses' : Answered(m.job, id_to_job[m.job], m)'
  <2> TAKE m \in responses'
  <2>1. id_to_job'[m.job] = id_to_job[m.job]
    BY <1>1, <1>2
  <2>2. Answered(m.job, id_to_job[m.job], m)
    BY DEF Pages, FilesGrow
  <2> QED BY <2>1, <2>2 DEF Answered
<1>7. FilesGrow'
  BY <1>3, <1>4, <1>5, <1>6 DEF Pages, FilesGrow, Asked
<1>8. SuccessIsWholePage'
  BY DEF Pages, SuccessIsWholePage, WholePage
<1> QED BY <1>7, <1>8
LEMMA InitPages == ASSUME Init PROVE Pages
<1>1. Protocol
  BY InitKeeps
<1>2. DOMAIN id_to_job = {} /\ \A j \in JobIds : DOMAIN file[j] = {} /\ DOMAIN statuses[j] = {}
  BY DEF Init
<1>3. FilesGrow
  BY <1>2 DEF Init, FilesGrow, Disjoint
<1>4. SuccessIsWholePage
  BY <1>2 DEF SuccessIsWholePage
<1> QED BY <1>1, <1>3, <1>4 DEF Pages

LEMMA SavePages ==
  ASSUME Pages, NEW created \in BOOLEAN, SaveMHTML(created)
  PROVE  FilesGrow' /\ SuccessIsWholePage'
<1> DEFINE j == next_job_id
           job == NewJob(PendingFrames)
<1>0. Protocol
  BY DEF Pages
<1>1. /\ j \in JobIds /\ j \notin DOMAIN id_to_job
      /\ job \in JobType /\ job.pending = PendingFrames /\ PendingFrames # <<>>
      /\ \A m \in requests \cup responses : m.job # j
  BY <1>0, NewJobShape DEF SaveMHTML
<1>2. file[j] = <<>>
  BY <1>0, <1>1, JobIdsAreNatural DEF Protocol, JobsRun
<1>3. UNCHANGED <<tree, responses, file>>
  BY DEF SaveMHTML
<1>4. CASE created
  <2> DEFINE next == [AfterSend(job) EXCEPT !.open = TRUE]
  <2>1. /\ id_to_job' = [k \in DOMAIN id_to_job \cup {j} |-> IF k = j THEN next ELSE id_to_job[k]]
        /\ SendNext(j, job)
        /\ UNCHANGED statuses
    BY <1>4 DEF SaveMHTML, NoCallback
  <2>2. job.digests = {}
    BY DEF NewJob
  <2> HIDE DEF job
  <2>3. AfterSend(job) \in JobType
    BY <1>1, NextFrame
  <2>4. /\ next \in JobType /\ next.busy = Head(job.pending)
        /\ next.pending = Tail(job.pending) /\ next.digests = job.digests
    BY <1>1, <2>3, NextFrame DEF JobType
  <2> HIDE DEF next
  <2>5. /\ PendingFrames \in Seq(FrameSet) /\ Elements(PendingFrames) = tree
        /\ Head(PendingFrames) = MainFrame /\ MainFrame \notin Elements(Tail(PendingFrames))
    BY <1>0, PendingIsTree DEF Protocol, Typed, TypeOK
  <2>6. Covered(j, next)
    <3>1. Elements(PendingFrames) = {Head(PendingFrames)} \cup Elements(Tail(PendingFrames))
      BY <1>1, <2>5, HeadAndTail
    <3>2. Queued(next) = Elements(Tail(PendingFrames))
      BY <1>1, <2>4 DEF Queued, Elements
    <3> QED BY <1>1, <2>4, <2>5, <3>1, <3>2 DEF Covered
  <2>7. Waiting(j, next)
    BY <1>1, <1>2, <2>4, <2>5 DEF Waiting, Within
  <2> HIDE DEF j
  <2> QED BY <1>1, <1>3, <2>1, <2>4, <2>6, <2>7, SendKeepsFiles
<1>5. CASE ~ created
  <2>1. Finish({j}, [k \in {j} |-> job], "FAILURE") /\ UNCHANGED requests
    BY <1>5 DEF SaveMHTML
  <2>2. Ended({j}, "FAILURE")
    BY <1>0, <1>1, <2>1, FinishNew DEF Protocol, Typed
  <2>3. DOMAIN id_to_job' = DOMAIN id_to_job
        /\ \A k \in DOMAIN id_to_job : id_to_job'[k] = id_to_job[k]
    BY <1>1, <2>2 DEF Ended
  <2>4. \A m \in requests \cup responses : m.job \in DOMAIN id_to_job
    BY <1>0 DEF Protocol, WritersAreAsked
  <2>5. FilesGrow'
    BY <1>3, <2>1, <2>3, <2>4, ZenonT(30) DEF Pages, FilesGrow, Covered, Waiting, Asked, Answered
  <2>6. SuccessIsWholePage'
    <3> SUFFICES ASSUME NEW k \in JobIds, NEW i \in DOMAIN statuses'[k],
                        statuses'[k][i] = "SUCCESS"
                 PROVE  WholePage(file[k])
      BY <1>3 DEF SuccessIsWholePage, WholePage
    <3>1. CASE k = j
      <4>1. statuses[k] = <<>>
        BY <1>0, <3>1, JobIdsAreNatural DEF Protocol, JobsRun
      <4>2. statuses'[k] = Append(<<>>, "FAILURE")
        BY <2>2, <3>1, <4>1 DEF Ended
      <4> QED BY <4>2
    <3>2. CASE k # j
      <4>1. statuses'[k] = statuses[k]
        BY <2>2, <3>2 DEF Ended
      <4> QED BY <4>1 DEF Pages, SuccessIsWholePage
    <3> QED BY <3>1, <3>2
  <2> QED BY <2>5, <2>6
<1> QED BY <1>4, <1>5

LEMMA ResponsePages ==
  ASSUME Pages, NEW m \in responses, OnSerializeAsMHTMLResponse(m)
  PROVE  FilesGrow' /\ SuccessIsWholePage'
<1> DEFINE j == m.job
           old == id_to_job[j]
           job == AfterAnswer(m)
<1>0. Protocol
  BY DEF Pages
<1>1. /\ j \in DOMAIN id_to_job /\ j \in JobIds /\ m.frame = old.busy
      /\ old \in JobType /\ job \in JobType /\ job.pending = old.pending
      /\ job.digests = old.digests \cup m.digests
      /\ (IsDone(job) <=> old.pending = <<>>)
      /\ \A n \in requests \cup (responses \ {m}) : n.job # j
  BY <1>0, AnswerShape
<1>2. responses' = responses \ {m} /\ UNCHANGED <<tree, file>>
  BY DEF OnSerializeAsMHTMLResponse
<1>3. Covered(j, old) /\ Answered(j, old, m)
  BY <1>1 DEF Pages, FilesGrow
<1>4. ASSUME NEW status \in {"SUCCESS", "FAILURE"}, Finish({j}, id_to_job, status),
             UNCHANGED requests, status = "SUCCESS" => WholePage(file[j])
      PROVE  FilesGrow' /\ SuccessIsWholePage'
  <2>1. {j} \in SUBSET DOMAIN id_to_job
    BY <1>1
  <2>2. /\ requests' \subseteq requests /\ responses' \subseteq responses
        /\ \A n \in responses \ responses' : n.job \in {j}
        /\ \A n \in requests' \cup responses' : n.job \notin {j}
    BY <1>1, <1>2, <1>4
  <2>3. status = "SUCCESS" => \A k \in {j} : WholePage(file[k])
    BY <1>4
  <2> HIDE DEF j
  <2> QED BY <1>2, <1>4, <2>1, <2>2, <2>3, EndKeepsFiles
<1>5. CASE ~ m.success
  <2>1. Finish({j}, id_to_job, "FAILURE") /\ UNCHANGED requests
    BY <1>0, <1>1, <1>5 DEF OnSerializeAsMHTMLResponse
  <2> QED BY <1>4, <2>1
<1>6. CASE m.success /\ IsDone(job)
  <2>1. Finish({j}, id_to_job, "SUCCESS") /\ UNCHANGED requests
    BY <1>1, <1>6 DEF OnSerializeAsMHTMLResponse, AfterAnswer
  <2>2. old.pending = <<>> /\ Queued(old) = {}
    BY <1>1, <1>6 DEF Queued
  <2>3. Closed(file[j]) /\ Has(file[j], old.busy)
    BY <1>1, <1>3, <1>6, <2>2 DEF Answered
  <2>4. \A f \in tree : Has(file[j], f)
    BY <1>3, <2>2, <2>3 DEF Covered
  <2>5. file[j] \in Seq(PartType)
    BY <1>0, <1>1 DEF Protocol, Typed
  <2>6. WholePage(file[j])
    BY <2>3, <2>4, <2>5, ClosedIsWhole
  <2> QED BY <1>4, <2>1, <2>6
<1>7. CASE m.success /\ ~ IsDone(job) /\ ~ CanSend(job)
  <2>1. Finish({j}, id_to_job, "FAILURE") /\ UNCHANGED requests
    BY <1>1, <1>7 DEF OnSerializeAsMHTMLResponse, AfterAnswer
  <2> QED BY <1>4, <2>1
<1>8. CASE m.success /\ ~ IsDone(job) /\ CanSend(job)
  <2> DEFINE next == AfterSend(job)
  <2>1. /\ id_to_job' = [id_to_job EXCEPT ![j] = next]
        /\ SendNext(j, job)
        /\ UNCHANGED statuses
    BY <1>1, <1>8 DEF OnSerializeAsMHTMLResponse, AfterAnswer, NoCallback
  <2>2. /\ next \in JobType /\ job.pending # <<>>
        /\ next.busy = Head(job.pending) /\ next.pending = Tail(job.pending)
        /\ next.digests = job.digests
    BY <1>1, <1>8, NextFrame
  <2>3. id_to_job' = [k \in DOMAIN id_to_job \cup {j} |-> IF k = j THEN next ELSE id_to_job[k]]
    BY <1>1, <2>1
  <2>4. /\ responses' \subseteq responses
        /\ \A n \in responses \ responses' : n.job = j
        /\ \A n \in requests \cup responses' : n.job # j
    BY <1>1, <1>2
  <2>5. /\ Has(file[j], old.busy) /\ Opened(file[j]) /\ Within(file[j], next.digests)
    BY <1>1, <1>3, <1>8, <2>2 DEF Answered
  <2> DEFINE q == old.pending
  <2>6. q \in Seq(FrameSet) /\ q # <<>> /\ next.busy = Head(q) /\ next.pending = Tail(q)
        /\ Queued(old) = Elements(q)
    BY <1>1, <2>2 DEF JobType, Queued, Elements
  <2> HIDE DEF next, q, job
  <2>7. Elements(q) = {Head(q)} \cup Elements(Tail(q))
    BY <2>6, HeadAndTail
  <2>8. Queued(next) = Elements(Tail(q))
    BY <2>6 DEF Queued, Elements
  <2>9. MainFrame \notin Elements(q)
        /\ \A f \in tree : f = old.busy \/ f \in Elements(q) \/ Has(file[j], f)
    BY <1>3, <2>6 DEF Covered
  <2> HIDE DEF old
  <2>10. Covered(j, next)
    BY <2>5, <2>6, <2>7, <2>8, <2>9 DEF Covered
  <2>11. Waiting(j, next)
    BY <2>5, <2>6, <2>7, <2>9 DEF Waiting
  <2> HIDE DEF j
  <2> QED BY <1>1, <1>2, <2>1, <2>2, <2>3, <2>4, <2>10, <2>11, SendKeepsFiles
<1> QED BY <1>5, <1>6, <1>7, <1>8
LEMMA ExitPages ==
  ASSUME Pages, NEW p \in Procs, RenderProcessExited(p)
  PROVE  FilesGrow' /\ SuccessIsWholePage'
<1>1. Observers(p) \in SUBSET DOMAIN id_to_job
  BY DEF Observers
<1>2. Finish(Observers(p), id_to_job, "FAILURE") /\ UNCHANGED <<tree, file>>
  BY DEF RenderProcessExited
<1>3. requests' \subseteq requests /\ responses' \subseteq responses
  BY DEF RenderProcessExited
<1>4. /\ \A m \in responses \ responses' : m.job \in Observers(p)
      /\ \A m \in requests' \cup responses' : m.job \notin Observers(p)
  BY DEF RenderProcessExited, Observers, Pages, Protocol, WritersAreAsked
<1> QED BY <1>1, <1>2, <1>3, <1>4, EndKeepsFiles

LEMMA DestroyedPages ==
  ASSUME Pages, NEW p \in Procs, RenderProcessHostDestroyed(p)
  PROVE  FilesGrow' /\ SuccessIsWholePage'
<1>1. DOMAIN id_to_job' = DOMAIN id_to_job
  BY DEF RenderProcessHostDestroyed
<1>2. \A j \in DOMAIN id_to_job :
        /\ id_to_job'[j].busy = id_to_job[j].busy
        /\ id_to_job'[j].pending = id_to_job[j].pending
        /\ id_to_job'[j].digests = id_to_job[j].digests
  <2> TAKE j \in DOMAIN id_to_job
  <2>1. id_to_job[j] \in JobType
    BY DEF Pages, Protocol, Typed, TypeOK
  <2>2. id_to_job'[j] = IF id_to_job[j].observed = p
                          THEN [id_to_job[j] EXCEPT !.observed = None] ELSE id_to_job[j]
    BY DEF RenderProcessHostDestroyed
  <2> QED BY <2>1, <2>2 DEF JobType
<1>3. UNCHANGED <<statuses, tree, requests, responses, file>>
  BY DEF RenderProcessHostDestroyed
<1>4. \A m \in requests \cup responses : m.job \in DOMAIN id_to_job
  BY DEF Pages, Protocol, WritersAreAsked
<1>5. FilesGrow'
  <2>1. \A j \in DOMAIN id_to_job' : Covered(j, id_to_job[j])'
    BY <1>1, <1>2, <1>3 DEF Pages, FilesGrow, Covered, Queued
  <2>2. ASSUME NEW j \in DOMAIN id_to_job', \A m \in responses' : m.job # j
        PROVE  Waiting(j, id_to_job[j])'
    <3>1. Waiting(j, id_to_job[j])
      BY <1>1, <1>3, <2>2 DEF Pages, FilesGrow
    <3> QED BY <1>1, <1>2, <1>3, <3>1 DEF Waiting
  <2>3. \A m \in requests' : Asked(m, id_to_job[m.job])'
    BY <1>2, <1>3, <1>4 DEF Pages, FilesGrow, Asked
  <2>4. \A m \in responses' : Answered(m.job, id_to_job[m.job], m)'
    BY <1>2, <1>3, <1>4 DEF Pages, FilesGrow, Answered
  <2>5. \A j \in JobIds : Disjoint(file'[j])
    BY <1>3 DEF Pages, FilesGrow
  <2> QED BY <2>1, <2>2, <2>3, <2>4, <2>5 DEF FilesGrow, Disjoint
<1>6. SuccessIsWholePage'
  BY <1>3 DEF Pages, SuccessIsWholePage, WholePage
<1> QED BY <1>5, <1>6

LEMMA SerializePages ==
  ASSUME Pages, NEW m \in requests, OnSerializeAsMHTML(m)
  PROVE  FilesGrow' /\ SuccessIsWholePage'
<1> DEFINE j == m.job
           job == id_to_job[j]
           old == file[j]
<1>0. Protocol
  BY DEF Pages
<1>1. /\ m \in RequestType /\ j \in DOMAIN id_to_job /\ j \in JobIds
      /\ m.frame = job.busy /\ old \in Seq(PartType) /\ file \in [JobIds -> Seq(PartType)]
      /\ statuses[j] = <<>>
  BY <1>0 DEF Protocol, Typed, TypeOK, WritersAreAsked, JobsRun
<1>2. PICK success \in BOOLEAN, res \in SUBSET Resources, digests \in SUBSET Resources,
          whole \in Seq(PartType) :
        /\ WrittenPart(whole, m, res, success) /\ res \cap m.skip = {}
        /\ whole # <<>> => digests = res
        /\ file' = [file EXCEPT ![j] = @ \o whole]
        /\ responses' = responses \cup {Reply(m, success, digests)}
  BY <1>0, SerializeShape
<1>3. requests' = requests \ {m} /\ UNCHANGED <<id_to_job, statuses, tree>>
  BY DEF OnSerializeAsMHTML, managerVars
<1>4. \A n \in (requests \ {m}) \cup responses : n.job # j
  BY <1>0, <1>1, RequestIsNoResponse DEF Protocol, Typed, WritersAreAsked
<1>5. Covered(j, job) /\ Waiting(j, job) /\ Asked(m, job)
  BY <1>1, <1>4 DEF Pages, FilesGrow
<1> DEFINE new == old \o whole
<1>6. Disjoint(old)
  BY <1>1 DEF Pages, FilesGrow
<1>7. Within(old, m.skip) /\ IF m.frame = MainFrame THEN old = <<>> ELSE Opened(old)
  BY <1>1, <1>5 DEF Waiting, Asked
<1>8. /\ Disjoint(new)
      /\ Within(new, m.skip \cup res) /\ (whole = <<>> => Within(new, m.skip))
      /\ \A f : Has(old, f) => Has(new, f)
      /\ success => /\ Has(new, m.frame)
                    /\ IF m.is_last_frame THEN Closed(new) ELSE Opened(new)
  <2>1. WrittenPart(whole, m, res, success) /\ res \cap m.skip = {}
    BY <1>2
  <2> HIDE DEF old
  <2> QED BY <1>1, <1>6, <1>7, <2>1, FileGrows
<1>9. file'[j] = new /\ \A k \in JobIds \ {j} : file'[k] = file[k]
  BY <1>1, <1>2
<1> DEFINE r == Reply(m, success, digests)
<1>10. r.job = j /\ r.frame = m.frame /\ r.success = success /\ r.digests = digests
  BY DEF Reply
<1>11. responses' = responses \cup {r}
  BY <1>2
<1>12. \A k \in DOMAIN id_to_job : k \in JobIds
  BY <1>0 DEF Protocol, Typed, TypeOK
<1>13. Within(new, m.skip \cup digests)
  <2>1. CASE whole = <<>>
    BY <1>8, <2>1 DEF Within
  <2>2. CASE whole # <<>>
    BY <1>2, <1>8, <2>2
  <2> QED BY <2>1, <2>2
<1> HIDE DEF new, r
<1>14. \A k \in DOMAIN id_to_job' : Covered(k, id_to_job[k])'
  <2> TAKE k \in DOMAIN id_to_job'
  <2>1. Covered(k, id_to_job[k])
    BY <1>3 DEF Pages, FilesGrow
  <2>2. \A f : Has(file[k], f) => Has(file'[k], f)
    BY <1>3, <1>8, <1>9, <1>12
  <2> QED BY <1>3, <2>1, <2>2 DEF Covered
<1>15. ASSUME NEW k \in DOMAIN id_to_job', \A n \in responses' : n.job # k
       PROVE  Waiting(k, id_to_job[k])'
  <2>1. k \in DOMAIN id_to_job /\ k # j /\ \A n \in responses : n.job # k
    BY <1>3, <1>10, <1>11, <1>15
  <2>2. Waiting(k, id_to_job[k])
    BY <2>1 DEF Pages, FilesGrow
  <2>3. file'[k] = file[k]
    BY <1>9, <1>12, <2>1
  <2> QED BY <1>3, <2>2, <2>3 DEF Waiting
<1>16. \A n \in requests' : Asked(n, id_to_job[n.job])'
  BY <1>3 DEF Pages, FilesGrow, Asked
<1>17. \A n \in responses' : Answered(n.job, id_to_job[n.job], n)'
  <2> TAKE n \in responses'
  <2>1. CASE n \in responses
    <3>1. Answered(n.job, id_to_job[n.job], n) /\ n.job \in DOMAIN id_to_job
      BY <1>0, <2>1 DEF Pages, FilesGrow, Protocol, WritersAreAsked
    <3>2. file'[n.job] = file[n.job]
      BY <1>4, <1>9, <1>12, <2>1, <3>1
    <3> QED BY <1>3, <3>1, <3>2 DEF Answered
  <2>2. CASE n = r
    <3>1. m.is_last_frame = (job.pending = <<>>) /\ m.skip = job.digests
      BY <1>5 DEF Asked
    <3> HIDE DEF j
    <3>2. Answered(j, job, r)'
      BY <1>3, <1>8, <1>9, <1>10, <1>13, <3>1 DEF Answered
    <3> QED BY <1>10, <2>2, <3>2
  <2> QED BY <1>11, <2>1, <2>2
<1>18. \A k \in JobIds : Disjoint(file'[k])
  BY <1>8, <1>9 DEF Pages, FilesGrow
<1>19. FilesGrow'
  BY <1>14, <1>15, <1>16, <1>17, <1>18 DEF FilesGrow, Disjoint
<1>20. SuccessIsWholePage'
  <2> SUFFICES ASSUME NEW k \in JobIds, NEW i \in DOMAIN statuses[k], statuses[k][i] = "SUCCESS"
               PROVE  WholePage(file'[k])
    BY <1>3 DEF SuccessIsWholePage, WholePage
  <2>1. k # j
    BY <1>1
  <2> QED BY <1>9, <2>1 DEF Pages, SuccessIsWholePage
<1> QED BY <1>19, <1>20

LEMMA OtherPages ==
  ASSUME Pages,
         \/ \E f \in FrameSet : Detach(f) \/ OnDetach(f)
         \/ \E m \in requests : DropRequest(m)
         \/ UNCHANGED vars
  PROVE  FilesGrow' /\ SuccessIsWholePage'
<1>1. /\ UNCHANGED <<id_to_job, statuses, responses, file>>
      /\ requests' \subseteq requests /\ tree' \subseteq tree
  BY DEF Detach, OnDetach, DropRequest, vars, managerVars, rendererVars
<1>2. FilesGrow'
  BY <1>1 DEF Pages, FilesGrow, Covered, Waiting, Asked, Answered
<1>3. SuccessIsWholePage'
  BY <1>1 DEF Pages, SuccessIsWholePage, WholePage
<1> QED BY <1>2, <1>3

LEMMA NextPages == Pages /\ [Next]_vars => Pages'
<1> SUFFICES ASSUME Pages, [Next]_vars PROVE Pages'
  OBVIOUS
<1>1. Protocol'
  BY NextKeeps DEF Pages
<1>2. FilesGrow' /\ SuccessIsWholePage'
  <2>1. CASE \E created \in BOOLEAN : SaveMHTML(created)
    BY <2>1, SavePages
  <2>2. CASE \E m \in responses : OnSerializeAsMHTMLResponse(m)
    BY <2>2, ResponsePages
  <2>3. CASE \E p \in Procs : RenderProcessExited(p) \/ RenderProcessHostDestroyed(p)
    BY <2>3, ExitPages, DestroyedPages
  <2>4. CASE \E m \in requests : OnSerializeAsMHTML(m)
    BY <2>4, SerializePages
  <2>5. CASE \/ \E f \in FrameSet : Detach(f) \/ OnDetach(f)
             \/ \E m \in requests : DropRequest(m)
             \/ UNCHANGED vars
    BY <2>5, OtherPages
  <2> QED BY <2>1, <2>2, <2>3, <2>4, <2>5 DEF Next
<1> QED BY <1>1, <1>2 DEF Pages

\* A file that is reported as saved is the page: one header, the parts of every frame
\* the page still has, the main frame's first, one footer; and no resource is in it
\* for two frames (mhtml_generation_manager.cc:173-300).
THEOREM SavedFileIsThePage == Spec => []FileIsThePage
<1>1. Init => Pages
  BY InitPages
<1>2. Pages => FileIsThePage
  BY DEF Pages, Protocol, Typed, FilesGrow, Disjoint, FileIsThePage, NoResourceTwice
<1> QED BY <1>1, <1>2, NextPages, PTL DEF Spec

=============================================================================
