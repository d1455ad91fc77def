---------------------------- MODULE Answers_proofs ----------------------------
(***************************************************************************)
(* Proofs about the parts of MCAnswers, for any requests, jobs, sizes and  *)
(* outputs: the queue of readbacks answers each job once and writes only   *)
(* into memory that is there, a request for a copy of the screen is in one *)
(* place until it is answered, once, and each frame of a renderer is       *)
(* acknowledged once, under the output it came from.                       *)
(***************************************************************************)
EXTENDS MCAnswers, WellFoundedInduction, FunctionTheorems, SequenceTheorems, FiniteSetTheorems, TLAPS

(* Of some natural numbers one is the least.                               *)
LEMMA LeastNatural ==
  ASSUME NEW T, T \subseteq Nat, T # {}
  PROVE  \E n \in T : \A m \in T : n <= m
<1> DEFINE R == OpToRel(<, Nat)
<1>1. IsWellFoundedOn(R, Nat)
  BY NatLessThanWellFounded
<1>2. \A x, y \in Nat : <<y, x>> \in R <=> y < x
  BY DEF OpToRel
<1> HIDE DEF R
<1>3. PICK n \in T : \A m \in T : ~ (<<m, n>> \in R)
  BY <1>1, WFMin
<1>4. \A m \in T : ~ (m < n)
  BY <1>2, <1>3
<1> QED BY <1>4

-----------------------------------------------------------------------------
(* The queue of readbacks.                                                 *)

RequestType ==
  [job : Jobs, plane : {"Y", "U", "V", "RGB"}, final : BOOLEAN, done : BOOLEAN,
   result : BOOLEAN]

\* Nothing of a job is queued behind the request that tells it.
LastTells(q) ==
  \A i, k \in DOMAIN q : i < k /\ q[i].job = q[k].job => ~ q[i].final

\* No job is told by two requests.
TellsOnce(q) ==
  \A i, k \in DOMAIN q : i # k /\ q[i].final /\ q[k].final => q[i].job # q[k].job

QueueTyped ==
  /\ gl_helper \in BOOLEAN /\ started \subseteq Jobs
  /\ queue \in Seq(RequestType) /\ running \in Seq(RequestType)
  /\ told \in [Jobs -> Q!Results \cup {None}]

\* What is queued belongs to jobs that were not told yet; of what is about to run
\* its callback, that is true of the requests that tell.
Untold ==
  /\ \A j \in Jobs \ started : told[j] = None
  /\ \A i \in DOMAIN queue : queue[i].job \in started /\ told[queue[i].job] = None
  /\ \A i \in DOMAIN running :
       running[i].job \in started /\ (running[i].final => told[running[i].job] = None)
  /\ \A i \in DOMAIN running, k \in DOMAIN queue :
       running[i].final => running[i].job # queue[k].job
  /\ LastTells(queue) /\ TellsOnce(running)

Reads ==
  /\ QueueTyped /\ Untold
  /\ gl_helper \/ queue = <<>>
  /\ queue # <<>> => ~ queue[1].done
  /\ stray = FALSE /\ textures = {}

LEMMA ReadsInit == Q!Init => Reads
<1> SUFFICES ASSUME Q!Init PROVE Reads
  OBVIOUS
<1>1. /\ gl_helper = TRUE /\ started = {} /\ queue = <<>> /\ running = <<>>
      /\ told = [j \in Jobs |-> None] /\ textures = {} /\ stray = FALSE
  BY DEF Q!Init
<1>2. QueueTyped
  BY <1>1 DEF QueueTyped
<1>3. Untold
  BY <1>1 DEF Untold, LastTells, TellsOnce
<1> QED BY <1>1, <1>2, <1>3 DEF Reads

\* The requests at the front that are done: all of them, and no other.
LEMMA FinishedShape ==
  ASSUME NEW q \in Seq(RequestType)
  PROVE  /\ Q!Finished(q) \in 0 .. Len(q)
         /\ \A i \in 1 .. Q!Finished(q) : q[i].done
         /\ Q!Finished(q) < Len(q) => ~ q[Q!Finished(q) + 1].done
<1> DEFINE P(n) == /\ \A i \in 1 .. n : q[i].done
                   /\ n < Len(q) => ~ q[n + 1].done
<1>1. \E n \in 0 .. Len(q) : P(n)
  <2> DEFINE T == {i \in 1 .. Len(q) : ~ q[i].done}
  <2>1. CASE T = {}
    <3>1. P(Len(q))
      BY <2>1
    <3>2. Len(q) \in 0 .. Len(q)
      OBVIOUS
    <3> QED BY <3>1, <3>2
  <2>2. CASE T # {}
    <3>1. PICK n \in T : \A m \in T : n <= m
      <4>1. T \subseteq Nat
        OBVIOUS
      <4> QED BY <2>2, <4>1, LeastNatural
    <3>2. n - 1 \in 0 .. Len(q) /\ (n - 1) + 1 = n
      BY <3>1
    <3>3. \A i \in 1 .. n - 1 : i \in 1 .. Len(q) /\ ~ (n <= i)
      BY <3>1
    <3>4. P(n - 1)
      BY <3>1, <3>2, <3>3
    <3> QED BY <3>2, <3>4
  <2> QED BY <2>1, <2>2
<1>2. Q!Finished(q) = CHOOSE n \in 0 .. Len(q) : P(n)
  BY DEF Q!Finished
<1> HIDE DEF P
<1>3. Q!Finished(q) \in 0 .. Len(q) /\ P(Q!Finished(q))
  BY <1>1, <1>2
<1> QED BY <1>3 DEF P

\* A job's requests: they are its own, not done, and the last one tells it.
LEMMA PlanesShape ==
  ASSUME NEW job \in Jobs, NEW kind \in Q!Kinds
  PROVE  LET p == Q!ReadbackPlanes(job, kind)
         IN  /\ p \in Seq(RequestType) /\ p # <<>> /\ LastTells(p)
             /\ \A i \in DOMAIN p : p[i].job = job /\ ~ p[i].done
<1> DEFINE P == Q!Planes(kind)
           request(i) == Q!Request(job, P[i], i = Len(P))
           p == Q!ReadbackPlanes(job, kind)
<1>1. P \in Seq({"Y", "U", "V", "RGB"}) /\ Len(P) > 0
  <2> DEFINE S == {"Y", "U", "V", "RGB"}
  <2>1. P = <<"Y", "U", "V">> \/ P = <<"RGB">>
    BY DEF Q!Planes
  <2>2. "Y" \in S /\ "U" \in S /\ "V" \in S /\ "RGB" \in S
    OBVIOUS
  <2> HIDE DEF P, S
  <2>3. <<"Y", "U", "V">> \in Seq(S) /\ Len(<<"Y", "U", "V">>) > 0
    BY <2>2
  <2>4. <<"RGB">> \in Seq(S) /\ Len(<<"RGB">>) > 0
    BY <2>2
  <2>5. P \in Seq(S) /\ Len(P) > 0
    BY <2>1, <2>3, <2>4
  <2> QED BY <2>5 DEF S
<1>2. p = [i \in 1 .. Len(P) |-> request(i)]
  BY <1>1 DEF Q!ReadbackPlanes
<1>3. \A i \in 1 .. Len(P) : request(i) \in RequestType
  <2> TAKE i \in 1 .. Len(P)
  <2>1. P[i] \in {"Y", "U", "V", "RGB"}
    BY <1>1
  <2> HIDE DEF P
  <2> QED BY <2>1 DEF Q!Request, RequestType
<1>4. \A i \in 1 .. Len(P) :
        request(i).job = job /\ ~ request(i).done /\ (request(i).final <=> i = Len(P))
  BY DEF Q!Request
<1> HIDE DEF P, request, p
<1>5. /\ p \in Seq(RequestType) /\ DOMAIN p = 1 .. Len(P) /\ p # <<>>
      /\ \A i \in 1 .. Len(P) : p[i] = request(i)
  BY <1>1, <1>2, <1>3
<1>6. LastTells(p)
  BY <1>1, <1>4, <1>5 DEF LastTells
<1> QED BY <1>4, <1>5, <1>6 DEF p

LEMMA CopiedShape ==
  ASSUME NEW q \in Seq(RequestType), NEW mapped \in BOOLEAN
  PROVE  LET c == Q!Copied(q, mapped)
         IN  /\ c \in Seq(RequestType) /\ DOMAIN c = DOMAIN q /\ Len(c) = Len(q)
             /\ \A k \in DOMAIN q : c[k].job = q[k].job /\ c[k].final = q[k].final
<1> DEFINE e(i) == [q[i] EXCEPT !.result = mapped]
           c == Q!Copied(q, mapped)
<1>1. \A i \in DOMAIN q : e(i) \in RequestType /\ e(i).job = q[i].job /\ e(i).final = q[i].final
  <2> TAKE i \in DOMAIN q
  <2>1. q[i] \in RequestType
    OBVIOUS
  <2> QED BY <2>1 DEF RequestType
<1>2. c = [i \in 1 .. Len(q) |-> e(i)]
  BY DEF Q!Copied
<1> HIDE DEF e, c
<1>3. c \in Seq(RequestType) /\ DOMAIN c = DOMAIN q /\ Len(c) = Len(q)
      /\ \A k \in DOMAIN q : c[k] = e(k)
  BY <1>1, <1>2
<1> QED BY <1>1, <1>3 DEF c

\* A helper makes no texture that it does not delete.
LEMMA TexturesAreDeleted ==
  ASSUME textures = {}, NEW kind \in Q!Kinds, NEW fast \in BOOLEAN, NEW possible \in BOOLEAN
  PROVE  Q!Textures(kind, fast, possible) = {}
BY DEF Q!Textures, Q!Kinds, Q!Video, Q!CropScaleReadbackAndCleanMailbox,
       Q!ConsumeMailboxToTexture, Q!CropScaleReadbackAndCleanTexture, Q!ScaleTexture,
       Q!EncodeTextureAsGrayscale, Q!ReadbackYUV, Q!ReadbackYUV_MRT

\* What the asker sees of a step of the queue.
AnswersOnce == [Q!A!Next]_(Q!A!vars)

LEMMA ReadsStart ==
  ASSUME Reads, Q!Readback
  PROVE  Reads' /\ AnswersOnce
<1>1. PICK job \in Jobs, kind \in Q!Kinds, fast \in BOOLEAN, possible \in BOOLEAN :
        Q!Start(job, kind, fast, possible)
  BY DEF Q!Readback
<1>2. UNCHANGED <<gl_helper, running, stray>>
  BY DEF Q!Readback
<1>3. /\ gl_helper /\ job \notin started /\ started' = started \cup {job}
      /\ textures' = {}
  BY <1>1, TexturesAreDeleted DEF Q!Start, Reads
<1>4. told[job] = None
  BY <1>3 DEF Reads, Untold
<1>5. CASE possible
  <2> DEFINE p == Q!ReadbackPlanes(job, kind)
             new == queue \o p
  <2>1. queue' = new /\ UNCHANGED told
    BY <1>1, <1>5 DEF Q!Start, Q!ReadbackAsync
  <2>2. /\ p \in Seq(RequestType) /\ p # <<>> /\ LastTells(p)
        /\ \A i \in DOMAIN p : p[i].job = job /\ ~ p[i].done
    BY PlanesShape
  <2> HIDE DEF p
  <2>3. queue \in Seq(RequestType)
    BY DEF Reads, QueueTyped
  <2>4. /\ new \in Seq(RequestType) /\ Len(new) = Len(queue) + Len(p)
        /\ \A i \in 1 .. Len(queue) + Len(p) :
             new[i] = IF i <= Len(queue) THEN queue[i] ELSE p[i - Len(queue)]
    BY <2>2, <2>3, ConcatProperties
  <2>5. /\ DOMAIN new = 1 .. Len(queue) + Len(p) /\ DOMAIN queue = 1 .. Len(queue)
        /\ DOMAIN p = 1 .. Len(p) /\ Len(queue) \in Nat /\ Len(p) \in Nat /\ Len(p) > 0
    BY <2>2, <2>3, <2>4
  <2> HIDE DEF new
  <2>6. \A i \in DOMAIN new : \/ i \in DOMAIN queue /\ new[i] = queue[i]
                              \/ /\ i > Len(queue) /\ i - Len(queue) \in DOMAIN p
                                 /\ new[i] = p[i - Len(queue)]
    BY <2>4, <2>5
  <2>7. \A i \in DOMAIN queue : queue[i].job # job
    BY <1>3 DEF Reads, Untold
  <2>8. LastTells(new)
    <3> SUFFICES ASSUME NEW i \in DOMAIN new, NEW k \in DOMAIN new, i < k, new[i].job = new[k].job
                 PROVE  ~ new[i].final
      BY DEF LastTells
    <3>1. CASE i \in DOMAIN queue /\ new[i] = queue[i]
      <4>1. k \in DOMAIN queue /\ new[k] = queue[k]
        BY <2>2, <2>6, <2>7, <3>1
      <4> QED BY <3>1, <4>1 DEF Reads, Untold, LastTells
    <3>2. CASE i > Len(queue) /\ i - Len(queue) \in DOMAIN p /\ new[i] = p[i - Len(queue)]
      <4>1. k \notin DOMAIN queue
        BY <2>5, <3>2
      <4>2. k - Len(queue) \in DOMAIN p /\ new[k] = p[k - Len(queue)]
        BY <2>6, <4>1
      <4>3. i - Len(queue) < k - Len(queue)
        BY <2>5
      <4> QED BY <2>2, <3>2, <4>2, <4>3 DEF LastTells
    <3> QED BY <2>6, <3>1, <3>2
  <2>9. Untold'
    BY <1>2, <1>3, <1>4, <2>1, <2>2, <2>6, <2>7, <2>8 DEF Reads, Untold
  <2>10. ~ new[1].done
    <3>1. CASE queue = <<>>
      BY <2>2, <2>5, <2>6, <3>1
    <3>2. CASE queue # <<>>
      <4>1. 1 \in DOMAIN queue /\ 1 \in DOMAIN new
        BY <2>3, <2>5, <3>2
      <4> QED BY <2>5, <2>6, <3>2, <4>1 DEF Reads
    <3> QED BY <3>1, <3>2
  <2>11. QueueTyped'
    BY <1>2, <1>3, <2>1, <2>4 DEF Reads, QueueTyped
  <2>12. Reads'
    BY <1>2, <1>3, <2>1, <2>9, <2>10, <2>11 DEF Reads
  <2> QED BY <1>3, <2>1, <2>11, <2>12 DEF AnswersOnce, Q!A!Next, QueueTyped
<1>6. CASE ~ possible
  <2>1. told' = [told EXCEPT ![job] = "failed"] /\ UNCHANGED queue
    BY <1>1, <1>6 DEF Q!Start
  <2>2. QueueTyped'
    BY <1>2, <1>3, <2>1 DEF Reads, QueueTyped, Q!Results
  <2>3. \A j \in Jobs : j # job => told'[j] = told[j]
    BY <2>1 DEF Reads, QueueTyped
  <2>4. Untold'
    BY <1>2, <1>3, <2>1, <2>3 DEF Reads, QueueTyped, Untold
  <2>5. Reads'
    BY <1>2, <1>3, <2>1, <2>2, <2>4 DEF Reads
  <2> QED BY <1>3, <1>4, <2>1, <2>2, <2>3, <2>5 DEF AnswersOnce, Q!A!Next, QueueTyped
<1> QED BY <1>5, <1>6
LEMMA RestShape ==
  ASSUME NEW S, NEW q \in Seq(S), NEW n \in 0 .. Len(q)
  PROVE  LET rest == SubSeq(q, n + 1, Len(q))
         IN  /\ rest \in Seq(S) /\ Len(rest) = Len(q) - n /\ DOMAIN rest = 1 .. Len(q) - n
             /\ \A k \in 1 .. Len(q) - n : rest[k] = q[n + k] /\ n + k \in DOMAIN q
<1> DEFINE rest == SubSeq(q, n + 1, Len(q))
           len == Len(q)
<1>1. len \in Nat /\ DOMAIN q = 1 .. len /\ \A k \in 1 .. len : q[k] \in S
  OBVIOUS
<1>2. n \in 0 .. len
  OBVIOUS
<1> HIDE DEF len
<1>3. n \in Nat /\ n <= len /\ n + 1 \in Int /\ len \in Int
  BY <1>1, <1>2
<1>4. \A k \in n + 1 .. len : q[k] \in S
  BY <1>1, <1>3
<1>5. /\ rest \in Seq(S)
      /\ Len(rest) = IF n + 1 <= len THEN len - (n + 1) + 1 ELSE 0
      /\ \A k \in 1 .. len - (n + 1) + 1 : rest[k] = q[(n + 1) + k - 1]
  BY <1>3, <1>4, SubSeqProperties DEF len
<1> HIDE DEF rest
<1>6. len - (n + 1) + 1 = len - n
      /\ \A k \in 1 .. len - n : (n + 1) + k - 1 = n + k /\ n + k \in 1 .. len
  BY <1>1, <1>3
<1>7. Len(rest) = len - n
  BY <1>1, <1>3, <1>5
<1>8. \A k \in 1 .. len - n : rest[k] = q[n + k] /\ n + k \in DOMAIN q
  BY <1>1, <1>5, <1>6
<1> QED BY <1>5, <1>7, <1>8 DEF rest, len

LEMMA ReadsDone ==
  ASSUME Reads, Q!ReadbackDone
  PROVE  Reads' /\ AnswersOnce
<1>1. PICK i \in DOMAIN queue, mapped \in BOOLEAN :
        LET q == [queue EXCEPT ![i].done = TRUE]
            taken == Q!TakeFinished(q)
        IN  /\ queue' = Q!Without(q, taken)
            /\ running' = Q!Copied(taken, mapped)
            /\ stray' = (stray \/ (mapped /\ \E k \in DOMAIN taken : ~ Q!Alive(taken[k].job)))
  BY DEF Q!ReadbackDone
<1>2. running = <<>> /\ UNCHANGED <<gl_helper, started, told, textures>>
  BY DEF Q!ReadbackDone
<1> DEFINE q == [queue EXCEPT ![i].done = TRUE]
           n == Q!Finished(q)
           taken == SubSeq(q, 1, n)
           rest == SubSeq(q, n + 1, Len(q))
<1>3. /\ queue \in Seq(RequestType) /\ LastTells(queue)
      /\ \A k \in DOMAIN queue : queue[k].job \in started /\ told[queue[k].job] = None
  BY DEF Reads, QueueTyped, Untold
<1>4. /\ q \in Seq(RequestType) /\ Len(q) = Len(queue) /\ DOMAIN q = DOMAIN queue
      /\ \A k \in DOMAIN q : q[k].job = queue[k].job /\ q[k].final = queue[k].final
  <2>1. \A k \in DOMAIN queue : queue[k] \in RequestType
    BY <1>3
  <2>2. [queue[i] EXCEPT !.done = TRUE] \in RequestType
        /\ [queue[i] EXCEPT !.done = TRUE].job = queue[i].job
        /\ [queue[i] EXCEPT !.done = TRUE].final = queue[i].final
    BY <2>1 DEF RequestType
  <2> DEFINE x == [queue[i] EXCEPT !.done = TRUE]
  <2>3. q = [queue EXCEPT ![i] = x]
    OBVIOUS
  <2> HIDE DEF q, x
  <2>4. x \in RequestType /\ x.job = queue[i].job /\ x.final = queue[i].final
    BY <2>2 DEF x
  <2> QED BY <1>3, <2>1, <2>3, <2>4
<1> HIDE DEF q
<1>5. n \in 0 .. Len(q) /\ (n < Len(q) => ~ q[n + 1].done)
  BY <1>4, FinishedShape
<1> HIDE DEF n
<1>6. /\ taken \in Seq(RequestType) /\ Len(taken) = n /\ DOMAIN taken = 1 .. n
      /\ \A k \in 1 .. n : taken[k] = q[k] /\ k \in DOMAIN q
  BY <1>4, <1>5
<1>7. /\ rest \in Seq(RequestType) /\ Len(rest) = Len(q) - n /\ DOMAIN rest = 1 .. Len(q) - n
      /\ \A k \in 1 .. Len(q) - n : rest[k] = q[n + k] /\ n + k \in DOMAIN q
  BY <1>4, <1>5, RestShape
<1>8. queue' = rest /\ running' = Q!Copied(taken, mapped)
  <2>1. Q!TakeFinished(q) = taken /\ Q!Without(q, taken) = rest
    BY <1>6 DEF Q!TakeFinished, Q!Without, n
  <2> QED BY <1>1, <2>1 DEF q
<1>9. stray' = FALSE
  <2>1. \A k \in DOMAIN taken : Q!Alive(taken[k].job)
    BY <1>3, <1>4, <1>6 DEF Q!Alive
  <2>2. Q!TakeFinished(q) = taken
    BY DEF Q!TakeFinished, n
  <2> QED BY <1>1, <2>1, <2>2 DEF q, Reads
<1> DEFINE run == Q!Copied(taken, mapped)
<1> HIDE DEF taken, rest
<1>10. /\ run \in Seq(RequestType) /\ DOMAIN run = 1 .. n
       /\ \A k \in 1 .. n : run[k].job = taken[k].job /\ run[k].final = taken[k].final
  BY <1>6, CopiedShape
<1> HIDE DEF run
<1>11. running' = run
  BY <1>8 DEF run
<1>12. QueueTyped'
  BY <1>2, <1>7, <1>8, <1>10, <1>11 DEF Reads, QueueTyped
<1>13. \A k \in 1 .. n : run[k].job = queue[k].job /\ run[k].final = queue[k].final /\ k \in DOMAIN queue
  BY <1>4, <1>6, <1>10
<1>14. \A k \in DOMAIN rest : rest[k].job = queue[n + k].job /\ rest[k].final = queue[n + k].final
                              /\ n + k \in DOMAIN queue
  BY <1>4, <1>7
<1>15. LastTells(rest)
  <2> SUFFICES ASSUME NEW a \in DOMAIN rest, NEW b \in DOMAIN rest, a < b, rest[a].job = rest[b].job
               PROVE  ~ rest[a].final
    BY DEF LastTells
  <2>1. n + a < n + b
    BY <1>5, <1>7
  <2> QED BY <1>3, <1>14, <2>1 DEF LastTells
<1>16. TellsOnce(run)
  <2> SUFFICES ASSUME NEW a \in 1 .. n, NEW b \in 1 .. n, a < b, run[a].final, run[b].final
               PROVE  run[a].job # run[b].job
    BY <1>5, <1>10 DEF TellsOnce
  <2> QED BY <1>3, <1>13 DEF LastTells
<1>17. \A a \in DOMAIN run, b \in DOMAIN rest : run[a].final => run[a].job # rest[b].job
  <2> SUFFICES ASSUME NEW a \in DOMAIN run, NEW b \in DOMAIN rest, run[a].final
               PROVE  run[a].job # rest[b].job
    OBVIOUS
  <2>1. a < n + b
    BY <1>5, <1>7, <1>10
  <2> QED BY <1>3, <1>10, <1>13, <1>14, <2>1 DEF LastTells
<1>18. Untold'
  BY <1>2, <1>3, <1>8, <1>10, <1>11, <1>13, <1>14, <1>15, <1>16, <1>17 DEF Reads, Untold
<1>19. queue' # <<>> => ~ queue'[1].done
  BY <1>5, <1>7, <1>8
<1>20. gl_helper
  BY <1>3 DEF Reads
<1>21. Reads'
  BY <1>2, <1>9, <1>12, <1>18, <1>19, <1>20 DEF Reads
<1> QED BY <1>2, <1>21 DEF AnswersOnce, Q!A!vars

LEMMA ReadsCallback ==
  ASSUME Reads, Q!RunCallback
  PROVE  Reads' /\ AnswersOnce
<1> DEFINE r == Head(running)
<1>1. /\ running # <<>> /\ running' = Tail(running) /\ Q!Tell(r)
      /\ UNCHANGED <<gl_helper, queue, started, textures, stray>>
  BY DEF Q!RunCallback
<1>2. /\ r \in RequestType /\ r = running[1] /\ 1 \in DOMAIN running
      /\ running' \in Seq(RequestType)
      /\ \A k \in DOMAIN running' : k + 1 \in DOMAIN running /\ running'[k] = running[k + 1]
  BY <1>1 DEF Reads, QueueTyped
<1>3. r.job \in Jobs /\ r.job \in started /\ (r.final => told[r.job] = None)
  BY <1>2 DEF Reads, Untold, RequestType
<1> HIDE DEF r
<1>4. /\ told' \in [Jobs -> Q!Results \cup {None}]
      /\ \A j \in Jobs : told'[j] # told[j] => r.final /\ j = r.job
  BY <1>1, <1>3 DEF Q!Tell, Q!Results, Reads, QueueTyped
<1>5. \A k \in DOMAIN running' : running'[k].final =>
        running'[k].job \in started /\ told[running'[k].job] = None
        /\ (r.final => running'[k].job # r.job)
  <2> TAKE k \in DOMAIN running'
  <2> HAVE running'[k].final
  <2>1. k + 1 \in DOMAIN running /\ running'[k] = running[k + 1] /\ k + 1 # 1
    BY <1>2
  <2> QED BY <1>2, <2>1 DEF Reads, Untold, TellsOnce
<1>6. QueueTyped'
  BY <1>1, <1>2, <1>4 DEF Reads, QueueTyped
<1>7. TellsOnce(running')
  <2> SUFFICES ASSUME NEW a \in DOMAIN running', NEW b \in DOMAIN running', a # b,
                      running'[a].final, running'[b].final
               PROVE  running'[a].job # running'[b].job
    BY DEF TellsOnce
  <2>1. /\ a + 1 \in DOMAIN running /\ b + 1 \in DOMAIN running /\ a + 1 # b + 1
        /\ running'[a] = running[a + 1] /\ running'[b] = running[b + 1]
    BY <1>2
  <2> QED BY <2>1 DEF Reads, Untold, TellsOnce
<1>8. Untold'
  <2>1. \A j \in Jobs \ started' : told'[j] = None
    BY <1>1, <1>3, <1>4 DEF Reads, Untold
  <2>2. \A k \in DOMAIN queue' : queue'[k].job \in started' /\ told'[queue'[k].job] = None
    BY <1>1, <1>2, <1>4 DEF Reads, QueueTyped, RequestType, Untold
  <2>3. \A k \in DOMAIN running' :
          running'[k].job \in started' /\ (running'[k].final => told'[running'[k].job] = None)
    BY <1>1, <1>2, <1>4, <1>5 DEF Reads, QueueTyped, RequestType, Untold
  <2>4. \A a \in DOMAIN running', b \in DOMAIN queue' :
          running'[a].final => running'[a].job # queue'[b].job
    BY <1>1, <1>2 DEF Reads, Untold
  <2> QED BY <1>1, <1>7, <2>1, <2>2, <2>3, <2>4 DEF Reads, Untold
<1>9. Reads'
  BY <1>1, <1>6, <1>8 DEF Reads
<1> QED BY <1>1, <1>3, <1>4, <1>9 DEF AnswersOnce, Q!A!Next, Reads, QueueTyped

LEMMA ReadsDestroy ==
  ASSUME Reads, Q!Destroy
  PROVE  Reads' /\ AnswersOnce
<1> DEFINE c == Q!Copied(queue, FALSE)
           new == c \o running
<1>1. /\ gl_helper' = FALSE /\ queue' = <<>> /\ running' = new
      /\ UNCHANGED <<started, told, textures, stray>>
  BY DEF Q!Destroy, Q!CancelRequests
<1>2. queue \in Seq(RequestType) /\ running \in Seq(RequestType)
  BY DEF Reads, QueueTyped
<1>3. /\ c \in Seq(RequestType) /\ DOMAIN c = DOMAIN queue /\ Len(c) = Len(queue)
      /\ \A k \in DOMAIN queue : c[k].job = queue[k].job /\ c[k].final = queue[k].final
  BY <1>2, CopiedShape
<1> HIDE DEF c
<1>4. /\ new \in Seq(RequestType) /\ Len(new) = Len(c) + Len(running)
      /\ \A i \in 1 .. Len(c) + Len(running) :
           new[i] = IF i <= Len(c) THEN c[i] ELSE running[i - Len(c)]
  BY <1>2, <1>3, ConcatProperties
<1>5. /\ DOMAIN new = 1 .. Len(c) + Len(running) /\ DOMAIN c = 1 .. Len(c)
      /\ DOMAIN running = 1 .. Len(running) /\ Len(c) \in Nat /\ Len(running) \in Nat
  BY <1>2, <1>3, <1>4
<1> HIDE DEF new
<1>6. \A i \in DOMAIN new :
        \/ /\ i \in DOMAIN queue /\ new[i].job = queue[i].job /\ new[i].final = queue[i].final
        \/ i > Len(c) /\ i - Len(c) \in DOMAIN running /\ new[i] = running[i - Len(c)]
  BY <1>3, <1>4, <1>5
<1>7. TellsOnce(new)
  <2> SUFFICES ASSUME NEW a \in DOMAIN new, NEW b \in DOMAIN new, a < b, new[a].final, new[b].final
               PROVE  new[a].job # new[b].job
    BY <1>5 DEF TellsOnce
  <2>1. CASE b \in DOMAIN queue /\ new[b].job = queue[b].job /\ new[b].final = queue[b].final
    <3>1. ~ (a > Len(c))
      BY <1>3, <1>5, <2>1
    <3>2. a \in DOMAIN queue /\ new[a].job = queue[a].job /\ new[a].final = queue[a].final
      BY <1>6, <3>1
    <3> QED BY <2>1, <3>2 DEF Reads, Untold, LastTells
  <2>2. CASE b > Len(c) /\ b - Len(c) \in DOMAIN running /\ new[b] = running[b - Len(c)]
    <3>1. CASE a \in DOMAIN queue /\ new[a].job = queue[a].job /\ new[a].final = queue[a].final
      BY <2>2, <3>1 DEF Reads, Untold
    <3>2. CASE a > Len(c) /\ a - Len(c) \in DOMAIN running /\ new[a] = running[a - Len(c)]
      <4>1. a - Len(c) # b - Len(c)
        BY <1>5
      <4> QED BY <2>2, <3>2, <4>1 DEF Reads, Untold, TellsOnce
    <3> QED BY <1>6, <3>1, <3>2
  <2> QED BY <1>6, <2>1, <2>2
<1>8. QueueTyped'
  <2>1. <<>> \in Seq(RequestType)
    OBVIOUS
  <2> QED BY <1>1, <1>4, <2>1 DEF Reads, QueueTyped
<1>9. DOMAIN queue' = {} /\ LastTells(queue')
  BY <1>1 DEF LastTells
<1>10. Untold'
  BY <1>1, <1>6, <1>7, <1>9 DEF Reads, Untold
<1>11. Reads'
  BY <1>1, <1>8, <1>10 DEF Reads
<1> QED BY <1>1, <1>11 DEF AnswersOnce, Q!A!vars

LEMMA ReadsNext ==
  ASSUME Reads, [Q!Next]_(Q!vars)
  PROVE  Reads' /\ AnswersOnce
<1>1. CASE UNCHANGED Q!vars
  <2>1. UNCHANGED <<gl_helper, queue, running, started, told, textures, stray>>
    BY <1>1 DEF Q!vars
  <2> QED BY <2>1 DEF Reads, QueueTyped, Untold, LastTells, TellsOnce, AnswersOnce, Q!A!vars
<1> QED BY <1>1, ReadsStart, ReadsDone, ReadsCallback, ReadsDestroy DEF Q!Next

\* Pixels are copied only into memory that is still there, and no texture outlives its
\* use, whatever is asked, finished or destroyed from within a callback
\* (gl_helper.cc:221-222, 739-740).
THEOREM ReadbackMemoryIsSafe == Spec => []MemoryIsSafe
<1>1. Init => Reads
  BY ReadsInit DEF Init
<1>2. Reads /\ [Next]_vars => Reads'
  <2>1. [Next]_vars => [Q!Next]_(Q!vars)
    BY DEF Next, vars, Life, Shown, Copy, Readback, readbackVars, Q!vars
  <2> QED BY <2>1, ReadsNext
<1>3. Reads => MemoryIsSafe
  BY DEF Reads, QueueTyped, Untold, MemoryIsSafe, Q!TypeOK, Q!MemoryIsSafe,
         Q!WritesIntoLiveMemory, Q!NoTextureIsKept
<1> QED BY <1>1, <1>2, <1>3, PTL DEF Spec

\* The callback of a readback runs at most once, and only for a job that was started:
\* the queue implements what the asker is promised (gl_helper.cc:221-222).
THEOREM ReadbackTellsOnce == Spec => Q!A!Spec
<1>1. Init => Reads /\ Q!A!Init
  BY ReadsInit DEF Init, Q!Init, Q!A!Init
<1>2. Reads /\ [Next]_vars => Reads' /\ [Q!A!Next]_(Q!A!vars)
  <2>1. [Next]_vars => [Q!Next]_(Q!vars)
    BY DEF Next, vars, Life, Shown, Copy, Readback, readbackVars, Q!vars
  <2> QED BY <2>1, ReadsNext DEF AnswersOnce
<1> QED BY <1>1, <1>2, PTL DEF Spec, Q!A!Spec
-----------------------------------------------------------------------------
(* A set as a sequence, in any order.                                      *)

LEMMA SetToSeqShape ==
  ASSUME NEW S, IsFiniteSet(S)
  PROVE  LET q == C!SetToSeq(S)
         IN  /\ q \in Seq(S)
             /\ \A s \in S : \E i \in DOMAIN q : q[i] = s
             /\ \A i, k \in DOMAIN q : q[i] = q[k] => i = k
<1> DEFINE n == Cardinality(S)
           q == C!SetToSeq(S)
<1>1. n \in Nat /\ ExistsBijection(1 .. n, S)
  BY FS_CardinalityType
<1>2. PICK f : f \in Bijection(1 .. n, S)
  BY <1>1, Fun_ExistsBij
<1>3. f \in [1 .. n -> S] /\ \A i, k \in 1 .. n : f[i] = f[k] => i = k
  BY <1>2, Fun_BijectionProperties
<1> HIDE DEF n
<1>4. f \in [1 .. n -> S] /\ C!IsInjective(f)
  <2>1. DOMAIN f = 1 .. n
    BY <1>3
  <2> QED BY <1>3, <2>1 DEF C!IsInjective
<1>5. q = CHOOSE g \in [1 .. n -> S] : C!IsInjective(g)
  BY DEF C!SetToSeq, n, C!Cardinality, Cardinality
<1> HIDE DEF q
<1>6. q \in [1 .. n -> S] /\ C!IsInjective(q)
  BY <1>4, <1>5
<1>7. \A i, k \in 1 .. n : q[i] = q[k] => i = k
  BY <1>6 DEF C!IsInjective
<1>8. q \in Injection(1 .. n, S)
  BY <1>6, <1>7, Fun_IsInj
<1>9. Cardinality(1 .. n) = n
  <2>1. 1 \in Int /\ n \in Int
    BY <1>1
  <2>2. Cardinality(1 .. n) = IF 1 > n THEN 0 ELSE n - 1 + 1
    BY <2>1, FS_Interval
  <2> QED BY <1>1, <2>2
<1>10. q \in Surjection(1 .. n, S)
  BY <1>8, <1>9, FS_Injection DEF n
<1>11. \A s \in S : \E i \in 1 .. n : q[i] = s
  BY <1>10 DEF Surjection
<1>12. q \in Seq(S) /\ DOMAIN q = 1 .. n
  BY <1>1, <1>6
<1> QED BY <1>7, <1>11, <1>12 DEF q

-----------------------------------------------------------------------------
(* Requests for a copy of the screen: the results on their way back.       *)

ResultType == [request : Requests, copy : C!Copies]

\* The requests a queue of results answers.
CarriedBy(q) == {q[i].request : i \in DOMAIN q}

\* It answers none of them twice.
CarriesOnce(q) == \A i, k \in DOMAIN q : q[i].request = q[k].request => i = k

LEMMA ResultsAreFinite ==
  ASSUME NEW rs, IsFiniteSet(rs), NEW copy
  PROVE  IsFiniteSet({[request |-> r, copy |-> copy] : r \in rs})
<1> DEFINE S == {[request |-> r, copy |-> copy] : r \in rs}
           f == [r \in rs |-> [request |-> r, copy |-> copy]]
<1>1. f \in [rs -> S] /\ \A s \in S : \E r \in rs : f[r] = s
  OBVIOUS
<1> HIDE DEF f, S
<1>2. f \in Surjection(rs, S)
  BY <1>1, Fun_IsSurj
<1>3. IsFiniteSet(S)
  BY <1>2, FS_Surjection
<1> QED BY <1>3 DEF S

\* Results for other requests may be added to a queue in any order.
LEMMA ResultsAdded ==
  ASSUME NEW q \in Seq(ResultType), CarriesOnce(q),
         NEW rs \in SUBSET Requests, IsFiniteSet(rs), rs \cap CarriedBy(q) = {},
         NEW copy \in C!Copies
  PROVE  LET new == q \o C!SetToSeq({[request |-> r, copy |-> copy] : r \in rs})
         IN  /\ new \in Seq(ResultType) /\ CarriesOnce(new)
             /\ CarriedBy(new) = CarriedBy(q) \cup rs
<1> DEFINE S == {[request |-> r, copy |-> copy] : r \in rs}
           a == C!SetToSeq(S)
           new == q \o a
<1>1. IsFiniteSet(S)
  BY ResultsAreFinite
<1>2. S \subseteq ResultType
  BY DEF ResultType
<1>3. \A s \in S : s.request \in rs
  OBVIOUS
<1>4. \A s, t \in S : s.request = t.request => s = t
  OBVIOUS
<1>5. \A r \in rs : \E s \in S : s.request = r
  <2> TAKE r \in rs
  <2>1. [request |-> r, copy |-> copy] \in S
    OBVIOUS
  <2>2. [request |-> r, copy |-> copy].request = r
    OBVIOUS
  <2> QED BY <2>1, <2>2
<1> HIDE DEF S
<1>6. /\ a \in Seq(S)
      /\ \A s \in S : \E i \in DOMAIN a : a[i] = s
      /\ \A i, k \in DOMAIN a : a[i] = a[k] => i = k
  BY <1>1, SetToSeqShape
<1>7. a \in Seq(ResultType)
  BY <1>2, <1>6, SeqMonotonic
<1> HIDE DEF a
<1>8. /\ new \in Seq(ResultType) /\ Len(new) = Len(q) + Len(a)
      /\ \A i \in 1 .. Len(q) + Len(a) : new[i] = IF i <= Len(q) THEN q[i] ELSE a[i - Len(q)]
  BY <1>7, ConcatProperties
<1>9. \A i \in DOMAIN a : a[i] \in S
  BY <1>6
<1>10. \A i, k \in DOMAIN a : a[i].request = a[k].request => i = k
  BY <1>4, <1>6, <1>9
<1>11. \A i \in DOMAIN q, k \in DOMAIN a : q[i].request # a[k].request
  BY <1>3, <1>9 DEF CarriedBy
<1> HIDE DEF new
<1>12. DOMAIN q = 1 .. Len(q) /\ DOMAIN a = 1 .. Len(a) /\ Len(q) \in Nat /\ Len(a) \in Nat
       /\ DOMAIN new = 1 .. Len(q) + Len(a)
  BY <1>7, <1>8
<1>13. \A i \in DOMAIN new :
         \/ i \in DOMAIN q /\ new[i] = q[i]
         \/ i > Len(q) /\ i - Len(q) \in DOMAIN a /\ new[i] = a[i - Len(q)]
  BY <1>8, <1>12
<1>14. CarriesOnce(new)
  <2> SUFFICES ASSUME NEW i \in DOMAIN new, NEW k \in DOMAIN new, new[i].request = new[k].request
               PROVE  i = k
    BY DEF CarriesOnce
  <2>1. CASE i \in DOMAIN q /\ new[i] = q[i]
    <3>1. k \in DOMAIN q /\ new[k] = q[k]
      BY <1>11, <1>13, <2>1
    <3> QED BY <2>1, <3>1 DEF CarriesOnce
  <2>2. CASE i > Len(q) /\ i - Len(q) \in DOMAIN a /\ new[i] = a[i - Len(q)]
    <3>1. k > Len(q) /\ k - Len(q) \in DOMAIN a /\ new[k] = a[k - Len(q)]
      BY <1>11, <1>13, <2>2
    <3>2. i - Len(q) = k - Len(q)
      BY <1>10, <2>2, <3>1
    <3> QED BY <1>12, <3>2
  <2> QED BY <1>13, <2>1, <2>2
<1>15. CarriedBy(new) = CarriedBy(q) \cup rs
  <2>1. CarriedBy(new) \subseteq CarriedBy(q) \cup rs
    BY <1>3, <1>9, <1>13 DEF CarriedBy
  <2>2. CarriedBy(q) \subseteq CarriedBy(new)
    <3>1. \A i \in DOMAIN q : i \in DOMAIN new /\ new[i] = q[i]
      BY <1>8, <1>12
    <3> QED BY <3>1 DEF CarriedBy
  <2>3. rs \subseteq CarriedBy(new)
    <3> SUFFICES ASSUME NEW r \in rs PROVE r \in CarriedBy(new)
      OBVIOUS
    <3>1. PICK i \in DOMAIN a : a[i].request = r
      BY <1>5, <1>6
    <3>2. Len(q) + i \in DOMAIN new /\ new[Len(q) + i] = a[i]
      <4>1. Len(q) + i \in 1 .. Len(q) + Len(a) /\ ~ (Len(q) + i <= Len(q)) /\ (Len(q) + i) - Len(q) = i
        BY <1>12
      <4> QED BY <1>8, <1>12, <4>1
    <3> QED BY <3>1, <3>2 DEF CarriedBy
  <2> QED BY <2>1, <2>2, <2>3
<1> QED BY <1>8, <1>14, <1>15 DEF new, a, S
-----------------------------------------------------------------------------
(* Requests for a copy of the screen: where they are.                      *)

Uncommitted == C!ToSet(copy_requests)
Unanswered == {r \in C!Asked : answer[r] = None}

\* Six places that share no request.
Apart(queued, wait, tree, read, help, done) ==
  /\ queued \cap (wait \cup tree \cup read \cup help \cup done) = {}
  /\ wait \cap (tree \cup read \cup help \cup done) = {}
  /\ tree \cap (read \cup help \cup done) = {}
  /\ read \cap (help \cup done) = {}
  /\ help \cap done = {}

CopyTyped ==
  /\ C!Asked \subseteq Requests /\ IsFiniteSet(C!Asked)
  /\ \A r \in C!Asked : asked[r] \in C!Callers
  /\ answer \in [Requests -> C!Results \cup {None}]
  /\ \A r \in Requests \ C!Asked : answer[r] = None
  /\ copy_requests \in Seq(Requests) /\ tasks \in Seq(ResultType)
  /\ texture \in [Requests -> C!Asked \cup {None}]
  /\ idle \subseteq C!Asked /\ acked \subseteq C!Asked

\* Whoever holds a request is its only owner, and holds it once; together they hold
\* what was not answered.
CopyOwned ==
  /\ \A i, k \in DOMAIN copy_requests : copy_requests[i] = copy_requests[k] => i = k
  /\ CarriesOnce(tasks)
  /\ Apart(Uncommitted, pending \ {None}, active, reads, helper, CarriedBy(tasks))
  /\ Uncommitted \cup (pending \ {None}) \cup active \cup reads \cup helper
       \cup CarriedBy(tasks) = Unanswered

Copies == CopyTyped /\ CopyOwned /\ C!NoTextureTwice /\ C!OneUncommittedCapture

CopyAnswersOnce == [C!A!Next]_(C!A!vars)

LEMMA NoneIsNoRequest == None \notin Requests /\ None \notin C!Results
BY AnswersAssumption DEF C!CopyAssumption

LEMMA CopiesInit == C!Init => Copies
<1> SUFFICES ASSUME C!Init PROVE Copies
  OBVIOUS
<1>1. /\ asked = <<>> /\ answer = [r \in Requests |-> None]
      /\ copy_requests = <<>> /\ pending = {} /\ active = {} /\ reads = {}
      /\ tasks = <<>> /\ helper = {}
      /\ texture = [r \in Requests |-> None] /\ idle = {} /\ acked = {}
  BY DEF C!Init
<1>2. C!Asked = {}
  BY <1>1 DEF C!Asked
<1>3. IsFiniteSet({})
  BY FS_EmptySet
<1>4. CopyTyped
  BY <1>1, <1>2, <1>3 DEF CopyTyped
<1>5. CopyOwned
  BY <1>1, <1>2 DEF CopyOwned, Apart, Uncommitted, Unanswered, CarriedBy, CarriesOnce, C!ToSet
<1> QED BY <1>1, <1>4, <1>5 DEF Copies, C!NoTextureTwice, C!OneUncommittedCapture

\* What the runs check follows.
LEMMA CopiesImply == Copies => C!TypeOK /\ C!CopiesHaveOnePlace
<1> SUFFICES ASSUME Copies PROVE C!TypeOK /\ C!CopiesHaveOnePlace
  OBVIOUS
<1> USE DEF Copies
<1>1. C!OnTheWayUntilAnswered
  BY DEF C!OnTheWayUntilAnswered, C!InFlight, CopyOwned, Uncommitted, Unanswered, CarriedBy
<1>2. pending \ {None} \subseteq C!Asked /\ active \subseteq C!Asked
      /\ (pending \ {None}) \cap active = {}
  BY DEF CopyOwned, Apart, Unanswered
<1>3. pending \cap Requests = pending \ {None}
  BY <1>2, NoneIsNoRequest DEF CopyTyped
<1> DEFINE P == pending \ {None}
<1> HIDE DEF P
<1>4. IsFiniteSet(P) /\ IsFiniteSet(active) /\ P \cap active = {} /\ P \cup active \in SUBSET C!Asked
      /\ IsFiniteSet(C!Asked)
  BY <1>2, FS_Subset DEF CopyTyped, P
<1>5. Cardinality(P \cup active) = Cardinality(P) + Cardinality(active) - Cardinality(P \cap active)
  BY <1>4, FS_Union
<1>6. Cardinality(P \cup active) <= Cardinality(C!Asked)
  BY <1>4, FS_Subset
<1>7. Cardinality(P \cap active) = 0 /\ Cardinality(P) \in Nat /\ Cardinality(active) \in Nat
      /\ Cardinality(C!Asked) \in Nat
  BY <1>4, FS_EmptySet, FS_CardinalityType
<1>8. Cardinality(P) + Cardinality(active) <= Cardinality(C!Asked)
  <2> HIDE DEF Copies
  <2> QED BY <1>5, <1>6, <1>7
<1>9. C!Cardinality(pending \cap Requests) + C!Cardinality(active) <= C!Cardinality(C!Asked)
  BY <1>3, <1>8 DEF P, C!Cardinality, Cardinality
<1>10. C!TypeOK
  <2>1. \A i \in DOMAIN tasks : tasks[i] \in ResultType
    <3>1. tasks \in Seq(ResultType)
      BY DEF CopyTyped
    <3> QED BY <3>1
  <2> QED BY <1>9, <2>1 DEF C!TypeOK, CopyTyped, ResultType
<1> QED BY <1>1, <1>10 DEF C!CopiesHaveOnePlace

\* A step that answers some of the requests, all of which wait for that, and moves others.
LEMMA CopyTold ==
  ASSUME Copies, UNCHANGED asked, acked' \subseteq C!Asked,
         NEW ended, ended \subseteq Unanswered, NEW result \in C!Results,
         answer' = [r \in Requests |-> IF r \in ended THEN result ELSE answer[r]],
         texture' = [r \in Requests |-> IF r \in ended THEN None ELSE texture[r]],
         idle' \subseteq idle \cup ({texture[r] : r \in ended} \ {None}),
         copy_requests' \in {copy_requests, <<>>},
         tasks' \in Seq(ResultType), CarriesOnce(tasks'),
         Apart(Uncommitted, pending \ {None}, active, reads, helper, CarriedBy(tasks))',
         (Uncommitted \cup (pending \ {None}) \cup active \cup reads \cup helper
            \cup CarriedBy(tasks))' = Unanswered \ ended
  PROVE  Copies' /\ CopyAnswersOnce
<1> USE DEF Copies
<1>1. C!Asked' = C!Asked
  BY DEF C!Asked
<1>2. ended \subseteq C!Asked /\ ended \subseteq Requests /\ \A r \in ended : answer[r] = None
  BY DEF Unanswered, CopyTyped
<1>3. C!Asked \subseteq Requests /\ answer \in [Requests -> C!Results \cup {None}]
      /\ texture \in [Requests -> C!Asked \cup {None}] /\ idle \subseteq C!Asked
  BY DEF CopyTyped
<1>4. answer' \in [Requests -> C!Results \cup {None}]
  BY <1>3
<1>5. texture' \in [Requests -> C!Asked \cup {None}] /\ idle' \subseteq C!Asked
  BY <1>2, <1>3
<1>6. copy_requests' \in Seq(Requests)
  <2>1. copy_requests \in Seq(Requests) /\ <<>> \in Seq(Requests)
    BY DEF CopyTyped
  <2> QED BY <2>1
<1>7. CopyTyped'
  <2>1. \A r \in Requests \ C!Asked : answer'[r] = None
    BY <1>2, <1>3 DEF CopyTyped
  <2>2. \A r \in C!Asked : asked'[r] \in C!Callers
    BY DEF CopyTyped
  <2>3. IsFiniteSet(C!Asked)
    BY DEF CopyTyped
  <2> QED BY <1>1, <1>3, <1>4, <1>5, <1>6, <2>1, <2>2, <2>3 DEF CopyTyped
<1>8. Unanswered' = Unanswered \ ended
  <2>1. Unanswered' = {r \in C!Asked : answer'[r] = None}
    BY <1>1 DEF Unanswered
  <2>2. \A r \in C!Asked : answer'[r] = None <=> r \notin ended /\ answer[r] = None
    BY <1>3, NoneIsNoRequest
  <2> QED BY <2>1, <2>2 DEF Unanswered
<1>9. CopyOwned'
  <2>1. (\A i, k \in DOMAIN copy_requests : copy_requests[i] = copy_requests[k] => i = k)'
    BY DEF CopyOwned
  <2> QED BY <1>8, <2>1 DEF CopyOwned
<1>10. C!NoTextureTwice'
  <2>1. \A r \in Requests : texture'[r] # None => r \notin ended /\ texture'[r] = texture[r]
    OBVIOUS
  <2>2. \A r \in Requests : texture'[r] # None => texture'[r] \notin idle'
    <3> SUFFICES ASSUME NEW r \in Requests, texture'[r] # None, texture'[r] \in idle'
                 PROVE  FALSE
      OBVIOUS
    <3>1. texture[r] # None /\ r \notin ended /\ texture[r] \notin idle
      BY <2>1 DEF C!NoTextureTwice
    <3>2. PICK s \in ended : texture[s] = texture[r]
      BY <2>1, <3>1
    <3> QED BY <1>2, <3>1, <3>2 DEF C!NoTextureTwice
  <2>3. \A r, s \in Requests : r # s /\ texture'[r] # None => texture'[r] # texture'[s]
    BY <2>1 DEF C!NoTextureTwice
  <2> QED BY <2>2, <2>3 DEF C!NoTextureTwice
<1>11. C!OneUncommittedCapture'
  BY DEF C!OneUncommittedCapture
<1>12. C!A!Next
  <2>1. \A r \in Requests : answer'[r] # answer[r] => r \in C!Asked' /\ answer[r] = None
    BY <1>1, <1>2
  <2> QED BY <1>1, <1>3, <1>4, <2>1 DEF C!A!Next
<1> QED BY <1>7, <1>9, <1>10, <1>11, <1>12 DEF CopyAnswersOnce

\* A step that only moves requests.
LEMMA CopyMoved ==
  ASSUME Copies, UNCHANGED <<asked, answer, texture, idle>>, acked' \subseteq C!Asked,
         copy_requests' \in {copy_requests, <<>>},
         tasks' \in Seq(ResultType), CarriesOnce(tasks'),
         Apart(Uncommitted, pending \ {None}, active, reads, helper, CarriedBy(tasks))',
         (Uncommitted \cup (pending \ {None}) \cup active \cup reads \cup helper
            \cup CarriedBy(tasks))' = Unanswered
  PROVE  Copies' /\ CopyAnswersOnce
<1> DEFINE ended == {}
           Located == /\ copy_requests' \in {copy_requests, <<>>}
                      /\ tasks' \in Seq(ResultType) /\ CarriesOnce(tasks')
                      /\ Apart(Uncommitted, pending \ {None}, active, reads, helper, CarriedBy(tasks))'
                      /\ (Uncommitted \cup (pending \ {None}) \cup active \cup reads \cup helper
                            \cup CarriedBy(tasks))' = Unanswered \ ended
<1>1. ended \subseteq Unanswered /\ "ok" \in C!Results
  BY DEF C!Results
<1>2. answer' = [r \in Requests |-> IF r \in ended THEN "ok" ELSE answer[r]]
  BY DEF Copies, CopyTyped
<1>3. texture' = [r \in Requests |-> IF r \in ended THEN None ELSE texture[r]]
  BY DEF Copies, CopyTyped
<1>4. idle' \subseteq idle \cup ({texture[r] : r \in ended} \ {None})
  OBVIOUS
<1>5. UNCHANGED asked /\ Located
  OBVIOUS
<1> HIDE DEF ended
<1> QED BY <1>1, <1>2, <1>3, <1>4, <1>5, CopyTold
\* What the layer keeps when it is asked for a copy: all but the capture that the new one
\* takes the place of, of which there is at most one.
Superseded(caller) == {copy_requests[i] : i \in C!Superseded(caller)}
Others(caller) ==
  IF C!Superseded(caller) = {} THEN copy_requests
  ELSE C!RemoveAt(copy_requests, CHOOSE i \in C!Superseded(caller) : TRUE)

LEMMA OthersShape ==
  ASSUME Copies, NEW caller \in C!Callers
  PROVE  /\ Others(caller) \in Seq(Requests)
         /\ C!ToSet(Others(caller)) = Uncommitted \ Superseded(caller)
         /\ \A i, k \in DOMAIN Others(caller) : Others(caller)[i] = Others(caller)[k] => i = k
         /\ caller = "subscriber" => \A x \in C!ToSet(Others(caller)) : asked[x] # "subscriber"
<1> DEFINE q == copy_requests
           old == C!Superseded(caller)
<1>1. /\ q \in Seq(Requests) /\ \A i, k \in DOMAIN q : q[i] = q[k] => i = k
      /\ \A i, k \in DOMAIN q : asked[q[i]] = "subscriber" /\ asked[q[k]] = "subscriber" => i = k
  BY DEF Copies, CopyTyped, CopyOwned, C!OneUncommittedCapture
<1>2. Uncommitted = {q[i] : i \in DOMAIN q}
  BY DEF Uncommitted, C!ToSet
<1>3. /\ old \subseteq DOMAIN q
      /\ \A i \in old : caller = "subscriber" /\ asked[q[i]] = "subscriber"
      /\ caller = "subscriber" => \A i \in DOMAIN q : asked[q[i]] = "subscriber" => i \in old
  <2>1. \A i \in DOMAIN q : i <= i
    BY <1>1
  <2> QED BY <1>1, <2>1 DEF C!Superseded, C!FromSubscriber
<1>4. Superseded(caller) = {q[i] : i \in old}
  BY DEF Superseded
<1>5. CASE old = {}
  <2>1. Others(caller) = q /\ Superseded(caller) = {}
    BY <1>4, <1>5 DEF Others
  <2> QED BY <1>1, <1>2, <1>3, <1>5, <2>1 DEF C!ToSet
<1>6. CASE old # {}
  <2> DEFINE n == CHOOSE i \in old : TRUE
             front == SubSeq(q, 1, n - 1)
             rest == SubSeq(q, n + 1, Len(q))
             new == front \o rest
  <2>1. n \in old
    BY <1>6
  <2> HIDE DEF n
  <2>2. n \in 1 .. Len(q) /\ Len(q) \in Nat /\ DOMAIN q = 1 .. Len(q)
    BY <1>1, <1>3, <2>1
  <2>3. old = {n}
    BY <1>1, <1>3, <2>1
  <2>4. Others(caller) = new
    BY <1>6 DEF Others, C!RemoveAt, n
  <2>5. /\ front \in Seq(Requests) /\ Len(front) = n - 1
        /\ \A i \in 1 .. n - 1 : front[i] = q[i]
    <3>1. 1 \in Int /\ n - 1 \in Int /\ \A i \in 1 .. n - 1 : q[i] \in Requests
      BY <1>1, <2>2
    <3>2. /\ front \in Seq(Requests)
          /\ Len(front) = IF 1 <= n - 1 THEN (n - 1) - 1 + 1 ELSE 0
          /\ \A i \in 1 .. (n - 1) - 1 + 1 : front[i] = q[1 + i - 1]
      BY <3>1, SubSeqProperties
    <3> HIDE DEF front
    <3>3. Len(front) = n - 1
      BY <2>2, <3>2
    <3>4. \A i \in 1 .. n - 1 : i \in 1 .. (n - 1) - 1 + 1 /\ 1 + i - 1 = i
      BY <2>2
    <3> QED BY <3>2, <3>3, <3>4
  <2>6. /\ rest \in Seq(Requests) /\ Len(rest) = Len(q) - n
        /\ \A i \in 1 .. Len(q) - n : rest[i] = q[n + i]
    <3>1. n + 1 \in Int /\ Len(q) \in Int /\ \A i \in n + 1 .. Len(q) : q[i] \in Requests
      BY <1>1, <2>2
    <3>2. /\ rest \in Seq(Requests)
          /\ Len(rest) = IF n + 1 <= Len(q) THEN Len(q) - (n + 1) + 1 ELSE 0
          /\ \A i \in 1 .. Len(q) - (n + 1) + 1 : rest[i] = q[n + 1 + i - 1]
      BY <3>1, SubSeqProperties
    <3> HIDE DEF rest
    <3>3. Len(rest) = Len(q) - n
      <4> DEFINE m == Len(q)
                 kept == Len(rest)
      <4>1. n \in 1 .. m /\ m \in Nat /\ kept = IF n + 1 <= m THEN m - (n + 1) + 1 ELSE 0
        BY <2>2, <3>2
      <4> HIDE DEF m, kept
      <4>2. kept = m - n
        BY <4>1
      <4> QED BY <4>2 DEF m, kept
    <3>4. \A i \in 1 .. Len(q) - n : i \in 1 .. Len(q) - (n + 1) + 1 /\ n + 1 + i - 1 = n + i
      BY <2>2
    <3> QED BY <3>2, <3>3, <3>4
  <2> HIDE DEF front, rest
  <2>7. /\ new \in Seq(Requests) /\ Len(new) = Len(front) + Len(rest)
        /\ \A i \in 1 .. Len(front) + Len(rest) :
             new[i] = IF i <= Len(front) THEN front[i] ELSE rest[i - Len(front)]
    BY <2>5, <2>6, ConcatProperties
  <2> HIDE DEF new
  <2>8. DOMAIN new = 1 .. Len(q) - 1
    BY <2>2, <2>5, <2>6, <2>7
  <2>9. \A i \in 1 .. Len(q) - 1 : new[i] = IF i < n THEN q[i] ELSE q[i + 1]
    <3> SUFFICES ASSUME NEW i \in 1 .. Len(q) - 1
                 PROVE  new[i] = IF i < n THEN q[i] ELSE q[i + 1]
      OBVIOUS
    <3>1. i \in 1 .. Len(front) + Len(rest) /\ (i <= Len(front) <=> i < n)
      BY <2>2, <2>5, <2>6
    <3>2. CASE i < n
      BY <2>2, <2>5, <2>7, <3>1, <3>2
    <3>3. CASE ~ (i < n)
      <4>1. i - Len(front) \in 1 .. Len(q) - n /\ n + (i - Len(front)) = i + 1
        BY <2>2, <2>5, <3>3
      <4>2. new[i] = rest[i - Len(front)]
        BY <2>7, <3>1, <3>3
      <4> QED BY <2>6, <3>3, <4>1, <4>2
    <3> QED BY <3>2, <3>3
  <2>10. \A i, k \in DOMAIN new : new[i] = new[k] => i = k
    <3> SUFFICES ASSUME NEW i \in 1 .. Len(q) - 1, NEW k \in 1 .. Len(q) - 1, new[i] = new[k]
                 PROVE  i = k
      BY <2>8
    <3> DEFINE at(j) == IF j < n THEN j ELSE j + 1
    <3>1. \A j \in 1 .. Len(q) - 1 : at(j) \in DOMAIN q /\ new[j] = q[at(j)]
      BY <2>2, <2>9
    <3>2. at(i) = at(k)
      <4> HIDE DEF at
      <4> QED BY <1>1, <3>1
    <3> QED BY <2>2, <3>2
  <2>11. C!ToSet(new) = {q[i] : i \in (1 .. Len(q)) \ {n}}
    <3>1. \A i \in DOMAIN new : \E j \in (1 .. Len(q)) \ {n} : new[i] = q[j]
      <4> SUFFICES ASSUME NEW i \in 1 .. Len(q) - 1
                   PROVE  \E j \in (1 .. Len(q)) \ {n} : new[i] = q[j]
        BY <2>8
      <4>1. i \in 1 .. Len(q) /\ i + 1 \in 1 .. Len(q)
        BY <2>2
      <4>2. CASE i < n
        BY <2>2, <2>9, <4>1, <4>2
      <4>3. CASE ~ (i < n)
        <5>1. i + 1 # n
          BY <2>2, <4>3
        <5> QED BY <2>9, <4>1, <4>3, <5>1
      <4> QED BY <4>2, <4>3
    <3>2. \A j \in (1 .. Len(q)) \ {n} : \E i \in DOMAIN new : new[i] = q[j]
      <4> SUFFICES ASSUME NEW j \in 1 .. Len(q), j # n
                   PROVE  \E i \in 1 .. Len(q) - 1 : new[i] = q[j]
        BY <2>8
      <4>1. CASE j < n
        <5>1. j \in 1 .. Len(q) - 1
          BY <2>2, <4>1
        <5> QED BY <2>9, <4>1, <5>1
      <4>2. CASE j > n
        <5>1. j - 1 \in 1 .. Len(q) - 1 /\ ~ (j - 1 < n) /\ (j - 1) + 1 = j
          BY <2>2, <4>2
        <5> QED BY <2>9, <5>1
      <4> QED BY <2>2, <4>1, <4>2
    <3> QED BY <3>1, <3>2 DEF C!ToSet
  <2>12. C!ToSet(new) = Uncommitted \ {q[n]}
    BY <1>1, <1>2, <2>2, <2>11
  <2>13. \A x \in C!ToSet(new) : asked[x] # "subscriber"
    <3> SUFFICES ASSUME NEW i \in (1 .. Len(q)) \ {n} PROVE asked[q[i]] # "subscriber"
      BY <2>11
    <3> QED BY <1>1, <1>3, <2>1, <2>2
  <2>14. Superseded(caller) = {q[n]}
    BY <1>4, <2>3
  <2> QED BY <2>4, <2>7, <2>10, <2>12, <2>13, <2>14
<1> QED BY <1>5, <1>6
\* A new request comes last in the layer's queue.
LEMMA CopyQueued ==
  ASSUME Copies, NEW r \in Requests \ C!Asked, NEW caller \in C!Callers,
         asked' = [x \in C!Asked \cup {r} |-> IF x = r THEN caller ELSE asked[x]],
         copy_requests' = Append(Others(caller), r)
  PROVE  /\ copy_requests' \in Seq(Requests)
         /\ \A i, k \in DOMAIN copy_requests' : copy_requests'[i] = copy_requests'[k] => i = k
         /\ Uncommitted' = (Uncommitted \ Superseded(caller)) \cup {r}
         /\ C!OneUncommittedCapture'
<1> DEFINE q == Others(caller)
           new == Append(q, r)
<1>1. /\ q \in Seq(Requests) /\ C!ToSet(q) = Uncommitted \ Superseded(caller)
      /\ \A i, k \in DOMAIN q : q[i] = q[k] => i = k
      /\ caller = "subscriber" => \A x \in C!ToSet(q) : asked[x] # "subscriber"
  BY OthersShape
<1>2. C!ToSet(q) \subseteq C!Asked
  BY <1>1 DEF Copies, CopyOwned, Unanswered
<1> HIDE DEF q
<1>3. /\ new \in Seq(Requests) /\ Len(new) = Len(q) + 1
      /\ \A i \in 1 .. Len(q) : new[i] = q[i]
      /\ new[Len(q) + 1] = r
  BY <1>1, AppendProperties
<1>4. Len(q) \in Nat /\ DOMAIN q = 1 .. Len(q) /\ DOMAIN new = 1 .. Len(q) + 1
  BY <1>1, <1>3
<1>5. copy_requests' = new
  BY DEF q
<1> HIDE DEF new
<1>6. \A i \in DOMAIN new : \/ i \in DOMAIN q /\ new[i] = q[i] /\ q[i] \in C!ToSet(q)
                            \/ i = Len(q) + 1 /\ new[i] = r
  BY <1>3, <1>4 DEF C!ToSet
<1>7. \A i, k \in DOMAIN new : new[i] = new[k] => i = k
  BY <1>1, <1>2, <1>6
<1>8. C!ToSet(new) = C!ToSet(q) \cup {r}
  <2>1. C!ToSet(new) \subseteq C!ToSet(q) \cup {r}
    BY <1>6 DEF C!ToSet
  <2>2. C!ToSet(q) \subseteq C!ToSet(new)
    <3>1. \A i \in DOMAIN q : i \in DOMAIN new /\ new[i] = q[i]
      BY <1>3, <1>4
    <3> QED BY <3>1 DEF C!ToSet
  <2>3. r \in C!ToSet(new)
    <3>1. Len(q) + 1 \in DOMAIN new
      BY <1>4
    <3> QED BY <1>3, <3>1 DEF C!ToSet
  <2> QED BY <2>1, <2>2, <2>3
<1>9. C!OneUncommittedCapture'
  <2>1. \A x \in C!ToSet(q) : asked'[x] = asked[x]
    BY <1>2
  <2>2. asked'[r] = caller
    OBVIOUS
  <2>3. C!ToSet(q) \subseteq Uncommitted
    BY <1>1
  <2>4. \A x, y \in Uncommitted : asked[x] = "subscriber" /\ asked[y] = "subscriber" => x = y
    BY DEF Copies, C!OneUncommittedCapture, Uncommitted, C!ToSet
  <2> SUFFICES ASSUME NEW i \in DOMAIN new, NEW k \in DOMAIN new,
                      asked'[new[i]] = "subscriber", asked'[new[k]] = "subscriber"
               PROVE  new[i] = new[k]
    BY <1>5, <1>7 DEF C!OneUncommittedCapture
  <2> QED BY <1>1, <1>6, <2>1, <2>2, <2>3, <2>4
<1>10. Uncommitted' = C!ToSet(new)
  BY <1>5 DEF Uncommitted, C!ToSet
<1> QED BY <1>1, <1>3, <1>5, <1>7, <1>8, <1>9, <1>10 DEF q

LEMMA CopyAsk == ASSUME Copies, C!Ask PROVE Copies' /\ CopyAnswersOnce
<1>1. PICK r \in Requests \ C!Asked, caller \in C!Callers, possible \in BOOLEAN :
        /\ asked' = [x \in C!Asked \cup {r} |-> IF x = r THEN caller ELSE asked[x]]
        /\ IF caller = "subscriber"
           THEN C!AttemptFrameSubscriberCapture(r, possible)
           ELSE C!CopyFromCompositingSurface(r, caller, possible)
        /\ UNCHANGED <<pending, active, reads, tasks, helper, acked>>
  BY DEF C!Ask
<1>2. C!Asked' = C!Asked \cup {r} /\ asked'[r] = caller /\ \A x \in C!Asked : asked'[x] = asked[x]
  BY <1>1 DEF C!Asked
<1>3. IsFiniteSet(C!Asked')
  <2>1. IsFiniteSet(C!Asked \cup {r})
    BY FS_AddElement DEF Copies, CopyTyped
  <2> QED BY <1>2, <2>1
<1>4. answer[r] = None /\ r \notin Unanswered
  BY DEF Copies, CopyTyped, Unanswered
<1>5. /\ C!Asked \subseteq Requests /\ answer \in [Requests -> C!Results \cup {None}]
      /\ texture \in [Requests -> C!Asked \cup {None}] /\ idle \subseteq C!Asked
  BY DEF Copies, CopyTyped
<1> DEFINE gone == IF caller = "subscriber" THEN Superseded(caller)
                   ELSE IF possible THEN {} ELSE {r}
<1>6. answer' = [x \in Requests |-> IF x \in gone THEN "failed" ELSE answer[x]]
  <2>1. CASE caller = "subscriber"
    BY <1>1, <2>1 DEF C!AttemptFrameSubscriberCapture, C!Answered, Superseded
  <2>2. CASE caller # "subscriber"
    BY <1>1, <1>5, <2>2 DEF C!CopyFromCompositingSurface, C!Answered
  <2> QED BY <2>1, <2>2
<1>7. Superseded(caller) \subseteq Uncommitted
  <2>1. C!Superseded(caller) \subseteq DOMAIN copy_requests
    BY DEF C!Superseded, C!FromSubscriber
  <2> QED BY <2>1 DEF Superseded, Uncommitted, C!ToSet
<1>8. Uncommitted \subseteq Unanswered
  BY DEF Copies, CopyOwned
<1>9. gone \subseteq C!Asked' /\ \A x \in gone : answer[x] = None
  BY <1>2, <1>4, <1>7, <1>8 DEF Unanswered
<1>10. answer' \in [Requests -> C!Results \cup {None}]
       /\ \A x \in Requests \ C!Asked' : answer'[x] = None
  <2>1. "failed" \in C!Results
    BY DEF C!Results
  <2>2. \A x \in Requests \ C!Asked : answer[x] = None
    BY DEF Copies, CopyTyped
  <2> HIDE DEF gone
  <2> QED BY <1>2, <1>5, <1>6, <1>9, <2>1, <2>2
<1>11. Unanswered' = (Unanswered \cup {r}) \ gone
  <2>1. Unanswered' = {x \in C!Asked \cup {r} : answer'[x] = None}
    BY <1>2 DEF Unanswered
  <2>2. \A x \in C!Asked \cup {r} : answer'[x] = None <=> x \notin gone /\ answer[x] = None
    <3> HIDE DEF gone
    <3> QED BY <1>5, <1>6, NoneIsNoRequest DEF C!Results
  <2> HIDE DEF gone
  <2> QED BY <1>4, <2>1, <2>2 DEF Unanswered
<1>12. /\ copy_requests' \in Seq(Requests)
       /\ \A i, k \in DOMAIN copy_requests' : copy_requests'[i] = copy_requests'[k] => i = k
       /\ Uncommitted' \cup gone = Uncommitted \cup {r} /\ Uncommitted' \cap gone = {}
       /\ C!OneUncommittedCapture'
  <2>1. CASE caller = "subscriber" \/ possible
    <3>1. copy_requests' = Append(Others(caller), r)
      BY <1>1, <2>1 DEF C!AttemptFrameSubscriberCapture, C!CopyFromCompositingSurface,
                        C!RequestCopyOfOutput, Others
    <3>2. caller # "subscriber" => Superseded(caller) = {}
      BY DEF Superseded, C!Superseded
    <3>3. /\ copy_requests' \in Seq(Requests)
          /\ \A i, k \in DOMAIN copy_requests' : copy_requests'[i] = copy_requests'[k] => i = k
          /\ Uncommitted' = (Uncommitted \ Superseded(caller)) \cup {r}
          /\ C!OneUncommittedCapture'
      BY <1>1, <3>1, CopyQueued
    <3> QED BY <1>4, <1>7, <1>8, <2>1, <3>2, <3>3
  <2>2. CASE caller # "subscriber" /\ ~ possible
    <3>1. copy_requests' = copy_requests
      BY <1>1, <2>2 DEF C!CopyFromCompositingSurface
    <3>2. Uncommitted' = Uncommitted
      BY <3>1 DEF Uncommitted
    <3>3. \A i \in DOMAIN copy_requests : copy_requests[i] \in C!Asked
      BY <1>8 DEF Uncommitted, C!ToSet, Unanswered
    <3>4. C!OneUncommittedCapture'
      BY <1>2, <3>1, <3>3 DEF C!OneUncommittedCapture, Copies
    <3> QED BY <1>4, <1>8, <2>2, <3>1, <3>2, <3>4 DEF Copies, CopyTyped, CopyOwned
  <2> QED BY <2>1, <2>2
<1>13. CopyOwned'
  <2>1. UNCHANGED <<CarriedBy(tasks), pending, active, reads, helper, tasks>>
    BY <1>1
  <2>2. /\ CarriesOnce(tasks) /\ Apart(Uncommitted, pending \ {None}, active, reads, helper, CarriedBy(tasks))
        /\ Uncommitted \cup (pending \ {None}) \cup active \cup reads \cup helper
             \cup CarriedBy(tasks) = Unanswered
    BY DEF Copies, CopyOwned
  <2>3. gone \subseteq Uncommitted \cup {r}
    BY <1>12
  <2> HIDE DEF gone
  <2>4. Uncommitted' = (Uncommitted \cup {r}) \ gone
    BY <1>12
  <2>5. CarriesOnce(tasks)'
    BY <1>1, <2>2 DEF CarriesOnce
  <2>6. Apart(Uncommitted, pending \ {None}, active, reads, helper, CarriedBy(tasks))'
    BY <1>4, <2>1, <2>2, <2>4 DEF Apart
  <2>7. (Uncommitted \cup (pending \ {None}) \cup active \cup reads \cup helper
             \cup CarriedBy(tasks))' = Unanswered'
    BY <1>4, <1>11, <2>1, <2>2, <2>3, <2>4 DEF Apart
  <2> QED BY <1>12, <2>5, <2>6, <2>7 DEF CopyOwned
<1>14. /\ texture' \in [Requests -> C!Asked' \cup {None}] /\ idle' \subseteq C!Asked'
       /\ C!NoTextureTwice'
  <2>1. CASE caller = "subscriber"
    <3> DEFINE old == Superseded(caller)
    <3>1. PICK mine \in C!Asked \cup {r, None} :
            /\ mine \in idle \cup {r, None}
            /\ texture' = [x \in Requests |-> IF x = r THEN mine ELSE IF x \in old THEN None ELSE texture[x]]
            /\ idle' \subseteq (idle \ {mine}) \cup ({texture[x] : x \in old} \ {None})
      <4> DEFINE mine == IF idle # {} \/ possible THEN C!SubscriberTexture(r) ELSE None
      <4>1. mine \in idle \cup {r, None}
        BY DEF C!SubscriberTexture
      <4>2. texture' = [x \in Requests |-> IF x = r THEN mine ELSE IF x \in old THEN None ELSE texture[x]]
        BY <1>1, <2>1 DEF C!AttemptFrameSubscriberCapture, Superseded
      <4>3. \E subscribed \in BOOLEAN :
              idle' = C!PopTexture(mine) \cup C!ReturnSubscriberTexture(old, subscribed)
        BY <1>1, <2>1 DEF C!AttemptFrameSubscriberCapture, Superseded
      <4>4. idle' \subseteq (idle \ {mine}) \cup ({texture[x] : x \in old} \ {None})
        <5> HIDE DEF mine, old
        <5> QED BY <4>3 DEF C!PopTexture, C!ReturnSubscriberTexture
      <4> QED BY <1>5, <4>1, <4>2, <4>4
    <3>2. old \subseteq C!Asked
      BY <1>7, <1>8 DEF Unanswered
    <3>3. /\ \A x \in Requests : texture[x] # None => texture[x] \notin idle
          /\ \A x, y \in Requests : x # y /\ texture[x] # None => texture[x] # texture[y]
      BY DEF Copies, C!NoTextureTwice
    <3> HIDE DEF old
    <3>4. texture' \in [Requests -> C!Asked' \cup {None}]
      BY <1>2, <1>5, <3>1
    <3>5. idle' \subseteq C!Asked'
      BY <1>2, <1>5, <3>1, <3>2
    <3>6. \A x \in Requests \ {r} : texture'[x] # None => x \notin old /\ texture'[x] = texture[x]
      BY <3>1
    <3>7. texture'[r] = mine /\ r \notin C!Asked /\ r \in Requests
      BY <3>1
    <3>8. \A x \in Requests : texture'[x] # None => texture'[x] \notin idle'
      <4> SUFFICES ASSUME NEW x \in Requests, texture'[x] # None, texture'[x] \in idle'
                   PROVE  FALSE
        OBVIOUS
      <4>1. CASE x = r
        <5>1. mine # None /\ mine \in {texture[y] : y \in old}
          BY <3>1, <3>7, <4>1
        <5>2. PICK y \in old : texture[y] = mine
          BY <5>1
        <5>3. y \in Requests /\ texture[y] \in C!Asked /\ texture[y] \notin idle
          BY <1>5, <3>2, <3>3, <5>1, <5>2
        <5> QED BY <3>1, <3>7, <5>1, <5>2, <5>3
      <4>2. CASE x # r
        <5>1. texture[x] # None /\ x \notin old /\ texture[x] \notin idle /\ texture[x] \in idle'
          BY <3>3, <3>6, <4>2
        <5>2. PICK y \in old : texture[y] = texture[x]
          BY <3>1, <5>1
        <5> QED BY <1>5, <3>2, <3>3, <5>1, <5>2
      <4> QED BY <4>1, <4>2
    <3>9. \A x, y \in Requests : x # y /\ texture'[x] # None => texture'[x] # texture'[y]
      <4>1. \A x \in Requests \ {r} : texture'[x] # None => texture'[x] # mine
        <5> SUFFICES ASSUME NEW x \in Requests \ {r}, texture'[x] # None PROVE texture'[x] # mine
          OBVIOUS
        <5>1. texture'[x] = texture[x] /\ texture[x] \in C!Asked /\ texture[x] \notin idle
          BY <1>5, <3>3, <3>6
        <5> QED BY <3>1, <3>7, <5>1
      <4>2. \A x, y \in Requests \ {r} : x # y /\ texture'[x] # None => texture'[x] # texture'[y]
        BY <3>3, <3>6
      <4> QED BY <3>7, <4>1, <4>2
    <3> QED BY <3>4, <3>5, <3>8, <3>9 DEF C!NoTextureTwice
  <2>2. CASE caller # "subscriber"
    <3>1. texture' = texture /\ idle' = idle
      BY <1>1, <2>2 DEF C!CopyFromCompositingSurface, C!mailboxes
    <3> QED BY <1>2, <1>5, <3>1 DEF Copies, C!NoTextureTwice
  <2> QED BY <2>1, <2>2
<1>15. CopyTyped'
  <2>1. acked' \subseteq C!Asked' /\ tasks' \in Seq(ResultType)
    BY <1>1, <1>2 DEF Copies, CopyTyped
  <2>2. \A x \in C!Asked' : asked'[x] \in C!Callers
    BY <1>2 DEF Copies, CopyTyped
  <2> QED BY <1>2, <1>3, <1>5, <1>10, <1>12, <1>14, <2>1, <2>2 DEF CopyTyped
<1>16. C!A!Next
  <2>1. \A x \in Requests : answer'[x] # answer[x] => x \in C!Asked' /\ answer[x] = None
    <3> HIDE DEF gone
    <3> QED BY <1>6, <1>9
  <2> QED BY <1>2, <1>5, <1>10, <2>1 DEF C!A!Next
<1> QED BY <1>12, <1>13, <1>14, <1>15, <1>16 DEF Copies, CopyAnswersOnce
\* The requests that wait are finitely many, and so are any of them.
LEMMA WaitingIsFinite ==
  ASSUME Copies, NEW rs, rs \subseteq Unanswered
  PROVE  IsFiniteSet(rs) /\ rs \subseteq Requests
<1>1. rs \in SUBSET C!Asked
  BY DEF Unanswered
<1> QED BY <1>1, FS_Subset DEF Copies, CopyTyped

\* Empty results for some of them.
LEMMA EmptiesAdded ==
  ASSUME Copies, NEW rs, rs \subseteq Unanswered, rs \cap CarriedBy(tasks) = {}
  PROVE  LET new == tasks \o C!Empty(rs)
         IN  /\ new \in Seq(ResultType) /\ CarriesOnce(new)
             /\ CarriedBy(new) = CarriedBy(tasks) \cup rs
<1>1. IsFiniteSet(rs) /\ rs \in SUBSET Requests
  BY WaitingIsFinite
<1>2. tasks \in Seq(ResultType) /\ CarriesOnce(tasks) /\ "empty" \in C!Copies
  BY DEF Copies, CopyTyped, CopyOwned, C!Copies
<1> QED BY <1>1, <1>2, ResultsAdded DEF C!Empty

\* All that CopyOwned says of where requests are.
LEMMA Places ==
  ASSUME Copies
  PROVE  /\ tasks \in Seq(ResultType) /\ CarriesOnce(tasks)
         /\ Apart(Uncommitted, pending \ {None}, active, reads, helper, CarriedBy(tasks))
         /\ Uncommitted \cup (pending \ {None}) \cup active \cup reads \cup helper
              \cup CarriedBy(tasks) = Unanswered
         /\ acked \subseteq C!Asked
BY DEF Copies, CopyTyped, CopyOwned

LEMMA NothingUncommitted == C!ToSet(<<>>) = {}
BY DEF C!ToSet

LEMMA CopyDestroyHost == ASSUME Copies, C!DestroyHost PROVE Copies' /\ CopyAnswersOnce
<1>1. PICK ended : ended = Uncommitted
  OBVIOUS
<1>2. /\ UNCHANGED <<asked, pending, active, reads, tasks, helper, acked>>
      /\ copy_requests' = <<>> /\ idle' = {}
      /\ answer' = [r \in Requests |-> IF r \in ended THEN "failed" ELSE answer[r]]
      /\ texture' = [r \in Requests |-> IF r \in ended THEN None ELSE texture[r]]
  BY <1>1 DEF C!DestroyHost, C!Answered, Uncommitted
<1>3. Uncommitted' = {} /\ CarriedBy(tasks)' = CarriedBy(tasks) /\ "failed" \in C!Results
  BY <1>2, NothingUncommitted DEF Uncommitted, CarriedBy, C!Results
<1>4. ended \subseteq Unanswered /\ acked' \subseteq C!Asked /\ idle' \subseteq idle \cup ({texture[r] : r \in ended} \ {None})
  BY <1>1, <1>2, Places
<1>5. tasks' \in Seq(ResultType) /\ CarriesOnce(tasks')
  BY <1>2, Places
<1>6. Apart(Uncommitted, pending \ {None}, active, reads, helper, CarriedBy(tasks))'
  BY <1>2, <1>3, Places DEF Apart
<1>7. (Uncommitted \cup (pending \ {None}) \cup active \cup reads \cup helper
            \cup CarriedBy(tasks))' = Unanswered \ ended
  BY <1>1, <1>2, <1>3, Places DEF Apart
<1> QED BY <1>2, <1>3, <1>4, <1>5, <1>6, <1>7, CopyTold

\* What comes to the active tree stays there, or is destroyed with it.
LEMMA CopyActivated ==
  ASSUME Copies, NEW rs, rs \subseteq Unanswered, rs \cap (active \cup CarriedBy(tasks)) = {},
         IF host THEN active' = active \cup rs /\ UNCHANGED tasks
         ELSE active' = {} /\ tasks' = tasks \o C!Empty(active \cup rs)
  PROVE  /\ tasks' \in Seq(ResultType) /\ CarriesOnce(tasks')
         /\ active' \cap CarriedBy(tasks)' = {}
         /\ active' \cup CarriedBy(tasks)' = active \cup rs \cup CarriedBy(tasks)
<1>1. CASE host
  <2>1. active' = active \cup rs /\ tasks' = tasks
    BY <1>1
  <2>2. CarriedBy(tasks)' = CarriedBy(tasks)
    BY <2>1 DEF CarriedBy
  <2> QED BY <2>1, <2>2, Places DEF Apart
<1>2. CASE ~ host
  <2>1. active' = {} /\ tasks' = tasks \o C!Empty(active \cup rs)
    BY <1>2
  <2> DEFINE gone == active \cup rs
  <2>2. gone \subseteq Unanswered /\ gone \cap CarriedBy(tasks) = {}
    BY Places DEF Apart
  <2> HIDE DEF gone
  <2>3. /\ tasks \o C!Empty(gone) \in Seq(ResultType) /\ CarriesOnce(tasks \o C!Empty(gone))
        /\ CarriedBy(tasks \o C!Empty(gone)) = CarriedBy(tasks) \cup gone
    BY <2>2, EmptiesAdded
  <2>4. CarriedBy(tasks)' = CarriedBy(tasks')
    BY DEF CarriedBy
  <2> QED BY <2>1, <2>3, <2>4 DEF gone
<1> QED BY <1>1, <1>2

LEMMA CopyFrame == ASSUME Copies, C!Frame PROVE Copies' /\ CopyAnswersOnce
<1>1. CASE C!Commit
  <2>1. /\ copy_requests' = <<>> /\ UNCHANGED <<asked, answer, reads, helper, texture, idle, acked>>
        /\ pending = {}
    BY <1>1 DEF C!Commit, C!Elsewhere, C!mailboxes
  <2>2. Uncommitted' = {}
    BY <2>1, NothingUncommitted DEF Uncommitted
  <2>3. CASE single
    <3>1. PICK rs : rs = Uncommitted
      OBVIOUS
    <3>2. /\ pending' = pending
          /\ IF host THEN active' = active \cup rs /\ UNCHANGED tasks
             ELSE active' = {} /\ tasks' = tasks \o C!Empty(active \cup rs)
      BY <1>1, <2>3, <3>1 DEF C!Commit, C!Activated, C!Posted, C!Pushed, Uncommitted
    <3>3. rs \subseteq Unanswered /\ rs \cap (active \cup CarriedBy(tasks)) = {}
      BY <3>1, Places DEF Apart
    <3>4. /\ tasks' \in Seq(ResultType) /\ CarriesOnce(tasks')
          /\ active' \cap CarriedBy(tasks)' = {}
          /\ active' \cup CarriedBy(tasks)' = active \cup rs \cup CarriedBy(tasks)
      BY <3>2, <3>3, CopyActivated
    <3>5. Apart(Uncommitted, pending \ {None}, active, reads, helper, CarriedBy(tasks))'
      BY <2>1, <2>2, <3>1, <3>2, <3>4, Places DEF Apart
    <3>6. (Uncommitted \cup (pending \ {None}) \cup active \cup reads \cup helper
            \cup CarriedBy(tasks))' = Unanswered
      BY <2>1, <2>2, <3>1, <3>2, <3>4, Places
    <3>7. acked' \subseteq C!Asked
      BY <2>1, Places
    <3> QED BY <2>1, <3>4, <3>5, <3>6, <3>7, CopyMoved
  <2>4. CASE ~ single
    <3>1. pending' = Uncommitted \cup {None} /\ active' = active /\ tasks' = tasks
      BY <1>1, <2>4 DEF C!Commit, C!Pushed, Uncommitted
    <3>2. CarriedBy(tasks)' = CarriedBy(tasks) /\ None \notin Unanswered
      <4>1. C!Asked \subseteq Requests
        BY DEF Copies, CopyTyped
      <4> QED BY <3>1, <4>1, NoneIsNoRequest DEF CarriedBy, Unanswered
    <3>3. pending' \ {None} = Uncommitted
      BY <3>1, <3>2, Places
    <3>4. Apart(Uncommitted, pending \ {None}, active, reads, helper, CarriedBy(tasks))'
      BY <2>1, <2>2, <3>1, <3>2, <3>3, Places DEF Apart
    <3>5. (Uncommitted \cup (pending \ {None}) \cup active \cup reads \cup helper
            \cup CarriedBy(tasks))' = Unanswered
      BY <2>1, <2>2, <3>1, <3>2, <3>3, Places
    <3>6. acked' \subseteq C!Asked /\ tasks' \in Seq(ResultType) /\ CarriesOnce(tasks')
      BY <2>1, <3>1, Places
    <3> QED BY <2>1, <3>4, <3>5, <3>6, CopyMoved
  <2> QED BY <2>3, <2>4
<1>2. CASE C!ActivateSyncTree
  <2>1. /\ copy_requests' = copy_requests /\ pending' = {}
        /\ UNCHANGED <<asked, answer, reads, helper, texture, idle, acked>>
    BY <1>2 DEF C!ActivateSyncTree, C!Elsewhere, C!mailboxes
  <2>2. PICK rs : rs = pending \ {None}
    OBVIOUS
  <2>3. IF host THEN active' = active \cup rs /\ UNCHANGED tasks
        ELSE active' = {} /\ tasks' = tasks \o C!Empty(active \cup rs)
    BY <1>2, <2>2 DEF C!ActivateSyncTree, C!Activated, C!Posted
  <2>4. rs \subseteq Unanswered /\ rs \cap (active \cup CarriedBy(tasks)) = {}
    BY <2>2, Places DEF Apart
  <2>5. /\ tasks' \in Seq(ResultType) /\ CarriesOnce(tasks')
        /\ active' \cap CarriedBy(tasks)' = {}
        /\ active' \cup CarriedBy(tasks)' = active \cup rs \cup CarriedBy(tasks)
    BY <2>3, <2>4, CopyActivated
  <2>6. Uncommitted' = Uncommitted
    BY <2>1 DEF Uncommitted
  <2>7. Apart(Uncommitted, pending \ {None}, active, reads, helper, CarriedBy(tasks))'
    BY <2>1, <2>2, <2>5, <2>6, Places DEF Apart
  <2>8. (Uncommitted \cup (pending \ {None}) \cup active \cup reads \cup helper
            \cup CarriedBy(tasks))' = Unanswered
    BY <2>1, <2>2, <2>5, <2>6, Places
  <2>9. acked' \subseteq C!Asked
    BY <2>1, Places
  <2> QED BY <2>1, <2>5, <2>7, <2>8, <2>9, CopyMoved
<1> QED BY <1>1, <1>2 DEF C!Frame
\* Requests that leave the active tree or the GPU and are on their way back at once.
LEMMA CopySentBack ==
  ASSUME Copies, UNCHANGED <<asked, answer, copy_requests, pending, helper, texture, idle>>,
         acked' \subseteq C!Asked, tasks' \in Seq(ResultType), CarriesOnce(tasks'),
         Apart({}, {}, active', reads', {}, CarriedBy(tasks')),
         active' \cup reads' \cup CarriedBy(tasks') = active \cup reads \cup CarriedBy(tasks)
  PROVE  Copies' /\ CopyAnswersOnce
<1>1. Uncommitted' = Uncommitted /\ CarriedBy(tasks)' = CarriedBy(tasks')
  BY DEF Uncommitted, CarriedBy
<1>2. Apart(Uncommitted, pending \ {None}, active, reads, helper, CarriedBy(tasks))'
  BY <1>1, Places DEF Apart
<1>3. (Uncommitted \cup (pending \ {None}) \cup active \cup reads \cup helper
         \cup CarriedBy(tasks))' = Unanswered
  BY <1>1, Places
<1> QED BY <1>2, <1>3, CopyMoved

LEMMA CopyDraw == ASSUME Copies, C!CalculateRenderPasses PROVE Copies' /\ CopyAnswersOnce
<1>1. UNCHANGED <<asked, answer, copy_requests, pending, helper, texture, idle>>
  BY DEF C!CalculateRenderPasses, C!mailboxes
<1>2. PICK frame \in SUBSET active :
        /\ active' = {}
        /\ \/ \E bitmaps \in SUBSET frame, nothing \in SUBSET frame :
                C!GetFramebufferPixelsAsync(frame, bitmaps, nothing \cup (active \ frame))
           \/ \E result : C!AbortDraw(frame, active \ frame, result)
  <2>1. PICK surfaces \in SUBSET active, missing \in BOOLEAN, animated \in BOOLEAN,
             high_res \in BOOLEAN, resourceless \in BOOLEAN :
          LET taken == C!Taken(surfaces)
              result == C!DrawResult(missing, animated, high_res, resourceless)
          IN /\ active' = active \ (taken.frame \cup taken.left)
             /\ IF result = "success"
                THEN /\ needs' = [commit |-> needs.commit \/ taken.frame # {}, draw |-> FALSE]
                     /\ \E bitmaps \in SUBSET taken.frame, nothing \in SUBSET taken.frame :
                          C!GetFramebufferPixelsAsync(taken.frame, bitmaps, nothing \cup taken.left)
                ELSE C!AbortDraw(taken.frame, taken.left, result)
    BY DEF C!CalculateRenderPasses
  <2> DEFINE result == C!DrawResult(missing, animated, high_res, resourceless)
             rest == active \ surfaces
  <2>2. C!Taken(surfaces).frame = surfaces /\ C!Taken(surfaces).left = rest
    BY DEF C!Taken
  <2> HIDE DEF result
  <2>3. active' = active \ (surfaces \cup rest)
    BY <2>1, <2>2
  <2>4. \/ \E bitmaps \in SUBSET surfaces, nothing \in SUBSET surfaces :
             C!GetFramebufferPixelsAsync(surfaces, bitmaps, nothing \cup rest)
        \/ C!AbortDraw(surfaces, rest, result)
    BY <2>1, <2>2 DEF result
  <2>5. active' = {}
    BY <2>3
  <2> QED BY <2>4, <2>5
<1>3. active \subseteq Unanswered /\ active \cap reads = {} /\ active \cap CarriedBy(tasks) = {}
      /\ reads \cap CarriedBy(tasks) = {}
  BY Places DEF Apart
<1>4. CASE \E bitmaps \in SUBSET frame, nothing \in SUBSET frame :
             C!GetFramebufferPixelsAsync(frame, bitmaps, nothing \cup (active \ frame))
  <2>1. PICK bitmaps \in SUBSET frame, nothing \in SUBSET frame :
          C!GetFramebufferPixelsAsync(frame, bitmaps, nothing \cup (active \ frame))
    BY <1>4
  <2>2. PICK none \in SUBSET active : none = nothing \cup (active \ frame)
    OBVIOUS
  <2>3. PICK shown \in SUBSET active : shown = frame \ (bitmaps \cup none)
    OBVIOUS
  <2>4. PICK q : q = tasks \o C!Empty(none)
    OBVIOUS
  <2>5. /\ tasks' = q \o C!SetToSeq({[request |-> r, copy |-> "texture"] : r \in shown})
        /\ reads' = reads \cup (bitmaps \ none)
        /\ acked' = acked \cup {r \in shown : asked[r] = "screenshot"}
    BY <2>1, <2>2, <2>3, <2>4 DEF C!GetFramebufferPixelsAsync
  <2>6. q \in Seq(ResultType) /\ CarriesOnce(q) /\ CarriedBy(q) = CarriedBy(tasks) \cup none
    <3>1. none \subseteq Unanswered /\ none \cap CarriedBy(tasks) = {}
      BY <1>3
    <3> QED BY <2>4, <3>1, EmptiesAdded
  <2>7. /\ tasks' \in Seq(ResultType) /\ CarriesOnce(tasks')
        /\ CarriedBy(tasks') = CarriedBy(q) \cup shown
    <3>1. shown \subseteq Unanswered /\ shown \cap CarriedBy(q) = {} /\ "texture" \in C!Copies
      BY <1>3, <2>3, <2>6 DEF C!Copies
    <3>2. IsFiniteSet(shown) /\ shown \in SUBSET Requests
      BY <3>1, WaitingIsFinite
    <3> QED BY <2>5, <2>6, <3>1, <3>2, ResultsAdded
  <2>8. Apart({}, {}, active', reads', {}, CarriedBy(tasks'))
    BY <1>2, <1>3, <2>3, <2>5, <2>6, <2>7 DEF Apart
  <2>9. active' \cup reads' \cup CarriedBy(tasks') = active \cup reads \cup CarriedBy(tasks)
    BY <1>2, <2>1, <2>2, <2>3, <2>5, <2>6, <2>7
  <2>10. acked' \subseteq C!Asked
    BY <1>3, <2>5, Places DEF Unanswered
  <2> QED BY <1>1, <2>7, <2>8, <2>9, <2>10, CopySentBack
<1>5. CASE \E result : C!AbortDraw(frame, active \ frame, result)
  <2>1. /\ tasks' = tasks \o C!Empty(frame \cup (active \ frame)) /\ reads' = reads /\ acked' = acked
    BY <1>5 DEF C!AbortDraw, C!Posted
  <2>2. frame \cup (active \ frame) = active
    OBVIOUS
  <2>3. /\ tasks' \in Seq(ResultType) /\ CarriesOnce(tasks')
        /\ CarriedBy(tasks') = CarriedBy(tasks) \cup active
    BY <1>3, <2>1, <2>2, EmptiesAdded
  <2>4. Apart({}, {}, active', reads', {}, CarriedBy(tasks'))
    BY <1>2, <1>3, <2>1, <2>3 DEF Apart
  <2>5. active' \cup reads' \cup CarriedBy(tasks') = active \cup reads \cup CarriedBy(tasks)
    BY <1>2, <2>1, <2>3
  <2>6. acked' \subseteq C!Asked
    BY <2>1, Places
  <2> QED BY <1>1, <2>3, <2>4, <2>5, <2>6, CopySentBack
<1> QED BY <1>2, <1>4, <1>5

\* One result more.
LEMMA ResultAppended ==
  ASSUME NEW q \in Seq(ResultType), CarriesOnce(q), NEW x \in ResultType,
         x.request \notin CarriedBy(q)
  PROVE  /\ Append(q, x) \in Seq(ResultType) /\ CarriesOnce(Append(q, x))
         /\ CarriedBy(Append(q, x)) = CarriedBy(q) \cup {x.request}
<1> DEFINE new == Append(q, x)
<1>1. /\ new \in Seq(ResultType) /\ Len(new) = Len(q) + 1
      /\ \A i \in 1 .. Len(q) : new[i] = q[i]
      /\ new[Len(q) + 1] = x
  BY AppendProperties
<1>2. Len(q) \in Nat /\ DOMAIN q = 1 .. Len(q) /\ DOMAIN new = 1 .. Len(q) + 1
  BY <1>1
<1> HIDE DEF new
<1>3. \A i \in DOMAIN new : \/ i \in DOMAIN q /\ new[i] = q[i]
                            \/ i = Len(q) + 1 /\ new[i] = x
  BY <1>1, <1>2
<1>4. CarriesOnce(new)
  BY <1>3 DEF CarriesOnce, CarriedBy
<1>5. CarriedBy(new) = CarriedBy(q) \cup {x.request}
  <2>1. CarriedBy(new) \subseteq CarriedBy(q) \cup {x.request}
    BY <1>3 DEF CarriedBy
  <2>2. CarriedBy(q) \subseteq CarriedBy(new)
    <3>1. \A i \in DOMAIN q : i \in DOMAIN new /\ new[i] = q[i]
      BY <1>1, <1>2
    <3> QED BY <3>1 DEF CarriedBy
  <2>3. x.request \in CarriedBy(new)
    <3>1. Len(q) + 1 \in DOMAIN new
      BY <1>2
    <3> QED BY <1>1, <3>1 DEF CarriedBy
  <2> QED BY <2>1, <2>2, <2>3
<1> QED BY <1>1, <1>4, <1>5 DEF new

\* One result less.
LEMMA ResultTaken ==
  ASSUME NEW q \in Seq(ResultType), CarriesOnce(q), q # <<>>
  PROVE  /\ Head(q) \in ResultType /\ Head(q).request \in CarriedBy(q)
         /\ Tail(q) \in Seq(ResultType) /\ CarriesOnce(Tail(q))
         /\ CarriedBy(Tail(q)) = CarriedBy(q) \ {Head(q).request}
<1> DEFINE new == Tail(q)
<1>1. /\ new \in Seq(ResultType) /\ Len(new) = Len(q) - 1 /\ Head(q) = q[1]
      /\ Head(q) \in ResultType /\ \A i \in 1 .. Len(new) : new[i] = q[i + 1]
  BY HeadTailProperties
<1>2. Len(q) \in Nat \ {0} /\ DOMAIN q = 1 .. Len(q)
  BY EmptySeq
<1> HIDE DEF new
<1>3. DOMAIN new = 1 .. Len(q) - 1
  BY <1>1, <1>2
<1>4. \A i \in DOMAIN new : i + 1 \in DOMAIN q /\ i + 1 # 1 /\ new[i] = q[i + 1]
  BY <1>1, <1>2, <1>3
<1>5. \A k \in DOMAIN q : k # 1 => k - 1 \in DOMAIN new /\ new[k - 1] = q[k]
  <2> SUFFICES ASSUME NEW k \in DOMAIN q, k # 1
               PROVE  k - 1 \in DOMAIN new /\ new[k - 1] = q[k]
    OBVIOUS
  <2>1. k - 1 \in DOMAIN new /\ (k - 1) + 1 = k
    BY <1>2, <1>3
  <2> QED BY <1>4, <2>1
<1>6. 1 \in DOMAIN q
  BY <1>2
<1>7. CarriesOnce(new)
  <2> SUFFICES ASSUME NEW i \in DOMAIN new, NEW k \in DOMAIN new, new[i].request = new[k].request
               PROVE  i = k
    BY DEF CarriesOnce
  <2>1. i + 1 = k + 1
    BY <1>4 DEF CarriesOnce
  <2> QED BY <1>3, <2>1
<1>8. CarriedBy(new) = CarriedBy(q) \ {q[1].request}
  <2>1. CarriedBy(new) \subseteq CarriedBy(q) \ {q[1].request}
    BY <1>4, <1>6 DEF CarriedBy, CarriesOnce
  <2>2. CarriedBy(q) \ {q[1].request} \subseteq CarriedBy(new)
    BY <1>5 DEF CarriedBy
  <2> QED BY <2>1, <2>2
<1>9. q[1].request \in CarriedBy(q)
  BY <1>6 DEF CarriedBy
<1> QED BY <1>1, <1>7, <1>8, <1>9 DEF new

LEMMA CopyFinishedReadback ==
  ASSUME Copies, C!FinishedReadback PROVE Copies' /\ CopyAnswersOnce
<1>1. PICK r \in reads, mapped \in BOOLEAN :
        /\ reads' = reads \ {r}
        /\ tasks' = Append(tasks, [request |-> r, copy |-> IF mapped THEN "bitmap" ELSE "empty"])
  BY DEF C!FinishedReadback
<1>2. UNCHANGED <<asked, answer, copy_requests, pending, active, helper, texture, idle, acked>>
  BY DEF C!FinishedReadback, C!mailboxes
<1>3. r \in Unanswered /\ r \in Requests /\ r \notin CarriedBy(tasks) /\ reads \cap CarriedBy(tasks) = {}
      /\ active \cap (reads \cup CarriedBy(tasks)) = {}
  BY Places DEF Apart, Unanswered, Copies, CopyTyped
<1> DEFINE x == [request |-> r, copy |-> IF mapped THEN "bitmap" ELSE "empty"]
<1>4. x \in ResultType /\ x.request = r
  BY <1>3 DEF ResultType, C!Copies
<1> HIDE DEF x
<1>5. /\ tasks' \in Seq(ResultType) /\ CarriesOnce(tasks')
      /\ CarriedBy(tasks') = CarriedBy(tasks) \cup {r}
  <2>1. tasks' = Append(tasks, x)
    BY <1>1 DEF x
  <2> QED BY <1>3, <1>4, <2>1, Places, ResultAppended
<1>6. Apart({}, {}, active', reads', {}, CarriedBy(tasks'))
  BY <1>1, <1>2, <1>3, <1>5 DEF Apart
<1>7. active' \cup reads' \cup CarriedBy(tasks') = active \cup reads \cup CarriedBy(tasks)
  BY <1>1, <1>2, <1>5
<1>8. acked' \subseteq C!Asked
  BY <1>2, Places
<1> QED BY <1>2, <1>5, <1>6, <1>7, <1>8, CopySentBack

LEMMA CopyReleased ==
  ASSUME Copies, C!ReleaseOutputSurface PROVE Copies' /\ CopyAnswersOnce
<1>1. /\ reads' = {} /\ tasks' = tasks \o C!Empty(reads)
      /\ UNCHANGED <<asked, answer, copy_requests, pending, active, helper, texture, idle, acked>>
  BY DEF C!ReleaseOutputSurface, C!DestroyRenderer, C!mailboxes
<1>2. reads \subseteq Unanswered /\ reads \cap CarriedBy(tasks) = {}
      /\ active \cap (reads \cup CarriedBy(tasks)) = {}
  BY Places DEF Apart
<1>3. /\ tasks' \in Seq(ResultType) /\ CarriesOnce(tasks')
      /\ CarriedBy(tasks') = CarriedBy(tasks) \cup reads
  BY <1>1, <1>2, EmptiesAdded
<1>4. Apart({}, {}, active', reads', {}, CarriedBy(tasks'))
  BY <1>1, <1>2, <1>3 DEF Apart
<1>5. active' \cup reads' \cup CarriedBy(tasks') = active \cup reads \cup CarriedBy(tasks)
  BY <1>1, <1>3
<1>6. acked' \subseteq C!Asked
  BY <1>1, Places
<1> QED BY <1>1, <1>3, <1>4, <1>5, <1>6, CopySentBack

\* Requests that are answered leave the GL helper, or the results that are back.
LEMMA CopyAnswered ==
  ASSUME Copies, UNCHANGED <<asked, copy_requests, pending, active, reads, acked>>,
         NEW ended, ended \subseteq helper \cup CarriedBy(tasks), NEW result \in C!Results,
         answer' = [r \in Requests |-> IF r \in ended THEN result ELSE answer[r]],
         texture' = [r \in Requests |-> IF r \in ended THEN None ELSE texture[r]],
         idle' \subseteq idle \cup ({texture[r] : r \in ended} \ {None}),
         tasks' \in Seq(ResultType), CarriesOnce(tasks'),
         helper' \cap CarriedBy(tasks') = {},
         helper' \cup CarriedBy(tasks') = (helper \cup CarriedBy(tasks)) \ ended
  PROVE  Copies' /\ CopyAnswersOnce
<1>1. Uncommitted' = Uncommitted /\ CarriedBy(tasks)' = CarriedBy(tasks')
  BY DEF Uncommitted, CarriedBy
<1>2. Apart(Uncommitted, pending \ {None}, active, reads, helper, CarriedBy(tasks))'
  BY <1>1, Places DEF Apart
<1>3. (Uncommitted \cup (pending \ {None}) \cup active \cup reads \cup helper
         \cup CarriedBy(tasks))' = Unanswered \ ended
  BY <1>1, Places DEF Apart
<1>4. ended \subseteq Unanswered /\ acked' \subseteq C!Asked
  BY Places
<1> QED BY <1>2, <1>3, <1>4, CopyTold

LEMMA CopyLost == ASSUME Copies, C!OnLostResources PROVE Copies' /\ CopyAnswersOnce
<1>1. PICK ended : ended = helper
  OBVIOUS
<1>2. /\ UNCHANGED <<asked, copy_requests, pending, active, reads, tasks, acked>>
      /\ helper' = {} /\ idle' = {}
      /\ answer' = [r \in Requests |-> IF r \in ended THEN "failed" ELSE answer[r]]
      /\ texture' = [r \in Requests |-> IF r \in ended THEN None ELSE texture[r]]
  BY <1>1 DEF C!OnLostResources, C!Answered
<1>3. /\ tasks' \in Seq(ResultType) /\ CarriesOnce(tasks') /\ "failed" \in C!Results
      /\ CarriedBy(tasks') = CarriedBy(tasks) /\ ended \subseteq helper \cup CarriedBy(tasks)
  BY <1>1, <1>2, Places DEF C!Results
<1>4. /\ helper' \cap CarriedBy(tasks') = {}
      /\ helper' \cup CarriedBy(tasks') = (helper \cup CarriedBy(tasks)) \ ended
  BY <1>1, <1>2, <1>3, Places DEF Apart
<1>5. idle' \subseteq idle \cup ({texture[r] : r \in ended} \ {None})
  BY <1>2
<1> QED BY <1>2, <1>3, <1>4, <1>5, CopyAnswered

\* The end of a request, whatever it is told.
LEMMA CopyFinish ==
  ASSUME Copies, NEW r, NEW result \in C!Results, C!Finish({r}, result),
         r \in helper \cup CarriedBy(tasks),
         UNCHANGED <<asked, copy_requests, pending, active, reads, acked>>,
         tasks' \in Seq(ResultType), CarriesOnce(tasks'),
         helper' \cap CarriedBy(tasks') = {},
         helper' \cup CarriedBy(tasks') = (helper \cup CarriedBy(tasks)) \ {r}
  PROVE  Copies' /\ CopyAnswersOnce
<1>1. PICK ended : ended = {r}
  OBVIOUS
<1>2. /\ answer' = [x \in Requests |-> IF x \in ended THEN result ELSE answer[x]]
      /\ texture' = [x \in Requests |-> IF x \in ended THEN None ELSE texture[x]]
      /\ \E subscribed \in BOOLEAN : idle' = idle \cup C!ReturnSubscriberTexture(ended, subscribed)
  BY <1>1 DEF C!Finish, C!Answered
<1>3. idle' \subseteq idle \cup ({texture[x] : x \in ended} \ {None})
  BY <1>2 DEF C!ReturnSubscriberTexture
<1>4. /\ ended \subseteq helper \cup CarriedBy(tasks)
      /\ helper' \cup CarriedBy(tasks') = (helper \cup CarriedBy(tasks)) \ ended
  BY <1>1
<1> QED BY <1>2, <1>3, <1>4, CopyAnswered

LEMMA CopyBack ==
  ASSUME Copies, C!CopyFromCompositingSurfaceHasResult PROVE Copies' /\ CopyAnswersOnce
<1>1. /\ tasks # <<>> /\ tasks' = Tail(tasks)
      /\ UNCHANGED <<asked, copy_requests, pending, active, reads, acked>>
      /\ \E possible \in BOOLEAN : C!HasResult(Head(tasks).request, Head(tasks).copy, possible)
  BY DEF C!CopyFromCompositingSurfaceHasResult
<1>2. PICK r, copy : r = Head(tasks).request /\ copy = Head(tasks).copy
  OBVIOUS
<1>3. PICK possible \in BOOLEAN : C!HasResult(r, copy, possible)
  BY <1>1, <1>2
<1>4. /\ \/ helper' = helper \cup {r} /\ UNCHANGED <<answer, texture, idle>>
         \/ helper' = helper /\ \E result \in C!Results : C!Finish({r}, result)
  BY <1>3 DEF C!HasResult, C!CopyFromCompositingSurfaceHasResultForVideo,
              C!PrepareTextureCopyOutputResult, C!PrepareBitmapCopyOutputResult, C!mailboxes, C!Results
<1>5. /\ r \in CarriedBy(tasks) /\ tasks' \in Seq(ResultType) /\ CarriesOnce(tasks')
      /\ CarriedBy(tasks') = CarriedBy(tasks) \ {r}
  BY <1>1, <1>2, Places, ResultTaken
<1>6. helper \cap CarriedBy(tasks) = {} /\ r \notin helper
  BY <1>5, Places DEF Apart
<1>7. CASE helper' = helper \cup {r} /\ UNCHANGED <<answer, texture, idle>>
  <2>1. Uncommitted' = Uncommitted /\ CarriedBy(tasks)' = CarriedBy(tasks')
    BY <1>1 DEF Uncommitted, CarriedBy
  <2>2. Apart(Uncommitted, pending \ {None}, active, reads, helper, CarriedBy(tasks))'
    BY <1>1, <1>5, <1>7, <2>1, Places DEF Apart
  <2>3. (Uncommitted \cup (pending \ {None}) \cup active \cup reads \cup helper
           \cup CarriedBy(tasks))' = Unanswered
    BY <1>1, <1>5, <1>7, <2>1, Places
  <2>4. acked' \subseteq C!Asked
    BY <1>1, Places
  <2> QED BY <1>1, <1>5, <1>7, <2>2, <2>3, <2>4, CopyMoved
<1>8. CASE helper' = helper /\ \E result \in C!Results : C!Finish({r}, result)
  <2>1. PICK result \in C!Results : C!Finish({r}, result)
    BY <1>8
  <2>2. /\ r \in helper \cup CarriedBy(tasks) /\ helper' \cap CarriedBy(tasks') = {}
        /\ helper' \cup CarriedBy(tasks') = (helper \cup CarriedBy(tasks)) \ {r}
    BY <1>5, <1>6, <1>8
  <2> QED BY <1>1, <1>5, <2>1, <2>2, CopyFinish
<1> QED BY <1>4, <1>7, <1>8

LEMMA CopyReadBack ==
  ASSUME Copies, C!CopyFromCompositingSurfaceFinished PROVE Copies' /\ CopyAnswersOnce
<1>1. /\ UNCHANGED <<asked, copy_requests, pending, active, reads, tasks, acked>>
      /\ \E r \in helper, ok \in BOOLEAN :
           helper' = helper \ {r} /\ C!Finish({r}, IF ok THEN "ok" ELSE "failed")
  BY DEF C!CopyFromCompositingSurfaceFinished
<1>2. PICK r \in helper : helper' = helper \ {r} /\ \E result \in C!Results : C!Finish({r}, result)
  <2>1. PICK r \in helper, ok \in BOOLEAN :
          helper' = helper \ {r} /\ C!Finish({r}, IF ok THEN "ok" ELSE "failed")
    BY <1>1
  <2>2. \E result \in C!Results : C!Finish({r}, result)
    <3>1. CASE ok
      BY <2>1, <3>1 DEF C!Results
    <3>2. CASE ~ ok
      BY <2>1, <3>2 DEF C!Results
    <3> QED BY <3>1, <3>2
  <2> QED BY <2>1, <2>2
<1>3. PICK result \in C!Results : C!Finish({r}, result)
  BY <1>2
<1>4. /\ tasks' \in Seq(ResultType) /\ CarriesOnce(tasks') /\ CarriedBy(tasks') = CarriedBy(tasks)
      /\ helper \cap CarriedBy(tasks) = {}
  BY <1>1, Places DEF Apart
<1>5. /\ r \in helper \cup CarriedBy(tasks) /\ helper' \cap CarriedBy(tasks') = {}
      /\ helper' \cup CarriedBy(tasks') = (helper \cup CarriedBy(tasks)) \ {r}
  BY <1>2, <1>4
<1> QED BY <1>1, <1>3, <1>4, <1>5, CopyFinish

LEMMA CopiesNext ==
  ASSUME Copies, [C!Next]_(C!vars)
  PROVE  Copies' /\ CopyAnswersOnce
<1>1. CASE UNCHANGED C!vars
  <2>1. UNCHANGED <<asked, answer, copy_requests, pending, active, reads, tasks, helper, texture,
                    idle, acked>>
    BY <1>1 DEF C!vars, C!waiting, C!mailboxes
  <2>2. UNCHANGED <<C!Asked, Uncommitted, Unanswered, CarriedBy(tasks)>>
    BY <2>1 DEF C!Asked, Uncommitted, Unanswered, CarriedBy
  <2> QED BY <2>1, <2>2 DEF Copies, CopyTyped, CopyOwned, CarriesOnce, Apart, C!NoTextureTwice,
                C!OneUncommittedCapture, CopyAnswersOnce, C!A!vars
<1> QED BY <1>1, CopyAsk, CopyDestroyHost, CopyFrame, CopyDraw, CopyFinishedReadback, CopyBack,
           CopyReadBack, CopyReleased, CopyLost DEF C!Next, C!Return

\* A request for a copy of the screen, and a subscriber's texture, has one owner at a
\* time, and of the captures one at most waits for a commit, wherever the host, the
\* trees, the output surface or the context goes away (layer.cc:439-446,
\* delegated_frame_host.cc:333-338).
THEOREM CopiesHaveOneOwner == Spec => []CopiesHaveOnePlace
<1>1. Init => Copies
  BY CopiesInit DEF Init
<1>2. Copies /\ [Next]_vars => Copies'
  <2>1. [Next]_vars => [C!Next]_(C!vars)
    BY DEF Next, vars, Life, Shown, Copy, Readback, copyVars, C!vars, C!waiting, C!mailboxes
  <2> QED BY <2>1, CopiesNext
<1>3. Copies => CopiesHaveOnePlace
  BY CopiesImply DEF CopiesHaveOnePlace
<1> QED BY <1>1, <1>2, <1>3, PTL DEF Spec

\* Whoever asked for a copy is told at most once, wherever the request ends: every stage
\* from the host to the GL helper together implements what the asker is promised
\* (copy_output_request.cc:67-93).
THEOREM CopiesAnswerOnce == Spec => C!A!Spec
<1>1. Init => Copies /\ C!A!Init
  <2>1. C!Init => C!A!Init
    BY DEF C!Init, C!A!Init, C!Asked
  <2> QED BY <2>1, CopiesInit DEF Init
<1>2. Copies /\ [Next]_vars => Copies' /\ [C!A!Next]_(C!A!vars)
  <2>1. [Next]_vars => [C!Next]_(C!vars)
    BY DEF Next, vars, Life, Shown, Copy, Readback, copyVars, C!vars, C!waiting, C!mailboxes
  <2> QED BY <2>1, CopiesNext DEF CopyAnswersOnce
<1> QED BY <1>1, <1>2, PTL DEF Spec, C!A!Spec

-----------------------------------------------------------------------------
(* Places of a sequence whose elements are in a set.                       *)

PlacesOf(q, S) == {i \in DOMAIN q : q[i] \in S}
Number(q, S) == Cardinality(PlacesOf(q, S))

LEMMA NumberEmpty ==
  ASSUME NEW S
  PROVE  Number(<<>>, S) = 0
<1>1. PlacesOf(<<>>, S) = {}
  BY DEF PlacesOf
<1> QED BY <1>1, FS_EmptySet DEF Number

LEMMA NumberIsNat ==
  ASSUME NEW X, NEW q \in Seq(X), NEW S
  PROVE  Number(q, S) \in Nat /\ IsFiniteSet(PlacesOf(q, S))
<1>1. IsFiniteSet(1 .. Len(q))
  BY FS_Interval
<1>2. PlacesOf(q, S) \subseteq 1 .. Len(q)
  BY DEF PlacesOf
<1>3. IsFiniteSet(PlacesOf(q, S))
  BY <1>1, <1>2, FS_Subset
<1> QED BY <1>3, FS_CardinalityType DEF Number

LEMMA NumberAppend ==
  ASSUME NEW X, NEW q \in Seq(X), NEW m \in X, NEW S
  PROVE  Number(Append(q, m), S) = IF m \in S THEN Number(q, S) + 1 ELSE Number(q, S)
<1> DEFINE A == PlacesOf(q, S)
           B == PlacesOf(Append(q, m), S)
           n == Len(q) + 1
<1>1. /\ DOMAIN Append(q, m) = 1 .. n /\ DOMAIN q = 1 .. Len(q) /\ n \notin DOMAIN q
      /\ Append(q, m)[n] = m /\ \A i \in DOMAIN q : Append(q, m)[i] = q[i]
      /\ 1 .. n = (1 .. Len(q)) \cup {n}
  OBVIOUS
<1>2. IsFiniteSet(A) /\ n \notin A
  BY <1>1, NumberIsNat DEF PlacesOf
<1>3. CASE m \in S
  <2>1. B = A \cup {n}
    BY <1>1, <1>3 DEF PlacesOf
  <2>2. Cardinality(A \cup {n}) = Cardinality(A) + 1
    BY <1>2, FS_AddElement
  <2> QED BY <1>3, <2>1, <2>2 DEF Number
<1>4. CASE m \notin S
  <2>1. B = A
    BY <1>1, <1>4 DEF PlacesOf
  <2> QED BY <1>4, <2>1 DEF Number
<1> QED BY <1>3, <1>4

LEMMA NumberTail ==
  ASSUME NEW X, NEW q \in Seq(X), q # <<>>, NEW S
  PROVE  Number(q, S) = IF Head(q) \in S THEN Number(Tail(q), S) + 1 ELSE Number(Tail(q), S)
<1> DEFINE A == PlacesOf(q, S)
           B == PlacesOf(Tail(q), S)
           f == [i \in B |-> i + 1]
<1>1. /\ Len(q) \in Nat /\ Len(q) >= 1 /\ DOMAIN q = 1 .. Len(q) /\ Head(q) = q[1]
      /\ Tail(q) \in Seq(X) /\ DOMAIN Tail(q) = 1 .. (Len(q) - 1)
      /\ \A i \in 1 .. (Len(q) - 1) : Tail(q)[i] = q[i + 1]
  OBVIOUS
<1>2. IsFiniteSet(B) /\ IsFiniteSet(A) /\ Cardinality(B) \in Nat
  BY <1>1, NumberIsNat DEF Number
<1>3. Cardinality(A \ {1}) = Cardinality(B)
  <2>1. \A i \in B : f[i] \in A \ {1}
    BY <1>1 DEF PlacesOf
  <2>2. ASSUME NEW k \in A \ {1} PROVE \E i \in B : f[i] = k
    <3>1. k - 1 \in B /\ f[k - 1] = k
      BY <1>1 DEF PlacesOf
    <3> QED BY <3>1
  <2>3. \A i, j \in B : f[i] = f[j] => i = j
    BY <1>1 DEF PlacesOf
  <2>4. f \in Bijection(B, A \ {1})
    BY <2>1, <2>2, <2>3, Fun_IsBij
  <2>5. ExistsBijection(B, A \ {1})
    BY <2>4 DEF ExistsBijection
  <2> QED BY <1>2, <2>5, FS_Bijection
<1>4. CASE Head(q) \in S
  <2>1. 1 \in A
    BY <1>1, <1>4 DEF PlacesOf
  <2>2. Cardinality(A \ {1}) = Cardinality(A) - 1 /\ Cardinality(A) \in Nat
    BY <1>2, <2>1, FS_RemoveElement, FS_CardinalityType
  <2> HIDE DEF A, B
  <2>3. Cardinality(A) = Cardinality(B) + 1
    BY <1>2, <1>3, <2>2
  <2> QED BY <1>4, <2>3 DEF A, B, Number
<1>5. CASE Head(q) \notin S
  <2>1. A \ {1} = A
    BY <1>1, <1>5 DEF PlacesOf
  <2> HIDE DEF A, B
  <2>2. Cardinality(A) = Cardinality(B)
    BY <1>3, <2>1, Zenon
  <2> QED BY <1>5, <2>2 DEF A, B, Number
<1> QED BY <1>4, <1>5

LEMMA NumberConcat ==
  ASSUME NEW X, NEW p \in Seq(X), NEW q \in Seq(X), NEW S
  PROVE  Number(p \o q, S) = Number(p, S) + Number(q, S)
<1> DEFINE A == PlacesOf(p, S)
           B == PlacesOf(q, S)
           C1 == {i + Len(p) : i \in B}
           f == [i \in B |-> i + Len(p)]
<1>1. /\ Len(p) \in Nat /\ Len(q) \in Nat /\ DOMAIN p = 1 .. Len(p) /\ DOMAIN q = 1 .. Len(q)
      /\ p \o q \in Seq(X) /\ DOMAIN (p \o q) = 1 .. (Len(p) + Len(q))
      /\ \A i \in 1 .. Len(p) : (p \o q)[i] = p[i]
      /\ \A i \in 1 .. Len(q) : (p \o q)[i + Len(p)] = q[i]
  OBVIOUS
<1>2. IsFiniteSet(A) /\ IsFiniteSet(B) /\ Cardinality(A) \in Nat /\ Cardinality(B) \in Nat
  BY NumberIsNat DEF Number
<1>3. PlacesOf(p \o q, S) = A \cup C1
  <2>1. ASSUME NEW i \in PlacesOf(p \o q, S) PROVE i \in A \cup C1
    <3>1. i \in 1 .. (Len(p) + Len(q)) /\ (p \o q)[i] \in S
      BY <1>1 DEF PlacesOf
    <3>2. CASE i <= Len(p)
      BY <1>1, <3>1, <3>2 DEF PlacesOf
    <3>3. CASE i > Len(p)
      <4>1. i - Len(p) \in 1 .. Len(q) /\ i = (i - Len(p)) + Len(p)
        BY <1>1, <3>1, <3>3
      <4>2. i - Len(p) \in B
        BY <1>1, <3>1, <4>1 DEF PlacesOf
      <4> QED BY <4>1, <4>2
    <3> QED BY <1>1, <3>1, <3>2, <3>3
  <2>2. ASSUME NEW i \in A PROVE i \in PlacesOf(p \o q, S)
    BY <1>1, <2>2 DEF PlacesOf
  <2>3. ASSUME NEW i \in B PROVE i + Len(p) \in PlacesOf(p \o q, S)
    BY <1>1, <2>3 DEF PlacesOf
  <2> QED BY <2>1, <2>2, <2>3
<1>4. A \cap C1 = {}
  BY <1>1 DEF PlacesOf
<1>5. IsFiniteSet(C1) /\ Cardinality(C1) = Cardinality(B)
  <2>1. \A i \in B : f[i] \in C1
    OBVIOUS
  <2>2. \A k \in C1 : \E i \in B : f[i] = k
    OBVIOUS
  <2>3. \A i, j \in B : f[i] = f[j] => i = j
    BY <1>1 DEF PlacesOf
  <2>4. f \in Bijection(B, C1)
    BY <2>1, <2>2, <2>3, Fun_IsBij
  <2>5. ExistsBijection(B, C1)
    BY <2>4 DEF ExistsBijection
  <2> QED BY <1>2, <2>5, FS_Bijection
<1> HIDE DEF A, B, C1
<1>6. Cardinality(A \cup C1) = Cardinality(A) + Cardinality(C1) - Cardinality(A \cap C1)
  BY <1>2, <1>5, FS_Union
<1>7. Cardinality(A \cap C1) = 0
  BY <1>4, FS_EmptySet
<1>8. Cardinality(A \cup C1) = Cardinality(A) + Cardinality(B)
  BY <1>2, <1>5, <1>6, <1>7
<1> QED BY <1>3, <1>8 DEF Number, A, B

LEMMA TimesIs ==
  ASSUME NEW o, NEW q
  PROVE  D!Times(o, q) = Number(q, {o})
<1>1. \A X : D!Cardinality(X) = Cardinality(X)
  BY DEF D!Cardinality, Cardinality
<1>2. {i \in DOMAIN q : q[i] = o} = PlacesOf(q, {o})
  BY DEF PlacesOf
<1> QED BY <1>1, <1>2 DEF D!Times, Number

-----------------------------------------------------------------------------
(* DelegatedFrameHost: acknowledgements, resources and locks, in the       *)
(* middle of a step too.                                                   *)

Outs == 1 .. MaxOutputs
Painted == [output : Outs, size : Sizes]
From(o) == {f \in Painted : f.output = o}

IsHost(e) ==
  e = [compositor |-> e.compositor, can_lock |-> e.can_lock, expected |-> e.expected,
       deferred |-> e.deferred, held |-> e.held, front |-> e.front, shown |-> e.shown,
       current |-> e.current, skipped |-> e.skipped, latency |-> e.latency, last |-> e.last,
       pending |-> e.pending, callbacks |-> e.callbacks, draw |-> e.draw, returned |-> e.returned]
IsView(e) ==
  e = [visible |-> e.visible, desired |-> e.desired, zombies |-> e.zombies, unref |-> e.unref]
IsRenderer(e) ==
  e = [output |-> e.output, told |-> e.told, resize |-> e.resize, size |-> e.size,
       dirty |-> e.dirty, missed |-> e.missed, swaps |-> e.swaps, acks |-> e.acks]
IsState(s) ==
  /\ s = [d |-> s.d, ui |-> s.ui, rd |-> s.rd, back |-> s.back]
  /\ IsHost(s.d) /\ IsView(s.ui) /\ IsRenderer(s.rd)

\* What is owed an acknowledgement: that of debt, which nothing of the host stands for,
\* and what a callback will answer; count is how much of debt the host has counted.
Due(x, o) == IF x = o THEN 1 ELSE 0
Held(s, o) == Number(s.d.callbacks, {o}) + Number(s.ui.zombies, {o}) + Due(s.d.draw, o)
Callbacks(s) == Len(s.d.callbacks) + Len(s.ui.zombies) + (1 - Due(s.d.draw, 0))
Accounts(s, debt, count) ==
  /\ \A o \in Outs : s.rd.swaps[o] - s.rd.acks[o] = debt[o] + Held(s, o)
  /\ s.d.pending = Callbacks(s) + count

\* Nothing is of an older output than the resources that may still go back.
Ordered(s) ==
  /\ \A o \in s.d.returned \cup s.ui.unref : s.d.last <= o
  /\ s.d.shown = D!NoFrame \/ s.d.last <= s.d.shown.output
  /\ \A i \in DOMAIN s.d.callbacks : s.d.callbacks[i] <= s.d.last
  /\ \A i \in DOMAIN s.ui.zombies : s.ui.zombies[i] <= s.d.last
  /\ s.d.draw <= s.d.last
  /\ \A o \in s.back.whose : s.back.to <= o

Owing(s) ==
  /\ s.d.callbacks \in Seq(Outs) /\ s.ui.zombies \in Seq(Outs) /\ s.d.draw \in {0} \cup Outs
  /\ s.d.pending \in Int
  /\ s.rd.swaps \in [Outs -> Nat] /\ s.rd.acks \in [Outs -> Nat]
  /\ s.d.last \in {0} \cup Outs /\ s.d.shown \in Painted \cup {D!NoFrame}
  /\ s.d.returned \subseteq Outs /\ s.ui.unref \subseteq Outs

Books(s, surfaces, debt, count) ==
  /\ IsState(s) /\ Owing(s) /\ Ordered(s) /\ Accounts(s, debt, count)
  /\ surfaces \/ s.d.draw = 0

\* The locks wait for something.
Locks(s) ==
  /\ s.d.can_lock \in D!CanLock /\ s.d.expected \in {0} \cup Sizes
  /\ s.ui.desired \in Sizes /\ s.rd.told \in Sizes /\ s.rd.size \in Sizes /\ s.rd.output \in Outs
  /\ s.d.held => s.d.expected # 0

Asks(s) == s.d.expected # 0 => s.rd.told = s.d.expected

\* Frames arrive in the order of their outputs.
Travels(q, first, newest) ==
  /\ q \in Seq(Painted) /\ first <= newest
  /\ \A i \in DOMAIN q : first <= q[i].output /\ q[i].output <= newest
  /\ \A i, j \in DOMAIN q : i < j => q[i].output <= q[j].output

Debts(q) == [o \in Outs |-> Number(q, From(o))]

Home(s, surfaces, q) ==
  /\ Books(s, surfaces, Debts(q), 0) /\ Locks(s) /\ Asks(s)
  /\ Travels(q, s.d.last, s.rd.output)

HomeInv == Home(D!Now, use_surfaces, wire)

\* What the books do not look at, and what the locks do not.
SameBooks(s, g) ==
  /\ g.d.callbacks = s.d.callbacks /\ g.ui.zombies = s.ui.zombies /\ g.d.draw = s.d.draw
  /\ g.d.pending = s.d.pending /\ g.rd.swaps = s.rd.swaps /\ g.rd.acks = s.rd.acks
  /\ g.d.last = s.d.last /\ g.d.shown = s.d.shown /\ g.d.returned = s.d.returned
  /\ g.ui.unref = s.ui.unref /\ g.back = s.back
SameLocks(s, g) ==
  /\ g.d.can_lock = s.d.can_lock /\ g.d.expected = s.d.expected /\ g.d.held = s.d.held
  /\ g.ui.desired = s.ui.desired /\ g.rd.told = s.rd.told /\ g.rd.size = s.rd.size
  /\ g.rd.output = s.rd.output

LEMMA BooksRest ==
  ASSUME NEW s, NEW g, NEW u, NEW debt, NEW count, Books(s, u, debt, count), IsState(g), SameBooks(s, g)
  PROVE  Books(g, u, debt, count)
<1>1. Owing(g)
  BY DEF Books, SameBooks, Owing
<1>2. Ordered(g)
  BY DEF Books, SameBooks, Ordered
<1>3. Accounts(g, debt, count)
  BY DEF Books, SameBooks, Accounts, Held, Callbacks
<1> QED BY <1>1, <1>2, <1>3 DEF Books, SameBooks

LEMMA LocksRest ==
  ASSUME NEW s, NEW g, SameLocks(s, g)
  PROVE  /\ Locks(s) => Locks(g)
         /\ Asks(s) => Asks(g)
BY DEF SameLocks, Locks, Asks

LEMMA LocksTransitive ==
  ASSUME NEW s, NEW g, NEW k, SameLocks(s, g), SameLocks(g, k)
  PROVE  SameLocks(s, k)
BY DEF SameLocks

LEMMA LengthIsNat ==
  ASSUME NEW s, Owing(s)
  PROVE  Len(s.d.callbacks) + Len(s.ui.zombies) \in Nat
<1>1. Len(s.d.callbacks) \in Nat /\ Len(s.ui.zombies) \in Nat
  BY DEF Owing
<1> DEFINE a == Len(s.d.callbacks)
           z == Len(s.ui.zombies)
<1> HIDE DEF a, z
<1>2. a \in Nat /\ z \in Nat
  BY <1>1 DEF a, z
<1>3. a + z \in Nat
  BY <1>2
<1> QED BY <1>3 DEF a, z

LEMMA HeldIsNat ==
  ASSUME NEW s, Owing(s), NEW o
  PROVE  Held(s, o) \in Nat /\ Callbacks(s) \in Nat
<1>1. Number(s.d.callbacks, {o}) \in Nat /\ Number(s.ui.zombies, {o}) \in Nat
  BY NumberIsNat DEF Owing
<1>2. \A x, y : Due(x, y) \in {0, 1}
  BY DEF Due
<1>3. Due(s.d.draw, o) \in {0, 1} /\ 1 - Due(s.d.draw, 0) \in {0, 1}
  BY <1>2
<1>4. Held(s, o) \in Nat
  BY <1>1, <1>3 DEF Held
<1> DEFINE n == Len(s.d.callbacks) + Len(s.ui.zombies)
           k == 1 - Due(s.d.draw, 0)
<1>5. Callbacks(s) = n + k
  BY DEF Callbacks
<1>7. n \in Nat
  BY LengthIsNat
<1>8. k \in Nat
  BY <1>3
<1> HIDE DEF n, k
<1>6. Callbacks(s) \in Nat
  BY <1>5, <1>7, <1>8
<1> QED BY <1>4, <1>6

LEMMA OneMore ==
  ASSUME NEW f \in [Outs -> Nat], NEW o \in Outs
  PROVE  LET g == [f EXCEPT ![o] = @ + 1]
         IN  g \in [Outs -> Nat] /\ \A x \in Outs : g[x] = IF x = o THEN f[x] + 1 ELSE f[x]
OBVIOUS

-----------------------------------------------------------------------------
(* Acknowledgements and returned resources.                                *)

LEMMA GiveBackKeeps ==
  ASSUME NEW s, NEW u, NEW debt, NEW count, Books(s, u, debt, count),
         NEW o \in {0} \cup Outs, o <= s.d.last
  PROVE  LET g == D!GiveBack(s, o)
         IN  /\ Books(g, u, debt, count) /\ SameLocks(s, g)
             /\ g.d.last = s.d.last /\ g.d.draw = s.d.draw /\ g.d.callbacks = s.d.callbacks
             /\ g.d.shown = s.d.shown /\ g.ui.zombies = s.ui.zombies /\ g.rd.acks = s.rd.acks
             /\ g.d.pending = s.d.pending /\ g.d.returned = {}
<1> DEFINE g == D!GiveBack(s, o)
<1>1. CASE s.d.returned = {}
  BY <1>1 DEF D!GiveBack, SameLocks
<1>2. CASE s.d.returned # {}
  <2> DEFINE e == [s.d EXCEPT !.returned = {}]
             b == [to |-> o, whose |-> s.d.returned]
  <2>1. g = [s EXCEPT !.back = b, !.d = e]
    BY <1>2 DEF D!GiveBack
  <2>2. /\ IsHost(e) /\ e.returned = {} /\ e.can_lock = s.d.can_lock /\ e.expected = s.d.expected
        /\ e.held = s.d.held /\ e.shown = s.d.shown /\ e.last = s.d.last /\ e.pending = s.d.pending
        /\ e.callbacks = s.d.callbacks /\ e.draw = s.d.draw
    BY DEF Books, IsState, IsHost
  <2>3. b.to = o /\ b.whose = s.d.returned
    OBVIOUS
  <2> HIDE DEF e, b, g
  <2>4. IsState(g) /\ g.d = e /\ g.ui = s.ui /\ g.rd = s.rd /\ g.back = b
    BY <2>1, <2>2 DEF Books, IsState
  <2>5. SameLocks(s, g)
    BY <2>2, <2>4 DEF SameLocks
  <2>6. Owing(g)
    BY <2>2, <2>4 DEF Books, Owing
  <2>7. \A x \in b.whose : b.to <= x
    <3> SUFFICES ASSUME NEW x \in b.whose PROVE b.to <= x
      OBVIOUS
    <3>1. x \in Outs /\ s.d.last <= x
      BY <2>3 DEF Books, Owing, Ordered
    <3>2. s.d.last \in {0} \cup Outs
      BY DEF Books, Owing
    <3> QED BY <2>3, <3>1, <3>2 DEF Outs
  <2>8. Ordered(g)
    BY <2>2, <2>4, <2>7 DEF Books, Ordered
  <2>9. Accounts(g, debt, count)
    BY <2>2, <2>4 DEF Books, Accounts, Held, Callbacks
  <2> QED BY <2>2, <2>4, <2>5, <2>6, <2>8, <2>9 DEF Books, g
<1> QED BY <1>1, <1>2

LEMMA AckKeeps ==
  ASSUME NEW s, NEW u, NEW debt, NEW count, Books(s, u, debt, count),
         debt \in [Outs -> Nat], count \in Nat, MaxOutputs \in Nat,
         NEW o \in Outs, o <= s.d.last
  PROVE  LET g == D!SendDelegatedFrameAck(s, o)
         IN  /\ Books(g, u, [debt EXCEPT ![o] = @ - 1], count - 1) /\ SameLocks(s, g)
             /\ g.d.last = s.d.last /\ g.d.draw = s.d.draw /\ g.d.shown = s.d.shown
<1> DEFINE t == D!GiveBack(s, o)
           g == D!SendDelegatedFrameAck(s, o)
           a == [t.rd.acks EXCEPT ![o] = @ + 1]
           e == [t.d EXCEPT !.pending = @ - 1]
           r == [t.rd EXCEPT !.acks = a]
           owe == [debt EXCEPT ![o] = @ - 1]
<1>1. /\ Books(t, u, debt, count) /\ SameLocks(s, t)
      /\ t.d.last = s.d.last /\ t.d.draw = s.d.draw /\ t.d.shown = s.d.shown
  BY GiveBackKeeps
<1>0. IsState(t) /\ Owing(t) /\ Ordered(t) /\ Accounts(t, debt, count) /\ (u \/ t.d.draw = 0)
  BY <1>1 DEF Books
<1>2. g = [t EXCEPT !.rd = r, !.d = e]
  BY DEF D!SendDelegatedFrameAck
<1> HIDE DEF t, g
<1>3. /\ IsHost(e) /\ e.pending = t.d.pending - 1 /\ e.can_lock = t.d.can_lock /\ e.expected = t.d.expected
      /\ e.held = t.d.held /\ e.shown = t.d.shown /\ e.last = t.d.last /\ e.returned = t.d.returned
      /\ e.callbacks = t.d.callbacks /\ e.draw = t.d.draw
  BY <1>0 DEF IsState, IsHost
<1>4. /\ IsRenderer(r) /\ r.acks = a /\ r.swaps = t.rd.swaps /\ r.told = t.rd.told /\ r.size = t.rd.size
      /\ r.output = t.rd.output
  BY <1>0 DEF IsState, IsRenderer
<1> HIDE DEF e, r
<1>5. IsState(g) /\ g.d = e /\ g.ui = t.ui /\ g.rd = r /\ g.back = t.back
  BY <1>0, <1>2, <1>3, <1>4 DEF IsState
<1>6. SameLocks(t, g)
  BY <1>3, <1>4, <1>5 DEF SameLocks
<1>7. a \in [Outs -> Nat] /\ \A x \in Outs : a[x] = IF x = o THEN t.rd.acks[x] + 1 ELSE t.rd.acks[x]
  <2>1. t.rd.acks \in [Outs -> Nat]
    BY <1>0 DEF Owing
  <2> QED BY <2>1, OneMore
<1>8. \A x \in Outs : owe[x] = IF x = o THEN debt[x] - 1 ELSE debt[x]
  OBVIOUS
<1> HIDE DEF a, owe
<1>9. Owing(g)
  <2>1. t.d.pending - 1 \in Int
    BY <1>0 DEF Owing
  <2>2. /\ g.d.callbacks = t.d.callbacks /\ g.ui.zombies = t.ui.zombies /\ g.d.draw = t.d.draw
        /\ g.d.pending \in Int /\ g.rd.swaps = t.rd.swaps /\ g.rd.acks \in [Outs -> Nat]
        /\ g.d.last = t.d.last /\ g.d.shown = t.d.shown /\ g.d.returned = t.d.returned
        /\ g.ui.unref = t.ui.unref
    BY <1>3, <1>4, <1>5, <1>7, <2>1
  <2> QED BY <1>0, <2>2 DEF Owing
<1>10. Ordered(g)
  BY <1>0, <1>3, <1>5 DEF Ordered
<1>11. Accounts(g, owe, count - 1)
  <2>1. ASSUME NEW x \in Outs PROVE g.rd.swaps[x] - g.rd.acks[x] = owe[x] + Held(g, x)
    <3>1. Held(g, x) = Held(t, x)
      BY <1>3, <1>5 DEF Held
    <3>2. Held(t, x) \in Nat
      BY <1>0, HeldIsNat
    <3>3. t.rd.swaps[x] - t.rd.acks[x] = debt[x] + Held(t, x)
      BY <1>0 DEF Accounts
    <3>4. t.rd.swaps[x] \in Nat /\ t.rd.acks[x] \in Nat /\ debt[x] \in Nat
      BY <1>0 DEF Owing
    <3>5. g.rd.swaps[x] = t.rd.swaps[x] /\ g.rd.acks[x] = a[x]
      BY <1>4, <1>5
    <3> HIDE DEF Held
    <3> QED BY <1>7, <1>8, <3>1, <3>2, <3>3, <3>4, <3>5
  <2>2. g.d.pending = Callbacks(g) + (count - 1)
    <3>1. t.d.pending = Callbacks(t) + count /\ Callbacks(t) \in Nat
      BY <1>0, HeldIsNat DEF Accounts
    <3>2. Callbacks(g) = Callbacks(t)
      BY <1>3, <1>5 DEF Callbacks
    <3>3. g.d.pending = t.d.pending - 1
      BY <1>3, <1>5
    <3> QED BY <3>1, <3>2, <3>3
  <2> QED BY <2>1, <2>2 DEF Accounts
<1>12. Books(g, u, owe, count - 1)
  BY <1>0, <1>3, <1>5, <1>9, <1>10, <1>11 DEF Books
<1>13. SameLocks(s, g)
  BY <1>1, <1>6, LocksTransitive
<1> QED BY <1>1, <1>3, <1>5, <1>12, <1>13 DEF g, owe

\* A callback runs: what stood for the acknowledgement is gone, and it is sent.
LEMMA DrawnKeeps ==
  ASSUME NEW s, NEW u, NEW debt, NEW count, Books(s, u, debt, count), s.d.draw # 0,
         debt \in [Outs -> Nat], count \in Nat, MaxOutputs \in Nat
  PROVE  LET g == D!SurfaceDrawn([s EXCEPT !.d.draw = 0], s.d.draw)
         IN  /\ Books(g, u, debt, count) /\ SameLocks(s, g)
             /\ g.d.last = s.d.last /\ g.d.draw = 0 /\ g.d.shown = s.d.shown
<1> DEFINE o == s.d.draw
           e == [s.d EXCEPT !.draw = 0]
           t == [s EXCEPT !.d = e]
           owe == [debt EXCEPT ![o] = @ + 1]
           g == D!SendDelegatedFrameAck(t, o)
<1>1. D!SurfaceDrawn([s EXCEPT !.d.draw = 0], s.d.draw) = g
  BY DEF D!SurfaceDrawn
<1>2. o \in Outs /\ o <= s.d.last
  BY DEF Books, Owing, Ordered
<1>3. /\ IsHost(e) /\ e.pending = s.d.pending /\ e.can_lock = s.d.can_lock /\ e.expected = s.d.expected
      /\ e.held = s.d.held /\ e.shown = s.d.shown /\ e.last = s.d.last /\ e.returned = s.d.returned
      /\ e.callbacks = s.d.callbacks /\ e.draw = 0
  BY DEF Books, IsState, IsHost
<1>4. t = [s EXCEPT !.d = e]
  OBVIOUS
<1> HIDE DEF e, t
<1>5. IsState(t) /\ t.d = e /\ t.ui = s.ui /\ t.rd = s.rd /\ t.back = s.back
  BY <1>3, <1>4 DEF Books, IsState
<1>6. SameLocks(s, t)
  BY <1>3, <1>5 DEF SameLocks
<1>7. owe \in [Outs -> Nat] /\ \A x \in Outs : owe[x] = IF x = o THEN debt[x] + 1 ELSE debt[x]
  BY <1>2
<1>8. [owe EXCEPT ![o] = @ - 1] = debt
  <2>1. DOMAIN [owe EXCEPT ![o] = @ - 1] = Outs /\ DOMAIN debt = Outs
    BY <1>7
  <2>2. \A x \in Outs : [owe EXCEPT ![o] = @ - 1][x] = debt[x]
    BY <1>7
  <2>3. [owe EXCEPT ![o] = @ - 1] \in [Outs -> Int]
    BY <1>7
  <2> HIDE DEF owe
  <2> QED BY <2>1, <2>2, <2>3
<1> HIDE DEF owe, o
<1>9. Owing(t)
  BY <1>3, <1>5 DEF Books, Owing
<1>10. 0 <= s.d.last
  <2>1. s.d.last \in {0} \cup Outs
    BY DEF Books, Owing
  <2> QED BY <2>1 DEF Outs
<1>11. Ordered(t)
  BY <1>3, <1>5, <1>10 DEF Books, Ordered
<1>12. Accounts(t, owe, count + 1)
  <2>1. ASSUME NEW x \in Outs PROVE t.rd.swaps[x] - t.rd.acks[x] = owe[x] + Held(t, x)
    <3> DEFINE n == Number(s.d.callbacks, {x}) + Number(s.ui.zombies, {x})
    <3>1. Held(t, x) = n + Due(0, x) /\ Held(s, x) = n + Due(o, x)
      BY <1>3, <1>5 DEF Held, o
    <3>5. Due(0, x) = 0 /\ Due(o, x) = IF x = o THEN 1 ELSE 0
      BY DEF Due, Outs
    <3>2. n \in Nat
      <4>1. s.d.callbacks \in Seq(Outs) /\ s.ui.zombies \in Seq(Outs)
        BY DEF Books, Owing
      <4>2. Number(s.d.callbacks, {x}) \in Nat
        BY <4>1, NumberIsNat
      <4>3. Number(s.ui.zombies, {x}) \in Nat
        BY <4>1, NumberIsNat
      <4> QED BY <4>2, <4>3
    <3> HIDE DEF n
    <3>3. s.rd.swaps[x] - s.rd.acks[x] = debt[x] + Held(s, x)
      BY DEF Books, Accounts
    <3>4. debt[x] \in Nat
      OBVIOUS
    <3>6. t.rd.swaps[x] - t.rd.acks[x] = debt[x] + (n + Due(o, x))
      BY <1>5, <3>1, <3>3
    <3>7. owe[x] = debt[x] + Due(o, x) /\ Due(o, x) \in {0, 1}
      BY <1>7, <3>4, <3>5
    <3> QED BY <3>1, <3>2, <3>4, <3>5, <3>6, <3>7
  <2>2. t.d.pending = Callbacks(t) + (count + 1)
    <3> DEFINE n == Len(s.d.callbacks) + Len(s.ui.zombies)
    <3>1. s.d.pending = Callbacks(s) + count
      BY DEF Books, Accounts
    <3>2. n \in Nat
      BY LengthIsNat DEF Books
    <3>3. Callbacks(s) = n + (1 - Due(o, 0)) /\ Callbacks(t) = n + (1 - Due(0, 0))
      BY <1>3, <1>5 DEF Callbacks, o
    <3> HIDE DEF n
    <3>4. Due(o, 0) = 0 /\ Due(0, 0) = 1
      BY DEF Due, o
    <3>5. t.d.pending = s.d.pending
      BY <1>3, <1>5
    <3> QED BY <3>1, <3>2, <3>3, <3>4, <3>5
  <2> QED BY <2>1, <2>2 DEF Accounts
<1>13. Books(t, u, owe, count + 1)
  BY <1>3, <1>5, <1>9, <1>11, <1>12 DEF Books
<1>14. count + 1 \in Nat /\ (count + 1) - 1 = count
  OBVIOUS
<1>15. o <= t.d.last
  BY <1>2, <1>3, <1>5
<1>16. /\ Books(g, u, [owe EXCEPT ![o] = @ - 1], (count + 1) - 1) /\ SameLocks(t, g)
       /\ g.d.last = t.d.last /\ g.d.draw = t.d.draw /\ g.d.shown = t.d.shown
  BY <1>2, <1>7, <1>13, <1>14, <1>15, AckKeeps
<1> HIDE DEF g
<1>17. SameLocks(s, g)
  BY <1>6, <1>16, LocksTransitive
<1> QED BY <1>1, <1>3, <1>5, <1>8, <1>14, <1>16, <1>17

LEMMA ReturnKeeps ==
  ASSUME NEW s, NEW u, NEW debt, NEW count, Books(s, u, debt, count), NEW o \in s.ui.unref
  PROVE  LET g == D!ReturnResources([s EXCEPT !.ui.unref = @ \ {o}], o)
         IN  Books(g, u, debt, count) /\ SameLocks(s, g) /\ g.d.last = s.d.last
<1> DEFINE v == [s.ui EXCEPT !.unref = s.ui.unref \ {o}]
           e == [s.d EXCEPT !.returned = s.d.returned \cup {o}]
           t == [s EXCEPT !.ui = v, !.d = e]
           g == D!ReturnResources([s EXCEPT !.ui.unref = @ \ {o}], o)
<1>1. IsState(s) /\ Owing(s) /\ Ordered(s) /\ Accounts(s, debt, count) /\ (u \/ s.d.draw = 0)
  BY DEF Books
<1>2. o \in Outs /\ s.d.last <= o
  BY <1>1 DEF Owing, Ordered
<1>3. /\ IsHost(e) /\ e.pending = s.d.pending /\ e.can_lock = s.d.can_lock /\ e.expected = s.d.expected
      /\ e.held = s.d.held /\ e.shown = s.d.shown /\ e.last = s.d.last
      /\ e.returned = s.d.returned \cup {o} /\ e.callbacks = s.d.callbacks /\ e.draw = s.d.draw
  BY <1>1 DEF IsState, IsHost
<1>4. /\ IsView(v) /\ v.unref = s.ui.unref \ {o} /\ v.zombies = s.ui.zombies /\ v.desired = s.ui.desired
  BY <1>1 DEF IsState, IsView
<1>15. t = [s EXCEPT !.ui = v, !.d = e]
  OBVIOUS
<1> HIDE DEF e, v, t
<1>5. IsState(t) /\ t.d = e /\ t.ui = v /\ t.rd = s.rd /\ t.back = s.back
  BY <1>1, <1>3, <1>4, <1>15 DEF IsState
<1>6. g = IF t.d.pending > 0 THEN t ELSE D!GiveBack(t, t.d.last)
  <2> DEFINE x == [s EXCEPT !.ui.unref = @ \ {o}]
  <2>1. x = [s EXCEPT !.ui = v]
    BY DEF v
  <2> HIDE DEF x
  <2>2. x.d = s.d /\ [x EXCEPT !.d.returned = @ \cup {o}] = t
    BY <1>1, <2>1 DEF IsState, t, e
  <2> DEFINE y == [x EXCEPT !.d.returned = @ \cup {o}]
  <2>3. D!ReturnResources(x, o) = IF y.d.pending > 0 THEN y ELSE D!GiveBack(y, y.d.last)
    BY DEF D!ReturnResources, D!SendReturnedDelegatedResources
  <2>4. y = t
    BY <2>2
  <2> QED BY <2>3, <2>4 DEF x
<1> HIDE DEF g
<1>7. SameLocks(s, t)
  BY <1>3, <1>4, <1>5 DEF SameLocks
<1>8. Owing(t)
  BY <1>1, <1>2, <1>3, <1>4, <1>5 DEF Owing
<1>9. Ordered(t)
  BY <1>1, <1>2, <1>3, <1>4, <1>5 DEF Ordered
<1>10. Accounts(t, debt, count)
  BY <1>1, <1>3, <1>4, <1>5 DEF Accounts, Held, Callbacks
<1>11. Books(t, u, debt, count)
  BY <1>1, <1>3, <1>5, <1>8, <1>9, <1>10 DEF Books
<1>12. t.d.last \in {0} \cup Outs /\ t.d.last <= t.d.last /\ t.d.last = s.d.last
  BY <1>3, <1>5, <1>8 DEF Owing, Outs
<1>13. CASE g = t
  BY <1>7, <1>11, <1>12, <1>13 DEF g
<1>14. CASE g = D!GiveBack(t, t.d.last)
  <2> DEFINE k == D!GiveBack(t, t.d.last)
  <2>1. Books(k, u, debt, count) /\ SameLocks(t, k) /\ k.d.last = t.d.last
    BY <1>11, <1>12, GiveBackKeeps
  <2> HIDE DEF k
  <2>2. SameLocks(s, k)
    BY <1>7, <2>1, LocksTransitive
  <2> QED BY <1>12, <1>14, <2>1, <2>2 DEF g, k
<1> QED BY <1>6, <1>13, <1>14

\* A commit answers all that wait for one, each under its output.
LEMMA CommitsKeep ==
  ASSUME NEW s, NEW u, NEW debt, NEW count, Books(s, u, debt, count),
         debt \in [Outs -> Nat], count \in Nat
  PROVE  LET g == D!RunOnCommitCallbacks(s)
         IN  Books(g, u, debt, count) /\ SameLocks(s, g) /\ g.d.last = s.d.last
<1>1. CASE s.d.callbacks = <<>>
  BY <1>1 DEF D!RunOnCommitCallbacks, SameLocks
<1>2. CASE s.d.callbacks # <<>>
  <2> DEFINE q == s.d.callbacks
             t == D!GiveBack(s, Head(q))
             a == [o \in D!Outputs |-> t.rd.acks[o] + D!Times(o, q)]
             e == [t.d EXCEPT !.pending = @ - Len(q), !.callbacks = <<>>]
             r == [t.rd EXCEPT !.acks = a]
             g == [t EXCEPT !.rd = r, !.d = e]
  <2>1. D!RunOnCommitCallbacks(s) = g
    BY <1>2 DEF D!RunOnCommitCallbacks
  <2>2. q \in Seq(Outs) /\ Head(q) \in Outs /\ Head(q) <= s.d.last /\ Len(q) \in Nat
    BY <1>2 DEF Books, Owing, Ordered
  <2>3. /\ Books(t, u, debt, count) /\ SameLocks(s, t) /\ t.d.last = s.d.last
        /\ t.d.callbacks = q /\ t.rd.acks = s.rd.acks
    <3> DEFINE k == Head(q)
               h == D!GiveBack(s, k)
    <3>1. k \in {0} \cup Outs /\ k <= s.d.last
      BY <2>2
    <3> HIDE DEF k
    <3>2. /\ Books(h, u, debt, count) /\ SameLocks(s, h) /\ h.d.last = s.d.last
          /\ h.d.callbacks = s.d.callbacks /\ h.rd.acks = s.rd.acks
      BY <3>1, GiveBackKeeps
    <3> QED BY <3>2 DEF k
  <2>4. IsState(t) /\ Owing(t) /\ Ordered(t) /\ Accounts(t, debt, count) /\ (u \/ t.d.draw = 0)
    BY <2>3 DEF Books
  <2>5. a = [o \in Outs |-> t.rd.acks[o] + Number(q, {o})]
    BY TimesIs DEF D!Outputs, Outs
  <2>6. \A o \in Outs : t.rd.acks[o] \in Nat /\ Number(q, {o}) \in Nat
    BY <2>2, <2>4, NumberIsNat DEF Owing
  <2>19. e = [t.d EXCEPT !.pending = t.d.pending - Len(q), !.callbacks = <<>>]
    OBVIOUS
  <2> HIDE DEF t, a, q
  <2>7. a \in [Outs -> Nat] /\ \A o \in Outs : a[o] = t.rd.acks[o] + Number(q, {o})
    BY <2>5, <2>6
  <2>8. /\ IsHost(e) /\ e.pending = t.d.pending - Len(q) /\ e.can_lock = t.d.can_lock
        /\ e.expected = t.d.expected /\ e.held = t.d.held /\ e.shown = t.d.shown
        /\ e.last = t.d.last /\ e.returned = t.d.returned /\ e.callbacks = <<>> /\ e.draw = t.d.draw
    <3> HIDE DEF e
    <3> QED BY <2>4, <2>19 DEF IsState, IsHost
  <2>9. /\ IsRenderer(r) /\ r.acks = a /\ r.swaps = t.rd.swaps /\ r.told = t.rd.told
        /\ r.size = t.rd.size /\ r.output = t.rd.output
    BY <2>4 DEF IsState, IsRenderer
  <2>10. g = [t EXCEPT !.rd = r, !.d = e]
    OBVIOUS
  <2> HIDE DEF e, r, g
  <2>11. IsState(g) /\ g.d = e /\ g.ui = t.ui /\ g.rd = r /\ g.back = t.back
    BY <2>4, <2>8, <2>9, <2>10 DEF IsState
  <2>12. SameLocks(t, g)
    BY <2>8, <2>9, <2>11 DEF SameLocks
  <2>13. <<>> \in Seq(Outs) /\ DOMAIN <<>> = {} /\ Len(<<>>) = 0
    OBVIOUS
  <2>14. Owing(g)
    <3>1. t.d.pending - Len(q) \in Int
      <4>1. t.d.pending \in Int
        BY <2>4 DEF Owing
      <4> QED BY <2>2, <4>1
    <3>2. /\ g.d.callbacks \in Seq(Outs) /\ g.ui.zombies = t.ui.zombies /\ g.d.draw = t.d.draw
          /\ g.d.pending \in Int /\ g.rd.swaps = t.rd.swaps /\ g.rd.acks \in [Outs -> Nat]
          /\ g.d.last = t.d.last /\ g.d.shown = t.d.shown /\ g.d.returned = t.d.returned
          /\ g.ui.unref = t.ui.unref
      BY <2>7, <2>8, <2>9, <2>11, <2>13, <3>1
    <3> QED BY <2>4, <3>2 DEF Owing
  <2>15. Ordered(g)
    BY <2>4, <2>8, <2>11, <2>13 DEF Ordered
  <2>16. Accounts(g, debt, count)
    <3>1. ASSUME NEW o \in Outs PROVE g.rd.swaps[o] - g.rd.acks[o] = debt[o] + Held(g, o)
      <4> DEFINE n == Number(t.ui.zombies, {o}) + Due(t.d.draw, o)
      <4>1. t.rd.swaps[o] - t.rd.acks[o] = debt[o] + Held(t, o)
        BY <2>4 DEF Accounts
      <4>2. Held(t, o) = Number(q, {o}) + n /\ Held(g, o) = n
        <5>1. Number(<<>>, {o}) = 0
          BY NumberEmpty
        <5>2. Number(q, {o}) \in Nat /\ Number(t.ui.zombies, {o}) \in Nat /\ Due(t.d.draw, o) \in {0, 1}
          BY <2>4, <2>6, NumberIsNat DEF Owing, Due
        <5>3. Held(t, o) = Number(q, {o}) + Number(t.ui.zombies, {o}) + Due(t.d.draw, o)
          BY <2>3 DEF Held
        <5>4. Held(g, o) = 0 + Number(t.ui.zombies, {o}) + Due(t.d.draw, o)
          BY <2>8, <2>11, <5>1 DEF Held
        <5> QED BY <5>2, <5>3, <5>4
      <4>3. n \in Nat
        BY <2>4, NumberIsNat DEF Owing, Due
      <4> HIDE DEF n
      <4>4. t.rd.swaps[o] \in Nat /\ debt[o] \in Nat
        BY <2>4 DEF Owing
      <4>5. g.rd.swaps[o] = t.rd.swaps[o] /\ g.rd.acks[o] = t.rd.acks[o] + Number(q, {o})
        BY <2>7, <2>9, <2>11
      <4> QED BY <2>6, <4>1, <4>2, <4>3, <4>4, <4>5
    <3>2. g.d.pending = Callbacks(g) + count
      <4> DEFINE n == Len(t.ui.zombies)
                 k == 1 - Due(t.d.draw, 0)
                 l == Len(q)
      <4>1. t.d.pending = Callbacks(t) + count
        BY <2>4 DEF Accounts
      <4>2. Callbacks(t) = l + n + k
        BY <2>3 DEF Callbacks
      <4>3. Callbacks(g) = 0 + n + k
        BY <2>8, <2>11, <2>13 DEF Callbacks
      <4>4. g.d.pending = t.d.pending - l
        BY <2>8, <2>11
      <4>5. n \in Nat
        BY <2>4 DEF Owing
      <4>6. k \in Nat
        BY DEF Due
      <4>7. l \in Nat
        BY <2>2
      <4> HIDE DEF n, k, l
      <4> QED BY <4>1, <4>2, <4>3, <4>4, <4>5, <4>6, <4>7
    <3> QED BY <3>1, <3>2 DEF Accounts
  <2>17. Books(g, u, debt, count)
    BY <2>4, <2>8, <2>11, <2>14, <2>15, <2>16 DEF Books
  <2>18. SameLocks(s, g) /\ g.d.last = s.d.last
    BY <2>3, <2>8, <2>11, <2>12, LocksTransitive
  <2> QED BY <2>1, <2>17, <2>18
<1> QED BY <1>1, <1>2

\* A surface that is dropped still answers, when nothing draws it any more.
LEMMA DestroyKeeps ==
  ASSUME NEW s, NEW u, NEW debt, NEW count, Books(s, u, debt, count)
  PROVE  LET g == D!Destroy(s)
         IN  /\ Books(g, u, debt, count) /\ SameLocks(s, g) /\ g.d.draw = 0
             /\ g.d.last = s.d.last /\ g.d.shown = s.d.shown
<1>0. IsState(s) /\ Owing(s) /\ Ordered(s) /\ Accounts(s, debt, count)
  BY DEF Books
<1> DEFINE o == s.d.draw
           z == IF o = 0 THEN s.ui.zombies ELSE Append(s.ui.zombies, o)
           v == [s.ui EXCEPT !.zombies = z]
           e == [s.d EXCEPT !.draw = 0]
           g == D!Destroy(s)
<1>1. g = [s EXCEPT !.ui = v, !.d = e]
  BY DEF D!Destroy
<1>2. /\ IsHost(e) /\ e.pending = s.d.pending /\ e.can_lock = s.d.can_lock /\ e.expected = s.d.expected
      /\ e.held = s.d.held /\ e.shown = s.d.shown /\ e.last = s.d.last /\ e.returned = s.d.returned
      /\ e.callbacks = s.d.callbacks /\ e.draw = 0
  BY <1>0 DEF IsState, IsHost
<1> HIDE DEF z
<1>3. IsView(v) /\ v.unref = s.ui.unref /\ v.zombies = z /\ v.desired = s.ui.desired
  BY <1>0 DEF IsState, IsView
<1> HIDE DEF e, v, g
<1>4. IsState(g) /\ g.d = e /\ g.ui = v /\ g.rd = s.rd /\ g.back = s.back
  BY <1>0, <1>1, <1>2, <1>3 DEF IsState
<1>5. SameLocks(s, g)
  BY <1>2, <1>3, <1>4 DEF SameLocks
<1>6. o \in {0} \cup Outs /\ o <= s.d.last /\ 0 <= s.d.last /\ s.ui.zombies \in Seq(Outs)
  BY <1>0 DEF Owing, Ordered, Outs
<1>7. z \in Seq(Outs) /\ \A i \in DOMAIN z : z[i] <= s.d.last
  <2>1. \A i \in DOMAIN s.ui.zombies : s.ui.zombies[i] <= s.d.last
    BY <1>0 DEF Ordered
  <2>2. CASE o = 0
    BY <1>6, <2>1, <2>2 DEF z
  <2>3. CASE o # 0
    <3>1. o \in Outs /\ z = Append(s.ui.zombies, o)
      BY <1>6, <2>3 DEF z
    <3> HIDE DEF o
    <3>2. z \in Seq(Outs) /\ DOMAIN z = 1 .. (Len(s.ui.zombies) + 1) /\ DOMAIN s.ui.zombies = 1 .. Len(s.ui.zombies)
          /\ z[Len(s.ui.zombies) + 1] = o /\ \A i \in DOMAIN s.ui.zombies : z[i] = s.ui.zombies[i]
      BY <1>6, <3>1
    <3>3. \A i \in DOMAIN z : i \in DOMAIN s.ui.zombies \/ i = Len(s.ui.zombies) + 1
      BY <3>2
    <3> QED BY <1>6, <2>1, <3>2, <3>3
  <2> QED BY <2>2, <2>3
<1>8. Owing(g)
  BY <1>0, <1>2, <1>3, <1>4, <1>7 DEF Owing
<1>9. Ordered(g)
  BY <1>0, <1>2, <1>3, <1>4, <1>6, <1>7 DEF Ordered
<1>10. ASSUME NEW x \in Outs PROVE Number(z, {x}) + Due(0, x) = Number(s.ui.zombies, {x}) + Due(o, x)
  <2>1. Number(s.ui.zombies, {x}) \in Nat
    BY <1>6, NumberIsNat
  <2>2. CASE o = 0
    BY <2>2 DEF z
  <2>3. CASE o # 0
    <3>1. o \in Outs /\ z = Append(s.ui.zombies, o)
      BY <1>6, <2>3 DEF z
    <3>2. Number(z, {x}) = IF o \in {x} THEN Number(s.ui.zombies, {x}) + 1 ELSE Number(s.ui.zombies, {x})
      BY <1>6, <3>1, NumberAppend
    <3>3. CASE x = o
      <4>1. Number(z, {x}) = Number(s.ui.zombies, {x}) + 1 /\ Due(0, x) = 0 /\ Due(o, x) = 1
        BY <2>3, <3>2, <3>3 DEF Due
      <4> QED BY <2>1, <4>1
    <3>4. CASE x # o
      <4>1. Number(z, {x}) = Number(s.ui.zombies, {x}) /\ Due(o, x) = 0 /\ Due(0, x) = 0
        BY <3>2, <3>4 DEF Due, Outs
      <4> QED BY <4>1
    <3> QED BY <3>3, <3>4
  <2> QED BY <2>2, <2>3
<1>11. Len(z) + (1 - Due(0, 0)) = Len(s.ui.zombies) + (1 - Due(o, 0))
  <2> DEFINE n == Len(s.ui.zombies)
  <2>1. n \in Nat /\ (o # 0 => Len(Append(s.ui.zombies, o)) = n + 1)
    BY <1>6
  <2>2. Due(0, 0) = 1 /\ Due(o, 0) = IF o = 0 THEN 1 ELSE 0
    BY DEF Due
  <2>3. Len(z) = IF o = 0 THEN n ELSE n + 1
    BY <2>1 DEF z
  <2> HIDE DEF n, o
  <2>4. Len(z) + (1 - Due(0, 0)) = n + (1 - Due(o, 0))
    BY <2>1, <2>2, <2>3
  <2> QED BY <2>4 DEF n
<1>12. Accounts(g, debt, count)
  <2>1. ASSUME NEW x \in Outs PROVE g.rd.swaps[x] - g.rd.acks[x] = debt[x] + Held(g, x)
    <3> DEFINE n == Number(s.d.callbacks, {x})
    <3>1. n \in Nat /\ Number(z, {x}) \in Nat /\ Number(s.ui.zombies, {x}) \in Nat
      BY <1>0, <1>6, <1>7, NumberIsNat DEF Owing
    <3>2. Held(g, x) = n + Number(z, {x}) + Due(0, x) /\ Held(s, x) = n + Number(s.ui.zombies, {x}) + Due(o, x)
      BY <1>2, <1>3, <1>4 DEF Held
    <3>3. Due(0, x) \in {0, 1} /\ Due(o, x) \in {0, 1}
      BY DEF Due
    <3> HIDE DEF n, o
    <3>4. Held(g, x) = Held(s, x)
      BY <1>10, <3>1, <3>2, <3>3
    <3> QED BY <1>0, <1>4, <3>4 DEF Accounts
  <2>2. g.d.pending = Callbacks(g) + count
    <3> DEFINE n == Len(s.d.callbacks)
               k == Len(z)
               l == Len(s.ui.zombies)
    <3>1. n \in Nat /\ k \in Nat /\ l \in Nat
      <4>1. s.d.callbacks \in Seq(Outs) /\ z \in Seq(Outs) /\ s.ui.zombies \in Seq(Outs)
        BY <1>0, <1>6, <1>7 DEF Owing
      <4> QED BY <4>1
    <3>2. Callbacks(g) = n + k + (1 - Due(0, 0)) /\ Callbacks(s) = n + l + (1 - Due(o, 0))
      BY <1>2, <1>3, <1>4 DEF Callbacks
    <3>3. Due(0, 0) \in {0, 1} /\ Due(o, 0) \in {0, 1}
      BY DEF Due
    <3>4. k + (1 - Due(0, 0)) = l + (1 - Due(o, 0))
      BY <1>11
    <3> HIDE DEF n, k, l, o
    <3>5. Callbacks(g) = Callbacks(s)
      BY <3>1, <3>2, <3>3, <3>4
    <3>6. g.d.pending = s.d.pending
      BY <1>2, <1>4
    <3> QED BY <1>0, <3>5, <3>6 DEF Accounts
  <2> QED BY <2>1, <2>2 DEF Accounts
<1>13. Books(g, u, debt, count)
  BY <1>2, <1>4, <1>8, <1>9, <1>12 DEF Books
<1> QED BY <1>2, <1>4, <1>5, <1>13 DEF g

\* Nothing is shown any more; its resources are still in use.
LEMMA EvictKeeps ==
  ASSUME NEW s, NEW debt, NEW count, Books(s, use_surfaces, debt, count)
  PROVE  LET g == D!EvictDelegatedFrame(s)
         IN  /\ Books(g, use_surfaces, debt, count) /\ SameLocks(s, g) /\ g.d.draw = 0
             /\ g.d.last = s.d.last /\ g.d.shown = D!NoFrame
<1>0. IsState(s) /\ Owing(s) /\ Ordered(s) /\ Accounts(s, debt, count) /\ (use_surfaces \/ s.d.draw = 0)
  BY DEF Books
<1> DEFINE w == IF s.d.shown = D!NoFrame THEN s.ui.unref ELSE s.ui.unref \cup {s.d.shown.output}
           v == [s.ui EXCEPT !.unref = w]
           e == [s.d EXCEPT !.shown = D!NoFrame]
           t == [s EXCEPT !.ui = v, !.d = e]
           g == D!EvictDelegatedFrame(s)
<1>1. g = IF use_surfaces THEN D!Destroy(t) ELSE t
  BY DEF D!EvictDelegatedFrame
<1>2. /\ IsHost(e) /\ e.pending = s.d.pending /\ e.can_lock = s.d.can_lock /\ e.expected = s.d.expected
      /\ e.held = s.d.held /\ e.shown = D!NoFrame /\ e.last = s.d.last /\ e.returned = s.d.returned
      /\ e.callbacks = s.d.callbacks /\ e.draw = s.d.draw
  BY <1>0 DEF IsState, IsHost
<1>3. w \subseteq Outs /\ \A o \in w : s.d.last <= o
  <2>1. CASE s.d.shown = D!NoFrame
    BY <1>0, <2>1 DEF Owing, Ordered
  <2>2. CASE s.d.shown # D!NoFrame
    <3>1. s.d.shown.output \in Outs /\ s.d.last <= s.d.shown.output
      BY <1>0, <2>2 DEF Owing, Ordered, Painted
    <3> QED BY <1>0, <2>2, <3>1 DEF Owing, Ordered
  <2> QED BY <2>1, <2>2
<1> HIDE DEF w
<1>4. IsView(v) /\ v.unref = w /\ v.zombies = s.ui.zombies /\ v.desired = s.ui.desired
  BY <1>0 DEF IsState, IsView
<1>5. t = [s EXCEPT !.ui = v, !.d = e]
  OBVIOUS
<1> HIDE DEF e, v, t, g
<1>6. IsState(t) /\ t.d = e /\ t.ui = v /\ t.rd = s.rd /\ t.back = s.back
  BY <1>0, <1>2, <1>4, <1>5 DEF IsState
<1>7. SameLocks(s, t)
  BY <1>2, <1>4, <1>6 DEF SameLocks
<1>8. Owing(t)
  BY <1>0, <1>2, <1>3, <1>4, <1>6 DEF Owing
<1>9. Ordered(t)
  BY <1>0, <1>2, <1>3, <1>4, <1>6 DEF Ordered
<1>10. Accounts(t, debt, count)
  BY <1>0, <1>2, <1>4, <1>6 DEF Accounts, Held, Callbacks
<1>11. Books(t, use_surfaces, debt, count)
  BY <1>0, <1>2, <1>6, <1>8, <1>9, <1>10 DEF Books
<1>12. CASE use_surfaces
  <2> DEFINE k == D!Destroy(t)
  <2>1. /\ Books(k, use_surfaces, debt, count) /\ SameLocks(t, k) /\ k.d.draw = 0
        /\ k.d.last = t.d.last /\ k.d.shown = t.d.shown
    BY <1>11, DestroyKeeps
  <2>2. g = k
    BY <1>1, <1>12
  <2> HIDE DEF k
  <2>3. SameLocks(s, k)
    BY <1>7, <2>1, LocksTransitive
  <2> QED BY <1>2, <1>6, <2>1, <2>2, <2>3 DEF g
<1>13. CASE ~ use_surfaces
  BY <1>0, <1>1, <1>2, <1>6, <1>7, <1>11, <1>13 DEF g
<1> QED BY <1>12, <1>13

\* With a new output nothing of the old one is left to give back.
LEMMA NewOutputKeeps ==
  ASSUME NEW s, NEW debt, NEW count, Books(s, use_surfaces, debt, count),
         NEW o \in Outs, s.d.last <= o
  PROVE  LET g == D!NewOutput(s, o)
         IN  /\ Books(g, use_surfaces, debt, count) /\ SameLocks(s, g) /\ g.d.draw = 0
             /\ g.d.last = o /\ g.d.shown = D!NoFrame
<1> DEFINE t == D!EvictDelegatedFrame(s)
           c == IF use_surfaces THEN t ELSE [t EXCEPT !.d.returned = @ \cup t.ui.unref]
           x == D!GiveBack(c, s.d.last)
           v == [x.ui EXCEPT !.unref = {}]
           e == [x.d EXCEPT !.last = o]
           g == D!NewOutput(s, o)
<1>1. g = [x EXCEPT !.ui = v, !.d = e]
  BY DEF D!NewOutput, D!SendReturnedDelegatedResources
<1>2. /\ Books(t, use_surfaces, debt, count) /\ SameLocks(s, t) /\ t.d.draw = 0
      /\ t.d.last = s.d.last /\ t.d.shown = D!NoFrame
  BY EvictKeeps
<1>3. IsState(t) /\ Owing(t) /\ Ordered(t) /\ Accounts(t, debt, count)
  BY <1>2 DEF Books
<1> HIDE DEF t
<1>4. /\ Books(c, use_surfaces, debt, count) /\ SameLocks(t, c) /\ c.d.draw = 0
      /\ c.d.last = s.d.last /\ c.d.shown = D!NoFrame
  <2>1. CASE use_surfaces
    BY <1>2, <2>1 DEF SameLocks
  <2>2. CASE ~ use_surfaces
    <3> DEFINE f == [t.d EXCEPT !.returned = t.d.returned \cup t.ui.unref]
    <3>1. c = [t EXCEPT !.d = f]
      BY <2>2
    <3> DEFINE n == t.d.returned \cup t.ui.unref
    <3>8. f = [t.d EXCEPT !.returned = n]
      OBVIOUS
    <3>9. t.d.returned \cup t.ui.unref = n
      OBVIOUS
    <3> HIDE DEF f, n
    <3>2. /\ IsHost(f) /\ f.pending = t.d.pending /\ f.can_lock = t.d.can_lock /\ f.expected = t.d.expected
          /\ f.held = t.d.held /\ f.shown = t.d.shown /\ f.last = t.d.last
          /\ f.returned = n /\ f.callbacks = t.d.callbacks /\ f.draw = t.d.draw
      BY <1>3, <3>8 DEF IsState, IsHost
    <3> HIDE DEF c
    <3>3. IsState(c) /\ c.d = f /\ c.ui = t.ui /\ c.rd = t.rd /\ c.back = t.back
      BY <1>3, <3>1, <3>2 DEF IsState
    <3>4. SameLocks(t, c)
      BY <3>2, <3>3 DEF SameLocks
    <3>5. Owing(c)
      BY <1>3, <3>2, <3>3, <3>9 DEF Owing
    <3>6. Ordered(c)
      BY <1>3, <3>2, <3>3, <3>9 DEF Ordered
    <3>7. Accounts(c, debt, count)
      BY <1>3, <3>2, <3>3 DEF Accounts, Held, Callbacks
    <3> QED BY <1>2, <3>2, <3>3, <3>4, <3>5, <3>6, <3>7 DEF Books
  <2> QED BY <2>1, <2>2
<1> HIDE DEF c
<1>5. s.d.last \in {0} \cup Outs /\ s.d.last <= c.d.last
  <2>1. s.d.last \in {0} \cup Outs
    BY DEF Books, Owing
  <2> QED BY <1>4, <2>1 DEF Outs
<1>6. /\ Books(x, use_surfaces, debt, count) /\ SameLocks(c, x) /\ x.d.last = s.d.last
      /\ x.d.draw = 0 /\ x.d.shown = D!NoFrame /\ x.d.returned = {}
  <2> DEFINE w == s.d.last
             k == D!GiveBack(c, w)
  <2>1. w \in {0} \cup Outs /\ w <= c.d.last
    BY <1>5
  <2>2. k = x
    OBVIOUS
  <2> HIDE DEF w, x
  <2>3. /\ Books(k, use_surfaces, debt, count) /\ SameLocks(c, k)
        /\ k.d.last = c.d.last /\ k.d.draw = c.d.draw /\ k.d.callbacks = c.d.callbacks
        /\ k.d.shown = c.d.shown /\ k.ui.zombies = c.ui.zombies /\ k.rd.acks = c.rd.acks
        /\ k.d.pending = c.d.pending /\ k.d.returned = {}
    BY <1>4, <2>1, GiveBackKeeps
  <2> HIDE DEF k
  <2> QED BY <1>4, <2>2, <2>3
<1> HIDE DEF x
<1>7. IsState(x) /\ Owing(x) /\ Ordered(x) /\ Accounts(x, debt, count)
  BY <1>6 DEF Books
<1>8. /\ IsHost(e) /\ e.pending = x.d.pending /\ e.can_lock = x.d.can_lock /\ e.expected = x.d.expected
      /\ e.held = x.d.held /\ e.shown = x.d.shown /\ e.last = o /\ e.returned = x.d.returned
      /\ e.callbacks = x.d.callbacks /\ e.draw = x.d.draw
  BY <1>7 DEF IsState, IsHost
<1>9. IsView(v) /\ v.unref = {} /\ v.zombies = x.ui.zombies /\ v.desired = x.ui.desired
  BY <1>7 DEF IsState, IsView
<1> HIDE DEF e, v, g
<1>10. IsState(g) /\ g.d = e /\ g.ui = v /\ g.rd = x.rd /\ g.back = x.back
  BY <1>1, <1>7, <1>8, <1>9 DEF IsState
<1>11. SameLocks(x, g)
  BY <1>8, <1>9, <1>10 DEF SameLocks
<1>12. Owing(g)
  BY <1>7, <1>8, <1>9, <1>10 DEF Owing
<1>13. Ordered(g)
  <2>1. /\ \A i \in DOMAIN x.d.callbacks : x.d.callbacks[i] <= o
        /\ \A i \in DOMAIN x.ui.zombies : x.ui.zombies[i] <= o
    <3>1. \A i \in DOMAIN x.d.callbacks : x.d.callbacks[i] \in Outs
      BY <1>7 DEF Owing
    <3>2. \A i \in DOMAIN x.ui.zombies : x.ui.zombies[i] \in Outs
      BY <1>7 DEF Owing
    <3>3. /\ \A i \in DOMAIN x.d.callbacks : x.d.callbacks[i] <= s.d.last
          /\ \A i \in DOMAIN x.ui.zombies : x.ui.zombies[i] <= s.d.last
      BY <1>6, <1>7 DEF Ordered
    <3>4. ASSUME NEW n \in Outs, n <= s.d.last PROVE n <= o
      BY <1>5, <3>4 DEF Outs
    <3> QED BY <3>1, <3>2, <3>3, <3>4
  <2>2. 0 <= o
    BY DEF Outs
  <2>3. \A n \in x.back.whose : x.back.to <= n
    BY <1>7 DEF Ordered
  <2> QED BY <1>6, <1>8, <1>9, <1>10, <2>1, <2>2, <2>3 DEF Ordered
<1>14. Accounts(g, debt, count)
  BY <1>7, <1>8, <1>9, <1>10 DEF Accounts, Held, Callbacks
<1>15. Books(g, use_surfaces, debt, count)
  BY <1>6, <1>8, <1>10, <1>12, <1>13, <1>14 DEF Books
<1>16. SameLocks(s, g)
  BY <1>2, <1>4, <1>6, <1>11, LocksTransitive
<1> QED BY <1>6, <1>8, <1>10, <1>15, <1>16 DEF g

\* A frame is handed over: what was shown is given up, and an undrawn callback runs.
LEMMA SubmitKeeps ==
  ASSUME NEW s, NEW debt, NEW count, Books(s, use_surfaces, debt, count),
         debt \in [Outs -> Nat], count \in Nat, MaxOutputs \in Nat,
         NEW frame \in Painted, frame.output = s.d.last,
         NEW ack \in {0, frame.output}, use_surfaces \/ ack = 0
  PROVE  LET g == D!Submit(s, frame, ack)
         IN  /\ IF ack = 0 THEN Books(g, use_surfaces, debt, count)
                ELSE Books(g, use_surfaces, [debt EXCEPT ![ack] = @ - 1], count - 1)
             /\ SameLocks(s, g) /\ g.d.last = s.d.last
<1> DEFINE fresh == use_surfaces /\ s.d.shown.size \notin {0, frame.size}
           n == s.ui.unref \cup {s.d.shown.output}
           v == [s.ui EXCEPT !.unref = n]
           t == IF s.d.shown = D!NoFrame THEN s ELSE [s EXCEPT !.ui = v]
           x == IF fresh THEN D!Destroy(t)
                ELSE IF use_surfaces /\ t.d.draw # 0 THEN D!SurfaceDrawn([t EXCEPT !.d.draw = 0], t.d.draw)
                ELSE t
           e == [x.d EXCEPT !.shown = frame, !.draw = ack]
           g == D!Submit(s, frame, ack)
           owe == IF ack = 0 THEN debt ELSE [debt EXCEPT ![ack] = @ - 1]
           left == IF ack = 0 THEN count ELSE count - 1
<1>0. IsState(s) /\ Owing(s) /\ Ordered(s) /\ Accounts(s, debt, count) /\ (use_surfaces \/ s.d.draw = 0)
  BY DEF Books
<1>15. g = [x EXCEPT !.d.shown = frame, !.d.draw = ack]
  BY DEF D!Submit
<1>1. g = [x EXCEPT !.d = e]
  <2> HIDE DEF x, g
  <2> QED BY <1>15
<1>2. Books(t, use_surfaces, debt, count) /\ SameLocks(s, t) /\ t.d.last = s.d.last
  <2>1. CASE s.d.shown = D!NoFrame
    BY <2>1 DEF SameLocks
  <2>2. CASE s.d.shown # D!NoFrame
    <3>1. s.d.shown.output \in Outs /\ s.d.last <= s.d.shown.output
      BY <1>0, <2>2 DEF Owing, Ordered, Painted
    <3>2. n \subseteq Outs /\ \A o \in n : s.d.last <= o
      BY <1>0, <3>1 DEF Owing, Ordered
    <3>3. t = [s EXCEPT !.ui = v] /\ v = [s.ui EXCEPT !.unref = n]
      BY <2>2
    <3> HIDE DEF n, t, v
    <3>4. IsView(v) /\ v.unref = n /\ v.zombies = s.ui.zombies /\ v.desired = s.ui.desired
      BY <1>0, <3>3 DEF IsState, IsView
    <3>5. IsState(t) /\ t.d = s.d /\ t.ui = v /\ t.rd = s.rd /\ t.back = s.back
      BY <1>0, <3>3, <3>4 DEF IsState
    <3>6. SameLocks(s, t)
      BY <3>4, <3>5 DEF SameLocks
    <3>7. Owing(t)
      BY <1>0, <3>2, <3>4, <3>5 DEF Owing
    <3>8. Ordered(t)
      BY <1>0, <3>2, <3>4, <3>5 DEF Ordered
    <3>9. Accounts(t, debt, count)
      BY <1>0, <3>4, <3>5 DEF Accounts, Held, Callbacks
    <3> QED BY <1>0, <3>5, <3>6, <3>7, <3>8, <3>9 DEF Books
  <2> QED BY <2>1, <2>2
<1> HIDE DEF t, fresh
<1>3. Books(x, use_surfaces, debt, count) /\ SameLocks(t, x) /\ x.d.last = t.d.last /\ x.d.draw = 0
  <2>1. CASE fresh
    <3> DEFINE k == D!Destroy(t)
    <3>1. Books(k, use_surfaces, debt, count) /\ SameLocks(t, k) /\ k.d.draw = 0 /\ k.d.last = t.d.last
      BY <1>2, DestroyKeeps
    <3> HIDE DEF k
    <3>2. x = k
      BY <2>1 DEF k
    <3> HIDE DEF x
    <3> QED BY <3>1, <3>2
  <2>2. CASE ~ fresh /\ use_surfaces /\ t.d.draw # 0
    <3> DEFINE k == D!SurfaceDrawn([t EXCEPT !.d.draw = 0], t.d.draw)
    <3>1. Books(k, use_surfaces, debt, count) /\ SameLocks(t, k) /\ k.d.draw = 0 /\ k.d.last = t.d.last
      BY <1>2, <2>2, DrawnKeeps
    <3> HIDE DEF k
    <3>2. x = k
      BY <2>2 DEF k
    <3> HIDE DEF x
    <3> QED BY <3>1, <3>2
  <2>3. CASE ~ fresh /\ ~ (use_surfaces /\ t.d.draw # 0)
    BY <1>2, <2>3 DEF Books, SameLocks
  <2> QED BY <2>1, <2>2, <2>3
<1>4. e = [x.d EXCEPT !.shown = frame, !.draw = ack]
  OBVIOUS
<1> HIDE DEF x, e, g
<1>5. IsState(x) /\ Owing(x) /\ Ordered(x) /\ Accounts(x, debt, count)
  BY <1>3 DEF Books
<1>6. /\ IsHost(e) /\ e.pending = x.d.pending /\ e.can_lock = x.d.can_lock /\ e.expected = x.d.expected
      /\ e.held = x.d.held /\ e.shown = frame /\ e.last = x.d.last /\ e.returned = x.d.returned
      /\ e.callbacks = x.d.callbacks /\ e.draw = ack
  BY <1>4, <1>5 DEF IsState, IsHost
<1>7. IsState(g) /\ g.d = e /\ g.ui = x.ui /\ g.rd = x.rd /\ g.back = x.back
  BY <1>1, <1>5, <1>6 DEF IsState
<1>8. SameLocks(x, g)
  BY <1>6, <1>7 DEF SameLocks
<1>9. frame.output \in Outs /\ x.d.last = frame.output
  BY <1>2, <1>3 DEF Painted
<1>10. Owing(g)
  BY <1>5, <1>6, <1>7, <1>9 DEF Owing
<1>11. Ordered(g)
  <2>1. x.d.last <= frame.output /\ ack <= x.d.last
    BY <1>9 DEF Outs
  <2> QED BY <1>5, <1>6, <1>7, <2>1 DEF Ordered
<1>12. Accounts(g, owe, left)
  <2>1. ASSUME NEW o \in Outs PROVE g.rd.swaps[o] - g.rd.acks[o] = owe[o] + Held(g, o)
    <3> DEFINE k == Number(x.d.callbacks, {o}) + Number(x.ui.zombies, {o})
    <3>1. k \in Nat
      BY <1>5, NumberIsNat DEF Owing
    <3>2. Held(g, o) = k + Due(ack, o) /\ Held(x, o) = k + Due(0, o)
      BY <1>3, <1>6, <1>7 DEF Held
    <3> HIDE DEF k
    <3>3. Due(0, o) = 0 /\ Due(ack, o) = IF ack = o THEN 1 ELSE 0
      BY DEF Due, Outs
    <3>4. debt[o] \in Nat /\ owe[o] = debt[o] - Due(ack, o) /\ Due(ack, o) \in {0, 1}
      <4>1. CASE ack = 0
        BY <3>3, <4>1 DEF Outs
      <4>2. CASE ack # 0
        BY <3>3, <4>2
      <4> QED BY <4>1, <4>2
    <3>5. x.rd.swaps[o] - x.rd.acks[o] = debt[o] + Held(x, o)
      BY <1>5 DEF Accounts
    <3>6. debt[o] + Held(x, o) = owe[o] + Held(g, o)
      <4> DEFINE z == Due(ack, o)
                 b == debt[o]
      <4>1. Held(g, o) = k + z /\ Held(x, o) = k /\ z \in Nat /\ b \in Nat /\ owe[o] = b - z
        BY <3>1, <3>2, <3>3, <3>4
      <4> HIDE DEF z, b
      <4>2. b + k = (b - z) + (k + z)
        BY <3>1, <4>1
      <4> QED BY <4>1, <4>2 DEF b
    <3> QED BY <1>7, <3>5, <3>6
  <2>2. g.d.pending = Callbacks(g) + left
    <3> DEFINE k == Len(x.d.callbacks) + Len(x.ui.zombies)
    <3>1. k \in Nat
      BY <1>5, LengthIsNat
    <3>2. Callbacks(g) = k + (1 - Due(ack, 0)) /\ Callbacks(x) = k + (1 - Due(0, 0))
      BY <1>3, <1>6, <1>7 DEF Callbacks
    <3> HIDE DEF k
    <3>3. Due(0, 0) = 1 /\ Due(ack, 0) = IF ack = 0 THEN 1 ELSE 0
      BY DEF Due
    <3>4. x.d.pending = Callbacks(x) + count /\ g.d.pending = x.d.pending
      BY <1>5, <1>6, <1>7 DEF Accounts
    <3>5. left = count - (1 - Due(ack, 0)) /\ Due(ack, 0) \in {0, 1}
      BY <3>3
    <3> HIDE DEF left
    <3> QED BY <3>1, <3>2, <3>3, <3>4, <3>5
  <2> QED BY <2>1, <2>2 DEF Accounts
<1>13. Books(g, use_surfaces, owe, left)
  BY <1>6, <1>7, <1>10, <1>11, <1>12 DEF Books
<1>14. SameLocks(s, g)
  BY <1>2, <1>3, <1>8, LocksTransitive
<1> QED BY <1>2, <1>3, <1>6, <1>7, <1>13, <1>14 DEF g

-----------------------------------------------------------------------------
(* The locks on the compositor.                                            *)

\* Locks are let go; nothing else happens.
Loosens(s, g) ==
  /\ IsState(g) /\ SameBooks(s, g) /\ g.ui = s.ui /\ g.rd = s.rd
  /\ g.d.can_lock \in D!CanLock \cup {s.d.can_lock} /\ g.d.expected = s.d.expected
  /\ g.d.held => s.d.held

LEMMA LoosensTransitive ==
  ASSUME NEW s, NEW g, NEW k, Loosens(s, g), Loosens(g, k)
  PROVE  Loosens(s, k)
BY DEF Loosens, SameBooks

LEMMA LoosensKeeps ==
  ASSUME NEW s, NEW g, Loosens(s, g), NEW u, NEW debt, NEW count, Books(s, u, debt, count)
  PROVE  /\ Books(g, u, debt, count) /\ g.d.last = s.d.last
         /\ Locks(s) => Locks(g)
         /\ Asks(s) => Asks(g)
         /\ g.rd.output = s.rd.output
<1>1. Books(g, u, debt, count)
  BY BooksRest DEF Loosens
<1>2. Locks(s) => Locks(g)
  BY DEF Loosens, Locks
<1> QED BY <1>1, <1>2 DEF Loosens, Asks, SameBooks

LEMMA LockLoosens ==
  ASSUME NEW s, IsState(s)
  PROVE  /\ Loosens(s, D!OnCompositingLockStateChanged(s))
         /\ Loosens(s, D!ReleaseFront(s))
         /\ Loosens(s, D!UnlockCompositor(s))
         /\ Loosens(s, D!CheckResizeLock(s))
<1>0. Loosens(s, s)
  BY DEF Loosens, SameBooks
<1>1. ASSUME NEW t, IsState(t) PROVE Loosens(t, D!OnCompositingLockStateChanged(t))
  <2> DEFINE e == [t.d EXCEPT !.can_lock = "NO_PENDING_RENDERER_FRAME"]
             g == [t EXCEPT !.d = e]
  <2>1. Loosens(t, t)
    BY <1>1 DEF Loosens, SameBooks
  <2>2. Loosens(t, g)
    <3>1. /\ IsHost(e) /\ e.pending = t.d.pending /\ e.can_lock \in D!CanLock /\ e.expected = t.d.expected
          /\ e.held = t.d.held /\ e.shown = t.d.shown /\ e.last = t.d.last /\ e.returned = t.d.returned
          /\ e.callbacks = t.d.callbacks /\ e.draw = t.d.draw
      BY <1>1 DEF IsState, IsHost, D!CanLock
    <3>2. g = [t EXCEPT !.d = e]
      OBVIOUS
    <3> HIDE DEF e, g
    <3>3. IsState(g) /\ g.d = e /\ g.ui = t.ui /\ g.rd = t.rd /\ g.back = t.back
      BY <1>1, <3>1, <3>2 DEF IsState
    <3> QED BY <3>1, <3>3 DEF Loosens, SameBooks
  <2>3. D!OnCompositingLockStateChanged(t) \in {t, g}
    BY DEF D!OnCompositingLockStateChanged
  <2> QED BY <2>1, <2>2, <2>3
<1>2. Loosens(s, D!ReleaseFront(s))
  <2> DEFINE e == [s.d EXCEPT !.front = FALSE]
             t == [s EXCEPT !.d = e]
             no == FALSE
  <2>1. D!ReleaseFront(s) \in {t, D!OnCompositingLockStateChanged(t)}
    BY DEF D!ReleaseFront
  <2>2. Loosens(s, t)
    <3>2. t = [s EXCEPT !.d = e] /\ e = [s.d EXCEPT !.front = no]
      OBVIOUS
    <3> HIDE DEF e, t, no
    <3>1. /\ IsHost(e) /\ e.pending = s.d.pending /\ e.can_lock = s.d.can_lock /\ e.expected = s.d.expected
          /\ e.held = s.d.held /\ e.shown = s.d.shown /\ e.last = s.d.last /\ e.returned = s.d.returned
          /\ e.callbacks = s.d.callbacks /\ e.draw = s.d.draw
      BY <3>2 DEF IsState, IsHost
    <3>3. IsState(t) /\ t.d = e /\ t.ui = s.ui /\ t.rd = s.rd /\ t.back = s.back
      BY <3>1, <3>2 DEF IsState
    <3> QED BY <3>1, <3>3 DEF Loosens, SameBooks
  <2> HIDE DEF t
  <2>3. Loosens(t, D!OnCompositingLockStateChanged(t))
    BY <1>1, <2>2 DEF Loosens
  <2>4. Loosens(s, D!OnCompositingLockStateChanged(t))
    BY <2>2, <2>3, LoosensTransitive
  <2> QED BY <2>1, <2>2, <2>4
<1>3. Loosens(s, D!UnlockCompositor(s))
  <2> DEFINE e == [s.d EXCEPT !.deferred = FALSE, !.held = FALSE]
             t == [s EXCEPT !.d = e]
             no == FALSE
  <2>1. D!UnlockCompositor(s) \in {t, D!OnCompositingLockStateChanged(t)}
    <3>1. [s EXCEPT !.d.deferred = FALSE, !.d.held = FALSE] = t
      OBVIOUS
    <3> HIDE DEF t
    <3> QED BY <3>1 DEF D!UnlockCompositor
  <2>2. Loosens(s, t)
    <3>2. t = [s EXCEPT !.d = e] /\ e = [s.d EXCEPT !.deferred = no, !.held = no]
      OBVIOUS
    <3>4. no = FALSE
      OBVIOUS
    <3> HIDE DEF e, t, no
    <3>1. /\ IsHost(e) /\ e.pending = s.d.pending /\ e.can_lock = s.d.can_lock /\ e.expected = s.d.expected
          /\ e.held = no /\ e.shown = s.d.shown /\ e.last = s.d.last /\ e.returned = s.d.returned
          /\ e.callbacks = s.d.callbacks /\ e.draw = s.d.draw
      BY <3>2 DEF IsState, IsHost
    <3>3. IsState(t) /\ t.d = e /\ t.ui = s.ui /\ t.rd = s.rd /\ t.back = s.back
      BY <3>1, <3>2 DEF IsState
    <3> QED BY <3>1, <3>3, <3>4 DEF Loosens, SameBooks
  <2> HIDE DEF t
  <2>3. Loosens(t, D!OnCompositingLockStateChanged(t))
    BY <1>1, <2>2 DEF Loosens
  <2>4. Loosens(s, D!OnCompositingLockStateChanged(t))
    BY <2>2, <2>3, LoosensTransitive
  <2> QED BY <2>1, <2>2, <2>4
<1>4. D!CheckResizeLock(s) \in {s, D!UnlockCompositor(s)}
  BY DEF D!CheckResizeLock
<1> QED BY <1>0, <1>1, <1>2, <1>3, <1>4

\* A lock is taken for the size the window is to have.
LEMMA CreateLockKeeps ==
  ASSUME NEW s, NEW u, NEW debt, NEW count, Books(s, u, debt, count), Locks(s), Sizes \subseteq Nat \ {0}
  PROVE  LET g == D!MaybeCreateResizeLock(s)
         IN  /\ Books(g, u, debt, count) /\ Locks(g) /\ g.d.last = s.d.last /\ g.rd = s.rd
             /\ Asks(s) /\ s.rd.told = s.ui.desired => Asks(g)
<1> DEFINE g == D!MaybeCreateResizeLock(s)
           defer == s.d.can_lock \in {"NO_PENDING_RENDERER_FRAME", "NO_PENDING_COMMIT"}
           c == IF s.d.can_lock = "YES_CAN_LOCK" THEN "YES_DID_LOCK" ELSE s.d.can_lock
           hold == ~ defer
           e == [s.d EXCEPT !.can_lock = c, !.expected = s.ui.desired, !.deferred = defer, !.held = hold]
           t == [s EXCEPT !.d = e]
<1>1. IsState(s)
  BY DEF Books
<1>2. g \in {s, t}
  BY DEF D!MaybeCreateResizeLock
<1>3. c \in D!CanLock /\ s.ui.desired \in Sizes /\ s.ui.desired # 0
  BY DEF Locks, D!CanLock
<1>4. t = [s EXCEPT !.d = e]
  OBVIOUS
<1>13. e = [s.d EXCEPT !.can_lock = c, !.expected = s.ui.desired, !.deferred = defer, !.held = hold]
  OBVIOUS
<1> HIDE DEF c, hold, defer, e, t, g
<1>5. /\ IsHost(e) /\ e.pending = s.d.pending /\ e.can_lock = c /\ e.expected = s.ui.desired
      /\ e.shown = s.d.shown /\ e.last = s.d.last /\ e.returned = s.d.returned
      /\ e.callbacks = s.d.callbacks /\ e.draw = s.d.draw
  BY <1>1, <1>13 DEF IsState, IsHost
<1>6. IsState(t) /\ t.d = e /\ t.ui = s.ui /\ t.rd = s.rd /\ t.back = s.back
  BY <1>1, <1>4, <1>5 DEF IsState
<1>7. SameBooks(s, t)
  BY <1>5, <1>6 DEF SameBooks
<1>8. Books(t, u, debt, count)
  BY <1>6, <1>7, BooksRest
<1>9. Locks(t)
  BY <1>3, <1>5, <1>6 DEF Locks
<1>10. s.rd.told = s.ui.desired => Asks(t)
  BY <1>5, <1>6 DEF Asks
<1>11. CASE g = t
  BY <1>5, <1>6, <1>8, <1>9, <1>10, <1>11 DEF g
<1>12. CASE g = s
  BY <1>12 DEF g
<1> QED BY <1>2, <1>11, <1>12

\* The renderer is told the size the lock waits for.
LEMMA ToldKeeps ==
  ASSUME NEW s, NEW u, NEW debt, NEW count, Books(s, u, debt, count), Locks(s)
  PROVE  LET g == D!WidgetWasResized(s)
         IN  /\ Books(g, u, debt, count) /\ Locks(g) /\ Asks(g) /\ g.d = s.d /\ g.ui = s.ui
             /\ g.rd.output = s.rd.output
             /\ s.d.expected = 0 => g.rd.told = g.ui.desired
<1> DEFINE size == D!GetRequestedRendererSize(s)
           z == s.rd.resize \/ size # s.rd.told
           r == [s.rd EXCEPT !.told = size, !.resize = z]
           g == D!WidgetWasResized(s)
<1>1. IsState(s)
  BY DEF Books
<1>2. g = [s EXCEPT !.rd = r]
  BY DEF D!WidgetWasResized
<1>3. size \in Sizes /\ (s.d.expected # 0 => size = s.d.expected) /\ (s.d.expected = 0 => size = s.ui.desired)
  BY DEF Locks, D!GetRequestedRendererSize
<1>9. r = [s.rd EXCEPT !.told = size, !.resize = z]
  OBVIOUS
<1> HIDE DEF size, z, r, g
<1>4. /\ IsRenderer(r) /\ r.acks = s.rd.acks /\ r.swaps = s.rd.swaps /\ r.told = size /\ r.size = s.rd.size
      /\ r.output = s.rd.output
  BY <1>1, <1>9 DEF IsState, IsRenderer
<1>5. IsState(g) /\ g.d = s.d /\ g.ui = s.ui /\ g.rd = r /\ g.back = s.back
  BY <1>1, <1>2, <1>4 DEF IsState
<1>6. SameBooks(s, g)
  BY <1>4, <1>5 DEF SameBooks
<1>7. Books(g, u, debt, count)
  BY <1>5, <1>6, BooksRest
<1>8. Locks(g) /\ Asks(g)
  BY <1>3, <1>4, <1>5 DEF Locks, Asks
<1> QED BY <1>3, <1>4, <1>5, <1>7, <1>8 DEF g

LEMMA ResetLockKeeps ==
  ASSUME NEW s, NEW u, NEW debt, NEW count, Books(s, u, debt, count), Locks(s)
  PROVE  LET g == D!ResetResizeLock(s)
         IN  /\ Books(g, u, debt, count) /\ Locks(g) /\ Asks(g) /\ g.d.last = s.d.last
             /\ g.rd.told = g.ui.desired /\ g.rd.output = s.rd.output
<1> DEFINE e == [s.d EXCEPT !.expected = 0]
           t == [s EXCEPT !.d = e]
           x == D!UnlockCompositor(t)
           g == D!WidgetWasResized(x)
<1>1. IsState(s)
  BY DEF Books
<1>2. D!ResetResizeLock(s) = g
  BY DEF D!ResetResizeLock
<1>3. /\ IsHost(e) /\ e.pending = s.d.pending /\ e.can_lock = s.d.can_lock /\ e.expected = 0
      /\ e.held = s.d.held /\ e.shown = s.d.shown /\ e.last = s.d.last /\ e.returned = s.d.returned
      /\ e.callbacks = s.d.callbacks /\ e.draw = s.d.draw
  BY <1>1 DEF IsState, IsHost
<1>4. t = [s EXCEPT !.d = e]
  OBVIOUS
<1>14. x.d.held = FALSE
  BY DEF D!UnlockCompositor, D!OnCompositingLockStateChanged
<1> HIDE DEF e, t
<1>5. IsState(t) /\ t.d = e /\ t.ui = s.ui /\ t.rd = s.rd /\ t.back = s.back
  BY <1>1, <1>3, <1>4 DEF IsState
<1>6. SameBooks(s, t)
  BY <1>3, <1>5 DEF SameBooks
<1>7. Books(t, u, debt, count)
  BY <1>5, <1>6, BooksRest
<1>8. Loosens(t, x)
  BY <1>5, LockLoosens
<1> HIDE DEF x
<1>9. Books(x, u, debt, count) /\ x.d.last = t.d.last
  BY <1>7, <1>8, LoosensKeeps
<1>10. Locks(x)
  BY <1>3, <1>5, <1>8, <1>14 DEF Locks, Loosens
<1>11. x.d.expected = 0 /\ x.rd.output = s.rd.output
  BY <1>3, <1>5, <1>8 DEF Loosens
<1> QED BY <1>2, <1>3, <1>5, <1>9, <1>10, <1>11, ToldKeeps

-----------------------------------------------------------------------------
(* A frame of the renderer.                                                *)

\* A frame that is skipped is answered at once, with its own resources.
LEMMA SkipKeeps ==
  ASSUME NEW s, NEW u, NEW debt \in [Outs -> Nat], Books(s, u, debt, 0), NEW frame \in Painted
  PROVE  LET g == D!SkipFrame(s, frame)
         IN  /\ Books(g, u, [debt EXCEPT ![frame.output] = @ - 1], 0) /\ SameLocks(s, g)
             /\ g.d.last = s.d.last
<1> DEFINE o == frame.output
           a == [s.rd.acks EXCEPT ![o] = @ + 1]
           r == [s.rd EXCEPT !.acks = a]
           b == [to |-> o, whose |-> {o}]
           yes == TRUE
           e == [s.d EXCEPT !.latency = yes, !.skipped = yes]
           g == D!SkipFrame(s, frame)
           owe == [debt EXCEPT ![o] = @ - 1]
<1>0. IsState(s) /\ Owing(s) /\ Ordered(s) /\ Accounts(s, debt, 0) /\ (u \/ s.d.draw = 0)
  BY DEF Books
<1>1. g = [s EXCEPT !.rd = r, !.back = b, !.d = e]
  BY DEF D!SkipFrame
<1>2. o \in Outs
  BY DEF Painted
<1>3. e = [s.d EXCEPT !.latency = yes, !.skipped = yes] /\ b.to = o /\ b.whose = {o}
  OBVIOUS
<1>4. a \in [Outs -> Nat] /\ \A x \in Outs : a[x] = IF x = o THEN s.rd.acks[x] + 1 ELSE s.rd.acks[x]
  <2>1. s.rd.acks \in [Outs -> Nat]
    BY <1>0 DEF Owing
  <2> QED BY <1>2, <2>1, OneMore
<1>5. \A x \in Outs : owe[x] = IF x = o THEN debt[x] - 1 ELSE debt[x]
  OBVIOUS
<1>6. r = [s.rd EXCEPT !.acks = a]
  OBVIOUS
<1> HIDE DEF yes, e, b, a, r, owe, g
<1>7. /\ IsHost(e) /\ e.pending = s.d.pending /\ e.can_lock = s.d.can_lock /\ e.expected = s.d.expected
      /\ e.held = s.d.held /\ e.shown = s.d.shown /\ e.last = s.d.last /\ e.returned = s.d.returned
      /\ e.callbacks = s.d.callbacks /\ e.draw = s.d.draw
  BY <1>0, <1>3 DEF IsState, IsHost
<1>8. /\ IsRenderer(r) /\ r.acks = a /\ r.swaps = s.rd.swaps /\ r.told = s.rd.told /\ r.size = s.rd.size
      /\ r.output = s.rd.output
  BY <1>0, <1>6 DEF IsState, IsRenderer
<1>9. IsState(g) /\ g.d = e /\ g.ui = s.ui /\ g.rd = r /\ g.back = b
  BY <1>0, <1>1, <1>7, <1>8 DEF IsState
<1>10. SameLocks(s, g)
  BY <1>7, <1>8, <1>9 DEF SameLocks
<1>11. Owing(g)
  BY <1>0, <1>4, <1>7, <1>8, <1>9 DEF Owing
<1>12. Ordered(g)
  <2>1. \A x \in b.whose : b.to <= x
    BY <1>2, <1>3 DEF Outs
  <2> QED BY <1>0, <1>7, <1>9, <2>1 DEF Ordered
<1>13. Accounts(g, owe, 0)
  <2>1. ASSUME NEW x \in Outs PROVE g.rd.swaps[x] - g.rd.acks[x] = owe[x] + Held(g, x)
    <3>1. Held(g, x) = Held(s, x)
      BY <1>7, <1>9 DEF Held
    <3>2. Held(s, x) \in Nat
      BY <1>0, HeldIsNat
    <3>3. s.rd.swaps[x] - s.rd.acks[x] = debt[x] + Held(s, x)
      BY <1>0 DEF Accounts
    <3>4. s.rd.swaps[x] \in Nat /\ s.rd.acks[x] \in Nat /\ debt[x] \in Nat
      BY <1>0 DEF Owing
    <3>5. g.rd.swaps[x] = s.rd.swaps[x] /\ g.rd.acks[x] = a[x]
      BY <1>8, <1>9
    <3> HIDE DEF o
    <3> QED BY <1>4, <1>5, <3>1, <3>2, <3>3, <3>4, <3>5
  <2>2. g.d.pending = Callbacks(g) + 0
    BY <1>0, <1>7, <1>9 DEF Accounts, Callbacks
  <2> QED BY <2>1, <2>2 DEF Accounts
<1>14. Books(g, u, owe, 0)
  BY <1>0, <1>7, <1>9, <1>11, <1>12, <1>13 DEF Books
<1> QED BY <1>7, <1>9, <1>10, <1>14 DEF g, owe

\* The next commit will answer the frames of outputs, in this order.
LEMMA AddCallbackKeeps ==
  ASSUME NEW s, NEW u, NEW debt \in [Outs -> Nat], Books(s, u, debt, 1), Locks(s), Asks(s),
         s.d.last \in Outs
  PROVE  LET g == D!AddOnCommitCallbackAndDisableLocks(s, <<s.d.last>>)
         IN  /\ Books(g, u, [debt EXCEPT ![s.d.last] = @ - 1], 0) /\ Locks(g) /\ Asks(g)
             /\ g.d.last = s.d.last /\ g.rd.output = s.rd.output
<1> DEFINE o == s.d.last
           q == s.d.callbacks \o <<o>>
           c == "NO_PENDING_COMMIT"
           e == [s.d EXCEPT !.can_lock = c, !.callbacks = q]
           g == D!AddOnCommitCallbackAndDisableLocks(s, <<o>>)
           owe == [debt EXCEPT ![o] = @ - 1]
<1>0. IsState(s) /\ Owing(s) /\ Ordered(s) /\ Accounts(s, debt, 1) /\ (u \/ s.d.draw = 0)
  BY DEF Books
<1>1. g = [s EXCEPT !.d = e]
  BY DEF D!AddOnCommitCallbackAndDisableLocks
<1>2. e = [s.d EXCEPT !.can_lock = c, !.callbacks = q]
  OBVIOUS
<1>3. c \in D!CanLock
  BY DEF D!CanLock
<1>4. s.d.callbacks \in Seq(Outs) /\ \A i \in DOMAIN s.d.callbacks : s.d.callbacks[i] <= o
  BY <1>0 DEF Owing, Ordered
<1>5. q = Append(s.d.callbacks, o)
  BY <1>4
<1>6. \A x \in Outs : owe[x] = debt[x] - Due(o, x) /\ Due(o, x) \in {0, 1}
  BY DEF Due
<1> HIDE DEF c, q, e, g, owe, o
<1>7. /\ q \in Seq(Outs) /\ DOMAIN q = 1 .. (Len(s.d.callbacks) + 1) /\ Len(q) = Len(s.d.callbacks) + 1
      /\ q[Len(s.d.callbacks) + 1] = o /\ \A i \in DOMAIN s.d.callbacks : q[i] = s.d.callbacks[i]
      /\ DOMAIN s.d.callbacks = 1 .. Len(s.d.callbacks)
  BY <1>4, <1>5 DEF o
<1>8. \A i \in DOMAIN q : q[i] <= o
  <2>1. \A i \in DOMAIN q : i \in DOMAIN s.d.callbacks \/ i = Len(s.d.callbacks) + 1
    BY <1>7
  <2>2. o <= o
    BY DEF o, Outs
  <2> QED BY <1>4, <1>7, <2>1, <2>2
<1>9. /\ IsHost(e) /\ e.pending = s.d.pending /\ e.can_lock = c /\ e.expected = s.d.expected
      /\ e.held = s.d.held /\ e.shown = s.d.shown /\ e.last = s.d.last /\ e.returned = s.d.returned
      /\ e.callbacks = q /\ e.draw = s.d.draw
  BY <1>0, <1>2 DEF IsState, IsHost
<1>10. IsState(g) /\ g.d = e /\ g.ui = s.ui /\ g.rd = s.rd /\ g.back = s.back
  BY <1>0, <1>1, <1>9 DEF IsState
<1>11. Locks(g) /\ Asks(g)
  BY <1>3, <1>9, <1>10 DEF Locks, Asks
<1>12. Owing(g)
  BY <1>0, <1>7, <1>9, <1>10 DEF Owing
<1>13. Ordered(g)
  BY <1>0, <1>8, <1>9, <1>10 DEF Ordered, o
<1>14. Accounts(g, owe, 0)
  <2>1. ASSUME NEW x \in Outs PROVE g.rd.swaps[x] - g.rd.acks[x] = owe[x] + Held(g, x)
    <3> DEFINE n == Number(s.d.callbacks, {x})
               k == Number(s.ui.zombies, {x})
               z == Due(s.d.draw, x)
               y == Due(o, x)
               b == debt[x]
    <3>1. n \in Nat /\ k \in Nat
      BY <1>0, <1>4, NumberIsNat DEF Owing
    <3>2. z \in Nat /\ y \in Nat /\ b \in Nat
      BY DEF Due
    <3>3. Number(q, {x}) = n + y
      <4>1. Number(q, {x}) = IF o \in {x} THEN n + 1 ELSE n
        BY <1>4, <1>5, NumberAppend DEF o
      <4>2. CASE o = x
        BY <4>1, <4>2 DEF Due
      <4>3. CASE o # x
        <5>1. y = 0 /\ Number(q, {x}) = n
          BY <4>1, <4>3 DEF Due
        <5> QED BY <3>1, <5>1
      <4> QED BY <4>2, <4>3
    <3>4. Held(s, x) = n + k + z /\ Held(g, x) = (n + y) + k + z
      BY <1>9, <1>10, <3>3 DEF Held
    <3>5. owe[x] = b - y
      BY <1>6
    <3>6. s.rd.swaps[x] - s.rd.acks[x] = b + Held(s, x)
      BY <1>0 DEF Accounts
    <3> HIDE DEF n, k, z, y, b
    <3>7. b + Held(s, x) = owe[x] + Held(g, x)
      BY <3>1, <3>2, <3>4, <3>5
    <3> QED BY <1>10, <3>6, <3>7
  <2>2. g.d.pending = Callbacks(g) + 0
    <3> DEFINE n == Len(s.d.callbacks)
               k == Len(s.ui.zombies)
               z == 1 - Due(s.d.draw, 0)
    <3>1. n \in Nat /\ k \in Nat
      BY <1>0 DEF Owing
    <3>2. z \in Nat
      BY DEF Due
    <3>3. Callbacks(s) = n + k + z
      BY DEF Callbacks
    <3>5. Len(q) = n + 1
      BY <1>7
    <3>6. Callbacks(g) = Len(q) + k + z
      BY <1>9, <1>10 DEF Callbacks
    <3>4. s.d.pending = Callbacks(s) + 1 /\ g.d.pending = s.d.pending
      BY <1>0, <1>9, <1>10 DEF Accounts
    <3> HIDE DEF n, k, z
    <3> QED BY <3>1, <3>2, <3>3, <3>4, <3>5, <3>6
  <2> QED BY <2>1, <2>2 DEF Accounts
<1>15. Books(g, u, owe, 0)
  BY <1>0, <1>9, <1>10, <1>12, <1>13, <1>14 DEF Books
<1> QED BY <1>9, <1>10, <1>11, <1>15 DEF g, owe, o

\* With a surface only the locks are disabled: its own callback will answer.
LEMMA DisableLocksKeeps ==
  ASSUME NEW s, NEW u, NEW debt, NEW count, Books(s, u, debt, count), Locks(s), Asks(s)
  PROVE  LET g == D!AddOnCommitCallbackAndDisableLocks(s, <<>>)
         IN  /\ Books(g, u, debt, count) /\ Locks(g) /\ Asks(g)
             /\ g.d.last = s.d.last /\ g.rd.output = s.rd.output
<1> DEFINE q == s.d.callbacks \o <<>>
           c == "NO_PENDING_COMMIT"
           e == [s.d EXCEPT !.can_lock = c, !.callbacks = q]
           g == D!AddOnCommitCallbackAndDisableLocks(s, <<>>)
<1>0. IsState(s) /\ Owing(s)
  BY DEF Books
<1>1. g = [s EXCEPT !.d = e]
  BY DEF D!AddOnCommitCallbackAndDisableLocks
<1>2. e = [s.d EXCEPT !.can_lock = c, !.callbacks = q] /\ c \in D!CanLock
  BY DEF D!CanLock
<1>3. s.d.callbacks \in Seq(Outs)
  BY <1>0 DEF Owing
<1>4. q = s.d.callbacks
  BY <1>3
<1> HIDE DEF c, q, e, g
<1>5. /\ IsHost(e) /\ e.pending = s.d.pending /\ e.can_lock = c /\ e.expected = s.d.expected
      /\ e.held = s.d.held /\ e.shown = s.d.shown /\ e.last = s.d.last /\ e.returned = s.d.returned
      /\ e.callbacks = s.d.callbacks /\ e.draw = s.d.draw
  BY <1>0, <1>2, <1>4 DEF IsState, IsHost
<1>6. IsState(g) /\ g.d = e /\ g.ui = s.ui /\ g.rd = s.rd /\ g.back = s.back
  BY <1>0, <1>1, <1>5 DEF IsState
<1>7. SameBooks(s, g)
  BY <1>5, <1>6 DEF SameBooks
<1>8. Books(g, u, debt, count)
  BY <1>6, <1>7, BooksRest
<1>9. Locks(g) /\ Asks(g)
  BY <1>2, <1>5, <1>6 DEF Locks, Asks
<1> QED BY <1>5, <1>6, <1>8, <1>9 DEF g

\* A frame is counted before it is shown.
LEMMA CountKeeps ==
  ASSUME NEW s, NEW u, NEW debt, Books(s, u, debt, 0)
  PROVE  LET g == [s EXCEPT !.d.pending = @ + 1]
         IN  Books(g, u, debt, 1) /\ SameLocks(s, g) /\ g.d.last = s.d.last
<1> DEFINE n == s.d.pending + 1
           e == [s.d EXCEPT !.pending = n]
           g == [s EXCEPT !.d.pending = @ + 1]
<1>0. IsState(s) /\ Owing(s) /\ Ordered(s) /\ Accounts(s, debt, 0) /\ (u \/ s.d.draw = 0)
  BY DEF Books
<1>1. g = [s EXCEPT !.d = e] /\ e = [s.d EXCEPT !.pending = n]
  OBVIOUS
<1>2. n \in Int /\ n = Callbacks(s) + 1
  <2>1. s.d.pending \in Int /\ s.d.pending = Callbacks(s) + 0 /\ Callbacks(s) \in Nat
    BY <1>0, HeldIsNat DEF Owing, Accounts
  <2> QED BY <2>1
<1> HIDE DEF n, e, g
<1>3. /\ IsHost(e) /\ e.pending = n /\ e.can_lock = s.d.can_lock /\ e.expected = s.d.expected
      /\ e.held = s.d.held /\ e.shown = s.d.shown /\ e.last = s.d.last /\ e.returned = s.d.returned
      /\ e.callbacks = s.d.callbacks /\ e.draw = s.d.draw
  BY <1>0, <1>1 DEF IsState, IsHost
<1>4. IsState(g) /\ g.d = e /\ g.ui = s.ui /\ g.rd = s.rd /\ g.back = s.back
  BY <1>0, <1>1, <1>3 DEF IsState
<1>5. SameLocks(s, g)
  BY <1>3, <1>4 DEF SameLocks
<1>6. Owing(g)
  BY <1>0, <1>2, <1>3, <1>4 DEF Owing
<1>7. Ordered(g)
  BY <1>0, <1>3, <1>4 DEF Ordered
<1>8. Accounts(g, debt, 1)
  <2>1. \A o \in Outs : g.rd.swaps[o] - g.rd.acks[o] = debt[o] + Held(g, o)
    BY <1>0, <1>3, <1>4 DEF Accounts, Held
  <2>2. Callbacks(g) = Callbacks(s)
    BY <1>3, <1>4 DEF Callbacks
  <2> QED BY <1>2, <1>3, <1>4, <2>1, <2>2 DEF Accounts
<1> QED BY <1>0, <1>3, <1>4, <1>5, <1>6, <1>7, <1>8 DEF Books, g

\* What the host only notes about a frame.
LEMMA NotesKeep ==
  ASSUME NEW s, NEW b, NEW c, IsState(s)
  PROVE  /\ LET g == [s EXCEPT !.d.skipped = b] IN IsState(g) /\ SameBooks(s, g) /\ SameLocks(s, g)
         /\ LET g == [s EXCEPT !.d.latency = b] IN IsState(g) /\ SameBooks(s, g) /\ SameLocks(s, g)
         /\ LET g == [s EXCEPT !.d.current = c, !.rd.missed = b]
            IN  IsState(g) /\ SameBooks(s, g) /\ SameLocks(s, g)
<1>1. ASSUME NEW e, IsHost(e), NEW r, IsRenderer(r), NEW g, g = [s EXCEPT !.rd = r, !.d = e],
             e.pending = s.d.pending, e.can_lock = s.d.can_lock, e.expected = s.d.expected,
             e.held = s.d.held, e.shown = s.d.shown, e.last = s.d.last, e.returned = s.d.returned,
             e.callbacks = s.d.callbacks, e.draw = s.d.draw,
             r.acks = s.rd.acks, r.swaps = s.rd.swaps, r.told = s.rd.told, r.size = s.rd.size,
             r.output = s.rd.output
      PROVE  IsState(g) /\ SameBooks(s, g) /\ SameLocks(s, g)
  <2>1. IsState(g) /\ g.d = e /\ g.ui = s.ui /\ g.rd = r /\ g.back = s.back
    BY <1>1 DEF IsState
  <2> QED BY <1>1, <2>1 DEF SameBooks, SameLocks
<1>2. IsRenderer(s.rd) /\ IsHost(s.d) /\ s = [d |-> s.d, ui |-> s.ui, rd |-> s.rd, back |-> s.back]
  BY DEF IsState
<1>3. LET g == [s EXCEPT !.d.skipped = b] IN IsState(g) /\ SameBooks(s, g) /\ SameLocks(s, g)
  <2> DEFINE e == [s.d EXCEPT !.skipped = b]
             g == [s EXCEPT !.d.skipped = b]
  <2>1. g = [s EXCEPT !.rd = s.rd, !.d = e] /\ e = [s.d EXCEPT !.skipped = b]
    BY <1>2
  <2> HIDE DEF e, g
  <2>2. /\ IsHost(e) /\ e.pending = s.d.pending /\ e.can_lock = s.d.can_lock /\ e.expected = s.d.expected
        /\ e.held = s.d.held /\ e.shown = s.d.shown /\ e.last = s.d.last /\ e.returned = s.d.returned
        /\ e.callbacks = s.d.callbacks /\ e.draw = s.d.draw
    BY <1>2, <2>1 DEF IsHost
  <2>3. IsState(g) /\ SameBooks(s, g) /\ SameLocks(s, g)
    BY <1>1, <1>2, <2>1, <2>2
  <2> QED BY <2>3 DEF g
<1>4. LET g == [s EXCEPT !.d.latency = b] IN IsState(g) /\ SameBooks(s, g) /\ SameLocks(s, g)
  <2> DEFINE e == [s.d EXCEPT !.latency = b]
             g == [s EXCEPT !.d.latency = b]
  <2>1. g = [s EXCEPT !.rd = s.rd, !.d = e] /\ e = [s.d EXCEPT !.latency = b]
    BY <1>2
  <2> HIDE DEF e, g
  <2>2. /\ IsHost(e) /\ e.pending = s.d.pending /\ e.can_lock = s.d.can_lock /\ e.expected = s.d.expected
        /\ e.held = s.d.held /\ e.shown = s.d.shown /\ e.last = s.d.last /\ e.returned = s.d.returned
        /\ e.callbacks = s.d.callbacks /\ e.draw = s.d.draw
    BY <1>2, <2>1 DEF IsHost
  <2>3. IsState(g) /\ SameBooks(s, g) /\ SameLocks(s, g)
    BY <1>1, <1>2, <2>1, <2>2
  <2> QED BY <2>3 DEF g
<1>5. LET g == [s EXCEPT !.d.current = c, !.rd.missed = b]
      IN  IsState(g) /\ SameBooks(s, g) /\ SameLocks(s, g)
  <2> DEFINE e == [s.d EXCEPT !.current = c]
             r == [s.rd EXCEPT !.missed = b]
             g == [s EXCEPT !.d.current = c, !.rd.missed = b]
  <2>1. g = [s EXCEPT !.rd = r, !.d = e] /\ e = [s.d EXCEPT !.current = c] /\ r = [s.rd EXCEPT !.missed = b]
    BY <1>2
  <2> HIDE DEF e, r, g
  <2>2. /\ IsHost(e) /\ e.pending = s.d.pending /\ e.can_lock = s.d.can_lock /\ e.expected = s.d.expected
        /\ e.held = s.d.held /\ e.shown = s.d.shown /\ e.last = s.d.last /\ e.returned = s.d.returned
        /\ e.callbacks = s.d.callbacks /\ e.draw = s.d.draw
    BY <1>2, <2>1 DEF IsHost
  <2>4. /\ IsRenderer(r) /\ r.acks = s.rd.acks /\ r.swaps = s.rd.swaps /\ r.told = s.rd.told
        /\ r.size = s.rd.size /\ r.output = s.rd.output
    BY <1>2, <2>1 DEF IsRenderer
  <2>3. IsState(g) /\ SameBooks(s, g) /\ SameLocks(s, g)
    BY <1>1, <2>1, <2>2, <2>4
  <2> QED BY <2>3 DEF g
<1> QED BY <1>3, <1>4, <1>5

\* A frame that arrives is answered, or one callback more will answer it.
LEMMA SwapKeeps ==
  ASSUME NEW s, NEW debt \in [Outs -> Nat], Books(s, use_surfaces, debt, 0), Locks(s), Asks(s),
         MaxOutputs \in Nat, Sizes \subseteq Nat \ {0},
         NEW frame \in Painted, s.d.last <= frame.output
  PROVE  LET g == D!SwapDelegatedFrame(s, frame)
         IN  /\ Books(g, use_surfaces, [debt EXCEPT ![frame.output] = @ - 1], 0)
             /\ Locks(g) /\ Asks(g)
             /\ g.d.last \in {s.d.last, frame.output} /\ g.rd.output = s.rd.output
<1> DEFINE o == frame.output
           owe == [debt EXCEPT ![o] = @ - 1]
           t == [s EXCEPT !.d.skipped = FALSE]
           u == IF o # t.d.last THEN D!NewOutput(t, o) ELSE t
           now == \/ ~ u.d.compositor
                  \/ use_surfaces /\ frame.size # 0 /\ u.ui.desired # frame.size
           p == [u EXCEPT !.d.pending = @ + 1]
           v == D!ShowFrame(p, frame, now)
           r == D!ReleaseFront(v)
           c == [r EXCEPT !.d.current = frame.size, !.rd.missed = @ \/ ~ u.d.compositor]
           w == D!CheckResizeLock(c)
           y == [w EXCEPT !.d.latency = FALSE]
           g == D!SwapDelegatedFrame(s, frame)
<1>1. g = IF D!ShouldSkipFrame(s, frame.size) THEN D!SkipFrame(s, frame)
          ELSE IF now THEN D!SendDelegatedFrameAck(w, o)
          ELSE IF ~ use_surfaces THEN D!AddOnCommitCallbackAndDisableLocks(y, <<o>>)
          ELSE D!AddOnCommitCallbackAndDisableLocks(w, <<>>)
  BY DEF D!SwapDelegatedFrame
<1>2. o \in Outs /\ frame.size \in Sizes /\ frame.size # 0 /\ s.d.last \in {0} \cup Outs
  BY DEF Painted, Books, Owing
<1>3. CASE D!ShouldSkipFrame(s, frame.size)
  <2> DEFINE k == D!SkipFrame(s, frame)
  <2>1. Books(k, use_surfaces, owe, 0) /\ SameLocks(s, k) /\ k.d.last = s.d.last
    BY SkipKeeps
  <2>2. g = k
    BY <1>1, <1>3
  <2> HIDE DEF k, g
  <2>3. Locks(k) /\ Asks(k) /\ k.rd.output = s.rd.output
    BY <2>1, LocksRest DEF SameLocks
  <2> QED BY <2>1, <2>2, <2>3 DEF g
<1>4. CASE ~ D!ShouldSkipFrame(s, frame.size)
  <2>1. IsState(t) /\ SameBooks(s, t) /\ SameLocks(s, t)
    <3>1. IsState(s)
      BY DEF Books
    <3> QED BY <3>1, NotesKeep
  <2> HIDE DEF t
  <2>2. Books(t, use_surfaces, debt, 0) /\ t.d.last = s.d.last
    BY <2>1, BooksRest DEF SameBooks
  <2>3. Books(u, use_surfaces, debt, 0) /\ SameLocks(s, u) /\ u.d.last = o
    <3>1. CASE o # t.d.last
      <4> DEFINE k == D!NewOutput(t, o)
      <4>1. Books(k, use_surfaces, debt, 0) /\ SameLocks(t, k) /\ k.d.last = o
        BY <1>2, <2>2, NewOutputKeeps
      <4> HIDE DEF k
      <4>2. SameLocks(s, k)
        BY <2>1, <4>1, LocksTransitive
      <4>3. u = k
        BY <3>1 DEF k
      <4> HIDE DEF u
      <4> QED BY <4>1, <4>2, <4>3
    <3>2. CASE o = t.d.last
      BY <2>1, <2>2, <3>2
    <3> QED BY <3>1, <3>2
  <2> HIDE DEF u
  <2>4. Books(p, use_surfaces, debt, 1) /\ SameLocks(u, p) /\ p.d.last = o
    BY <2>3, CountKeeps
  <2> HIDE DEF p, now
  <2>5. /\ IF now \/ ~ use_surfaces THEN Books(v, use_surfaces, debt, 1) ELSE Books(v, use_surfaces, owe, 0)
        /\ SameLocks(p, v) /\ v.d.last = o
    <3>1. CASE use_surfaces
      <4> DEFINE ack == IF now THEN 0 ELSE o
                 l == [p EXCEPT !.d.latency = FALSE]
                 k == D!Submit(l, frame, ack)
      <4>1. v = k
        BY <1>2, <3>1 DEF D!ShowFrame
      <4>2. IsState(l) /\ SameBooks(p, l) /\ SameLocks(p, l)
        <5>1. IsState(p)
          BY <2>4 DEF Books
        <5> QED BY <5>1, NotesKeep
      <4> HIDE DEF l
      <4>3. Books(l, use_surfaces, debt, 1) /\ l.d.last = o
        BY <2>4, <4>2, BooksRest DEF SameBooks
      <4>4. ack \in {0, frame.output} /\ (ack = 0 <=> now) /\ (~ now => ack = o) /\ 1 \in Nat /\ 1 - 1 = 0
        BY <1>2 DEF Outs
      <4> HIDE DEF ack, k
      <4>5. /\ IF ack = 0 THEN Books(k, use_surfaces, debt, 1)
               ELSE Books(k, use_surfaces, [debt EXCEPT ![ack] = @ - 1], 1 - 1)
            /\ SameLocks(l, k) /\ k.d.last = l.d.last
        BY <3>1, <4>3, <4>4, SubmitKeeps DEF k
      <4>6. SameLocks(p, k)
        BY <4>2, <4>5, LocksTransitive
      <4>7. CASE now
        BY <4>1, <4>3, <4>4, <4>5, <4>6, <4>7
      <4>8. CASE ~ now
        BY <3>1, <4>1, <4>3, <4>4, <4>5, <4>6, <4>8
      <4> QED BY <4>7, <4>8
    <3>2. CASE ~ use_surfaces
      <4> DEFINE k == D!Submit(p, frame, 0)
      <4>1. v = k
        BY <1>2, <3>2 DEF D!ShowFrame
      <4>2. Books(k, use_surfaces, debt, 1) /\ SameLocks(p, k) /\ k.d.last = p.d.last
        BY <2>4, SubmitKeeps
      <4> HIDE DEF k, v
      <4> QED BY <2>4, <3>2, <4>1, <4>2
    <3> QED BY <3>1, <3>2
  <2> HIDE DEF v
  <2> DEFINE b == IF now \/ ~ use_surfaces THEN debt ELSE owe
             n == IF now \/ ~ use_surfaces THEN 1 ELSE 0
  <2>6. Books(v, use_surfaces, b, n)
    BY <2>5
  <2>7. Locks(v) /\ Asks(v) /\ v.rd.output = s.rd.output
    <3>1. SameLocks(s, v)
      BY <2>3, <2>4, <2>5, LocksTransitive
    <3> QED BY <3>1, LocksRest DEF SameLocks
  <2> HIDE DEF b, n
  <2>8. Loosens(v, r)
    BY <2>6, LockLoosens DEF Books
  <2> HIDE DEF r
  <2>9. Books(r, use_surfaces, b, n) /\ r.d.last = o /\ Locks(r) /\ Asks(r) /\ r.rd.output = s.rd.output
    BY <2>5, <2>6, <2>7, <2>8, LoosensKeeps
  <2>10. IsState(c) /\ SameBooks(r, c) /\ SameLocks(r, c)
    <3> DEFINE m == r.rd.missed \/ ~ u.d.compositor
    <3>1. c = [r EXCEPT !.d.current = frame.size, !.rd.missed = m]
      OBVIOUS
    <3>2. IsState(r)
      BY <2>9 DEF Books
    <3> HIDE DEF c, m
    <3> DEFINE k == [r EXCEPT !.d.current = frame.size, !.rd.missed = m]
    <3>3. IsState(k) /\ SameBooks(r, k) /\ SameLocks(r, k)
      BY <3>2, NotesKeep
    <3> QED BY <3>1, <3>3
  <2> HIDE DEF c
  <2>11. Books(c, use_surfaces, b, n) /\ c.d.last = o /\ Locks(c) /\ Asks(c) /\ c.rd.output = s.rd.output
    BY <2>9, <2>10, BooksRest, LocksRest DEF SameBooks, SameLocks
  <2>12. Loosens(c, w)
    BY <2>11, LockLoosens DEF Books
  <2> HIDE DEF w
  <2>13. Books(w, use_surfaces, b, n) /\ w.d.last = o /\ Locks(w) /\ Asks(w) /\ w.rd.output = s.rd.output
    BY <2>11, <2>12, LoosensKeeps
  <2>14. CASE now
    <3> DEFINE k == D!SendDelegatedFrameAck(w, o)
    <3>1. Books(w, use_surfaces, debt, 1) /\ 1 \in Nat /\ 1 - 1 = 0 /\ o <= w.d.last
      BY <1>2, <2>13, <2>14 DEF b, n, Outs
    <3>2. Books(k, use_surfaces, owe, 1 - 1) /\ SameLocks(w, k) /\ k.d.last = w.d.last
      BY <1>2, <3>1, AckKeeps
    <3>3. g = k
      BY <1>1, <1>4, <2>14
    <3> HIDE DEF k, g, owe
    <3>4. Locks(k) /\ Asks(k) /\ k.rd.output = s.rd.output
      BY <2>13, <3>2, LocksRest DEF SameLocks
    <3> QED BY <2>13, <3>1, <3>2, <3>3, <3>4 DEF g, owe
  <2>15. CASE ~ now /\ ~ use_surfaces
    <3> DEFINE k == D!AddOnCommitCallbackAndDisableLocks(y, <<y.d.last>>)
    <3>1. IsState(y) /\ SameBooks(w, y) /\ SameLocks(w, y)
      <4>1. IsState(w)
        BY <2>13 DEF Books
      <4> QED BY <4>1, NotesKeep
    <3>2. g = D!AddOnCommitCallbackAndDisableLocks(y, <<o>>)
      BY <1>1, <1>4, <2>15
    <3> HIDE DEF y, g
    <3>3. Books(y, use_surfaces, debt, 1) /\ y.d.last = o /\ Locks(y) /\ Asks(y) /\ y.rd.output = s.rd.output
      BY <2>13, <2>15, <3>1, BooksRest, LocksRest DEF SameBooks, SameLocks, b, n
    <3>4. y.d.last \in Outs
      BY <1>2, <3>3
    <3>5. /\ Books(k, use_surfaces, [debt EXCEPT ![y.d.last] = @ - 1], 0) /\ Locks(k) /\ Asks(k)
          /\ k.d.last = y.d.last /\ k.rd.output = y.rd.output
      BY <3>3, <3>4, AddCallbackKeeps
    <3>6. g = k
      BY <3>2, <3>3
    <3> HIDE DEF k
    <3> QED BY <3>3, <3>5, <3>6 DEF g
  <2>16. CASE ~ now /\ use_surfaces
    <3> DEFINE k == D!AddOnCommitCallbackAndDisableLocks(w, <<>>)
    <3>1. /\ Books(k, use_surfaces, b, n) /\ Locks(k) /\ Asks(k)
          /\ k.d.last = w.d.last /\ k.rd.output = w.rd.output
      BY <2>13, DisableLocksKeeps
    <3>2. g = k
      BY <1>1, <1>4, <2>16
    <3> HIDE DEF k, g
    <3>3. Books(g, use_surfaces, owe, 0)
      BY <2>16, <3>1, <3>2 DEF b, n
    <3> QED BY <2>13, <3>1, <3>2, <3>3 DEF g
  <2> QED BY <2>14, <2>15, <2>16
<1> QED BY <1>3, <1>4

-----------------------------------------------------------------------------
(* The compositor and the view.                                            *)

LEMMA WasResizedKeeps ==
  ASSUME NEW s, NEW debt, NEW count, Books(s, use_surfaces, debt, count), Locks(s),
         Sizes \subseteq Nat \ {0}
  PROVE  LET g == D!WidgetWasResized(D!WasResized(s))
         IN  /\ Books(g, use_surfaces, debt, count) /\ Locks(g) /\ Asks(g)
             /\ g.d.last = s.d.last /\ g.rd.output = s.rd.output
<1> DEFINE t == IF s.ui.desired # s.d.current /\ ~ s.ui.visible THEN D!EvictDelegatedFrame(s) ELSE s
           u == D!MaybeCreateResizeLock(t)
           g == D!WidgetWasResized(u)
<1>1. D!WidgetWasResized(D!WasResized(s)) = g
  BY DEF D!WasResized
<1>2. Books(t, use_surfaces, debt, count) /\ SameLocks(s, t) /\ t.d.last = s.d.last
  <2>1. t \in {s, D!EvictDelegatedFrame(s)} /\ SameLocks(s, s)
    BY DEF SameLocks
  <2> DEFINE k == D!EvictDelegatedFrame(s)
  <2>2. Books(k, use_surfaces, debt, count) /\ SameLocks(s, k) /\ k.d.last = s.d.last
    BY EvictKeeps
  <2> HIDE DEF t, k
  <2>3. t = s \/ t = k
    BY <2>1 DEF k
  <2> QED BY <2>1, <2>2, <2>3
<1> HIDE DEF t
<1>3. Locks(t) /\ t.rd.output = s.rd.output
  BY <1>2, LocksRest DEF SameLocks
<1>4. Books(u, use_surfaces, debt, count) /\ Locks(u) /\ u.d.last = t.d.last /\ u.rd = t.rd
  BY <1>2, <1>3, CreateLockKeeps
<1> HIDE DEF u
<1>5. /\ Books(g, use_surfaces, debt, count) /\ Locks(g) /\ Asks(g) /\ g.d = u.d
      /\ g.rd.output = u.rd.output
  BY <1>4, ToldKeeps
<1> QED BY <1>1, <1>2, <1>3, <1>4, <1>5

LEMMA DidCommitKeeps ==
  ASSUME NEW s, NEW u, NEW debt \in [Outs -> Nat], Books(s, u, debt, 0), Locks(s), Asks(s),
         Sizes \subseteq Nat \ {0}
  PROVE  LET g == D!OnCompositingDidCommit(s)
         IN  /\ Books(g, u, debt, 0) /\ Locks(g) /\ Asks(g)
             /\ g.d.last = s.d.last /\ g.rd.output = s.rd.output
<1> DEFINE grab == s.d.can_lock = "NO_PENDING_COMMIT" /\ s.d.expected # 0 /\ s.d.deferred
           yes == TRUE
           no == FALSE
           e == [s.d EXCEPT !.can_lock = "YES_DID_LOCK", !.deferred = no, !.held = yes]
           f == [s.d EXCEPT !.can_lock = "YES_CAN_LOCK"]
           a == [s EXCEPT !.d = e]
           b == [s EXCEPT !.d = f]
           t == CASE grab -> a
                  [] ~ grab /\ s.d.can_lock = "NO_PENDING_COMMIT" -> b
                  [] OTHER -> s
           x == D!RunOnCommitCallbacks(t)
           g == D!OnCompositingDidCommit(s)
<1>0. IsState(s) /\ Owing(s)
  BY DEF Books
<1>1. g \in {x, D!MaybeCreateResizeLock(D!ResetResizeLock(x))}
  <2>1. /\ a = [s EXCEPT !.d.can_lock = "YES_DID_LOCK", !.d.deferred = FALSE, !.d.held = TRUE]
        /\ b = [s EXCEPT !.d.can_lock = "YES_CAN_LOCK"]
    OBVIOUS
  <2> HIDE DEF a, b
  <2> QED BY <2>1 DEF D!OnCompositingDidCommit
<1>2. t = s \/ (t = a /\ s.d.expected # 0) \/ t = b
  <2> HIDE DEF a, b
  <2>1. CASE grab
    BY <2>1
  <2>2. CASE ~ grab /\ s.d.can_lock = "NO_PENDING_COMMIT"
    BY <2>2
  <2>3. CASE ~ grab /\ ~ (s.d.can_lock = "NO_PENDING_COMMIT")
    BY <2>3
  <2> QED BY <2>1, <2>2, <2>3
<1>3. /\ e = [s.d EXCEPT !.can_lock = "YES_DID_LOCK", !.deferred = no, !.held = yes]
      /\ f = [s.d EXCEPT !.can_lock = "YES_CAN_LOCK"]
      /\ a = [s EXCEPT !.d = e] /\ b = [s EXCEPT !.d = f]
  OBVIOUS
<1> HIDE DEF yes, no, e, f, a, b, t, g
<1>4. Books(t, u, debt, 0) /\ Locks(t) /\ Asks(t) /\ t.d.last = s.d.last /\ t.rd.output = s.rd.output
  <2>1. ASSUME t = a, s.d.expected # 0
        PROVE  Books(t, u, debt, 0) /\ Locks(t) /\ Asks(t) /\ t.d.last = s.d.last /\ t.rd.output = s.rd.output
    <3>1. /\ IsHost(e) /\ e.pending = s.d.pending /\ e.can_lock = "YES_DID_LOCK" /\ e.expected = s.d.expected
          /\ e.shown = s.d.shown /\ e.last = s.d.last /\ e.returned = s.d.returned
          /\ e.callbacks = s.d.callbacks /\ e.draw = s.d.draw
      BY <1>0, <1>3 DEF IsState, IsHost
    <3>2. IsState(a) /\ a.d = e /\ a.ui = s.ui /\ a.rd = s.rd /\ a.back = s.back
      BY <1>0, <1>3, <3>1 DEF IsState
    <3>3. SameBooks(s, a)
      BY <3>1, <3>2 DEF SameBooks
    <3>4. Locks(a) /\ Asks(a)
      BY <2>1, <3>1, <3>2 DEF Locks, Asks, D!CanLock
    <3> QED BY <2>1, <3>1, <3>2, <3>3, <3>4, BooksRest
  <2>2. ASSUME t = b
        PROVE  Books(t, u, debt, 0) /\ Locks(t) /\ Asks(t) /\ t.d.last = s.d.last /\ t.rd.output = s.rd.output
    <3>1. /\ IsHost(f) /\ f.pending = s.d.pending /\ f.can_lock = "YES_CAN_LOCK" /\ f.expected = s.d.expected
          /\ f.held = s.d.held /\ f.shown = s.d.shown /\ f.last = s.d.last /\ f.returned = s.d.returned
          /\ f.callbacks = s.d.callbacks /\ f.draw = s.d.draw
      BY <1>0, <1>3 DEF IsState, IsHost
    <3>2. IsState(b) /\ b.d = f /\ b.ui = s.ui /\ b.rd = s.rd /\ b.back = s.back
      BY <1>0, <1>3, <3>1 DEF IsState
    <3>3. SameBooks(s, b)
      BY <3>1, <3>2 DEF SameBooks
    <3>4. Locks(b) /\ Asks(b)
      BY <3>1, <3>2 DEF Locks, Asks, D!CanLock
    <3> QED BY <2>2, <3>1, <3>2, <3>3, <3>4, BooksRest
  <2> QED BY <1>2, <2>1, <2>2
<1>5. Books(x, u, debt, 0) /\ SameLocks(t, x) /\ x.d.last = t.d.last
  <2>1. 0 \in Nat
    OBVIOUS
  <2> QED BY <1>4, <2>1, CommitsKeep
<1> HIDE DEF x
<1>6. Locks(x) /\ Asks(x) /\ x.rd.output = s.rd.output /\ x.d.last = s.d.last
  BY <1>4, <1>5, LocksRest DEF SameLocks
<1> DEFINE y == D!ResetResizeLock(x)
           z == D!MaybeCreateResizeLock(y)
<1>7. /\ Books(y, u, debt, 0) /\ Locks(y) /\ Asks(y) /\ y.d.last = x.d.last
      /\ y.rd.told = y.ui.desired /\ y.rd.output = x.rd.output
  BY <1>5, <1>6, ResetLockKeeps
<1> HIDE DEF y
<1>8. Books(z, u, debt, 0) /\ Locks(z) /\ z.d.last = y.d.last /\ z.rd = y.rd /\ Asks(z)
  BY <1>7, CreateLockKeeps
<1>9. g = x \/ g = z
  BY <1>1 DEF y
<1> HIDE DEF z
<1>10. CASE g = x
  BY <1>5, <1>6, <1>10 DEF g
<1>11. CASE g = z
  BY <1>6, <1>7, <1>8, <1>11 DEF g
<1> QED BY <1>9, <1>10, <1>11

LEMMA ResetCompositorKeeps ==
  ASSUME NEW s, NEW u, NEW debt \in [Outs -> Nat], Books(s, u, debt, 0), Locks(s), Asks(s)
  PROVE  LET g == D!ResetCompositor(s)
         IN  /\ Books(g, u, debt, 0) /\ Locks(g) /\ Asks(g)
             /\ g.d.last = s.d.last /\ g.rd.output = s.rd.output
<1> DEFINE t == D!RunOnCommitCallbacks(s)
           k == D!ResetResizeLock(t)
           x == IF t.d.expected = 0 THEN t ELSE k
           no == FALSE
           e == [x.d EXCEPT !.compositor = no]
           g == D!ResetCompositor(s)
<1>1. g = [x EXCEPT !.d = e]
  BY DEF D!ResetCompositor
<1>2. Books(t, u, debt, 0) /\ SameLocks(s, t) /\ t.d.last = s.d.last
  <2>1. 0 \in Nat
    OBVIOUS
  <2> QED BY <2>1, CommitsKeep
<1> HIDE DEF t
<1>3. Locks(t) /\ Asks(t) /\ t.rd.output = s.rd.output
  BY <1>2, LocksRest DEF SameLocks
<1>4. Books(k, u, debt, 0) /\ Locks(k) /\ Asks(k) /\ k.d.last = t.d.last /\ k.rd.output = t.rd.output
  BY <1>2, <1>3, ResetLockKeeps
<1> HIDE DEF k
<1>5. Books(x, u, debt, 0) /\ Locks(x) /\ Asks(x) /\ x.d.last = s.d.last /\ x.rd.output = s.rd.output
  BY <1>2, <1>3, <1>4
<1> HIDE DEF x
<1>6. e = [x.d EXCEPT !.compositor = no]
  OBVIOUS
<1> HIDE DEF no, e, g
<1>7. IsState(x)
  BY <1>5 DEF Books
<1>8. /\ IsHost(e) /\ e.pending = x.d.pending /\ e.can_lock = x.d.can_lock /\ e.expected = x.d.expected
      /\ e.held = x.d.held /\ e.shown = x.d.shown /\ e.last = x.d.last /\ e.returned = x.d.returned
      /\ e.callbacks = x.d.callbacks /\ e.draw = x.d.draw
  BY <1>6, <1>7 DEF IsState, IsHost
<1>9. IsState(g) /\ g.d = e /\ g.ui = x.ui /\ g.rd = x.rd /\ g.back = x.back
  BY <1>1, <1>7, <1>8 DEF IsState
<1>10. SameBooks(x, g) /\ SameLocks(x, g)
  BY <1>8, <1>9 DEF SameBooks, SameLocks
<1>11. Books(g, u, debt, 0) /\ Locks(g) /\ Asks(g)
  BY <1>5, <1>9, <1>10, BooksRest, LocksRest
<1> QED BY <1>5, <1>8, <1>9, <1>11 DEF g

\* What the view and the renderer do to themselves.
LEMMA ViewKeeps ==
  ASSUME NEW s, NEW u, NEW debt, NEW count, Books(s, u, debt, count), Locks(s), Asks(s),
         NEW v, IsView(v), v.zombies = s.ui.zombies, v.unref = s.ui.unref, v.desired \in Sizes,
         NEW r, IsRenderer(r), r.acks = s.rd.acks, r.swaps = s.rd.swaps, r.told = s.rd.told,
         r.size \in Sizes, r.output \in Outs,
         NEW e, IsHost(e), e.pending = s.d.pending, e.can_lock = s.d.can_lock, e.expected = s.d.expected,
         e.held = s.d.held, e.shown = s.d.shown, e.last = s.d.last, e.returned = s.d.returned,
         e.callbacks = s.d.callbacks, e.draw = s.d.draw,
         NEW g, g = [d |-> e, ui |-> v, rd |-> r, back |-> s.back]
  PROVE  /\ Books(g, u, debt, count) /\ Locks(g) /\ Asks(g)
         /\ g.d.last = s.d.last /\ g.rd = r
<1>1. IsState(g) /\ g.d = e /\ g.ui = v /\ g.rd = r /\ g.back = s.back
  BY DEF IsState
<1>2. SameBooks(s, g)
  BY <1>1 DEF SameBooks
<1>3. Books(g, u, debt, count)
  BY <1>1, <1>2, BooksRest
<1>4. Locks(g) /\ Asks(g)
  BY <1>1 DEF Locks, Asks
<1> QED BY <1>1, <1>3, <1>4

LEMMA WasShownKeeps ==
  ASSUME NEW s, NEW u, NEW debt, NEW count, Books(s, u, debt, count), Locks(s), Asks(s)
  PROVE  LET g == D!WasShown(s)
         IN  /\ Books(g, u, debt, count) /\ Locks(g) /\ Asks(g)
             /\ g.d.last = s.d.last /\ g.rd.output = s.rd.output
<1> DEFINE yes == TRUE
           x == s.d.front \/ (s.d.shown = D!NoFrame /\ s.d.compositor)
           v == [s.ui EXCEPT !.visible = yes]
           r == [s.rd EXCEPT !.dirty = yes]
           e == [s.d EXCEPT !.front = x]
           g == D!WasShown(s)
<1>0. IsState(s)
  BY DEF Books
<1>1. g = [s EXCEPT !.ui = v, !.rd = r, !.d = e]
  BY DEF D!WasShown
<1>2. v = [s.ui EXCEPT !.visible = yes] /\ r = [s.rd EXCEPT !.dirty = yes] /\ e = [s.d EXCEPT !.front = x]
  OBVIOUS
<1> HIDE DEF yes, x, v, r, e, g
<1>3. IsView(v) /\ v.zombies = s.ui.zombies /\ v.unref = s.ui.unref /\ v.desired = s.ui.desired
  BY <1>0, <1>2 DEF IsState, IsView
<1>4. /\ IsRenderer(r) /\ r.acks = s.rd.acks /\ r.swaps = s.rd.swaps /\ r.told = s.rd.told
      /\ r.size = s.rd.size /\ r.output = s.rd.output
  BY <1>0, <1>2 DEF IsState, IsRenderer
<1>5. /\ IsHost(e) /\ e.pending = s.d.pending /\ e.can_lock = s.d.can_lock /\ e.expected = s.d.expected
      /\ e.held = s.d.held /\ e.shown = s.d.shown /\ e.last = s.d.last /\ e.returned = s.d.returned
      /\ e.callbacks = s.d.callbacks /\ e.draw = s.d.draw
  BY <1>0, <1>2 DEF IsState, IsHost
<1>6. v.desired \in Sizes /\ r.size \in Sizes /\ r.output \in Outs
  BY <1>3, <1>4 DEF Locks
<1>7. g = [d |-> e, ui |-> v, rd |-> r, back |-> s.back]
  BY <1>0, <1>1 DEF IsState
<1>8. Books(g, u, debt, count) /\ Locks(g) /\ Asks(g) /\ g.d.last = s.d.last /\ g.rd = r
  BY <1>3, <1>4, <1>5, <1>6, <1>7, ViewKeeps
<1> QED BY <1>4, <1>8 DEF g

LEMMA WasHiddenKeeps ==
  ASSUME NEW s, NEW u, NEW debt, NEW count, Books(s, u, debt, count), Locks(s), Asks(s)
  PROVE  LET g == D!WasHidden(s)
         IN  /\ Books(g, u, debt, count) /\ Locks(g) /\ Asks(g)
             /\ g.d.last = s.d.last /\ g.rd.output = s.rd.output
<1> DEFINE no == FALSE
           t == D!ReleaseFront(s)
           v == [t.ui EXCEPT !.visible = no]
           g == D!WasHidden(s)
<1>1. g = [t EXCEPT !.ui = v]
  BY DEF D!WasHidden
<1>2. Loosens(s, t)
  BY LockLoosens DEF Books
<1> HIDE DEF t
<1>3. Books(t, u, debt, count) /\ Locks(t) /\ Asks(t) /\ t.d.last = s.d.last /\ t.rd.output = s.rd.output
  BY <1>2, LoosensKeeps
<1>4. IsState(t)
  BY <1>3 DEF Books
<1>5. v = [t.ui EXCEPT !.visible = no]
  OBVIOUS
<1> HIDE DEF no, v, g
<1>6. IsView(v) /\ v.zombies = t.ui.zombies /\ v.unref = t.ui.unref /\ v.desired = t.ui.desired
  BY <1>4, <1>5 DEF IsState, IsView
<1>7. IsState(g) /\ g.d = t.d /\ g.ui = v /\ g.rd = t.rd /\ g.back = t.back
  BY <1>1, <1>4, <1>6 DEF IsState
<1>8. SameBooks(t, g) /\ SameLocks(t, g)
  BY <1>6, <1>7 DEF SameBooks, SameLocks
<1>9. Books(g, u, debt, count) /\ Locks(g) /\ Asks(g)
  BY <1>3, <1>7, <1>8, BooksRest, LocksRest
<1> QED BY <1>3, <1>7, <1>9 DEF g

LEMMA LostResourcesKeeps ==
  ASSUME NEW s, NEW debt, NEW count, Books(s, use_surfaces, debt, count), Locks(s), Asks(s)
  PROVE  LET g == D!OnLostResources(s)
         IN  /\ Books(g, use_surfaces, debt, count) /\ Locks(g) /\ Asks(g)
             /\ g.d.last = s.d.last /\ g.rd.output = s.rd.output
<1> DEFINE yes == TRUE
           k == D!EvictDelegatedFrame(s)
           t == IF s.d.shown = D!NoFrame THEN s ELSE k
           r == [t.rd EXCEPT !.dirty = yes]
           g == D!OnLostResources(s)
<1>1. g = [t EXCEPT !.rd = r]
  BY DEF D!OnLostResources
<1>2. Books(k, use_surfaces, debt, count) /\ SameLocks(s, k) /\ k.d.last = s.d.last
  BY EvictKeeps
<1> HIDE DEF k
<1>3. Books(t, use_surfaces, debt, count) /\ Locks(t) /\ Asks(t) /\ t.d.last = s.d.last /\ t.rd.output = s.rd.output
  BY <1>2, LocksRest DEF SameLocks
<1> HIDE DEF t
<1>4. IsState(t)
  BY <1>3 DEF Books
<1>5. r = [t.rd EXCEPT !.dirty = yes]
  OBVIOUS
<1> HIDE DEF yes, r, g
<1>6. /\ IsRenderer(r) /\ r.acks = t.rd.acks /\ r.swaps = t.rd.swaps /\ r.told = t.rd.told
      /\ r.size = t.rd.size /\ r.output = t.rd.output
  BY <1>4, <1>5 DEF IsState, IsRenderer
<1>7. IsState(g) /\ g.d = t.d /\ g.ui = t.ui /\ g.rd = r /\ g.back = t.back
  BY <1>1, <1>4, <1>6 DEF IsState
<1>8. SameBooks(t, g) /\ SameLocks(t, g)
  BY <1>6, <1>7 DEF SameBooks, SameLocks
<1>9. Books(g, use_surfaces, debt, count) /\ Locks(g) /\ Asks(g)
  BY <1>3, <1>7, <1>8, BooksRest, LocksRest
<1> QED BY <1>3, <1>6, <1>7, <1>9 DEF g

\* The callback of a surface that is gone runs at last.
LEMMA CollectKeeps ==
  ASSUME NEW s, NEW u, NEW debt \in [Outs -> Nat], Books(s, u, debt, 0), MaxOutputs \in Nat,
         s.ui.zombies # <<>>
  PROVE  LET g == D!SurfaceDrawn([s EXCEPT !.ui.zombies = Tail(@)], Head(s.ui.zombies))
         IN  Books(g, u, debt, 0) /\ SameLocks(s, g) /\ g.d.last = s.d.last
<1> DEFINE o == Head(s.ui.zombies)
           q == Tail(s.ui.zombies)
           v == [s.ui EXCEPT !.zombies = q]
           t == [s EXCEPT !.ui = v]
           owe == [debt EXCEPT ![o] = @ + 1]
           g == D!SendDelegatedFrameAck(t, o)
<1>0. IsState(s) /\ Owing(s) /\ Ordered(s) /\ Accounts(s, debt, 0) /\ (u \/ s.d.draw = 0)
  BY DEF Books
<1>1. D!SurfaceDrawn([s EXCEPT !.ui.zombies = Tail(@)], Head(s.ui.zombies)) = g
  BY DEF D!SurfaceDrawn
<1>2. s.ui.zombies \in Seq(Outs) /\ s.ui.zombies # <<>>
  BY <1>0 DEF Owing
<1>3. /\ o \in Outs /\ q \in Seq(Outs) /\ Len(s.ui.zombies) = Len(q) + 1 /\ Len(q) \in Nat
      /\ \A i \in DOMAIN q : i + 1 \in DOMAIN s.ui.zombies /\ q[i] = s.ui.zombies[i + 1]
      /\ 1 \in DOMAIN s.ui.zombies /\ o = s.ui.zombies[1]
  BY <1>2
<1>4. o <= s.d.last /\ \A i \in DOMAIN q : q[i] <= s.d.last
  BY <1>0, <1>3 DEF Ordered
<1>5. \A x : Number(s.ui.zombies, {x}) = IF o \in {x} THEN Number(q, {x}) + 1 ELSE Number(q, {x})
  BY <1>2, NumberTail
<1>6. t = [s EXCEPT !.ui = v] /\ v = [s.ui EXCEPT !.zombies = q]
  OBVIOUS
<1>7. owe \in [Outs -> Nat] /\ \A x \in Outs : owe[x] = IF x = o THEN debt[x] + 1 ELSE debt[x]
  BY <1>3
<1>8. [owe EXCEPT ![o] = @ - 1] = debt
  <2>1. DOMAIN [owe EXCEPT ![o] = @ - 1] = Outs /\ DOMAIN debt = Outs
    BY <1>7
  <2>2. \A x \in Outs : [owe EXCEPT ![o] = @ - 1][x] = debt[x]
    BY <1>7
  <2>3. [owe EXCEPT ![o] = @ - 1] \in [Outs -> Int]
    BY <1>7
  <2> HIDE DEF owe, o
  <2> QED BY <2>1, <2>2, <2>3
<1> HIDE DEF o, q, v, t, owe
<1>9. IsView(v) /\ v.unref = s.ui.unref /\ v.zombies = q /\ v.desired = s.ui.desired
  BY <1>0, <1>6 DEF IsState, IsView
<1>10. IsState(t) /\ t.d = s.d /\ t.ui = v /\ t.rd = s.rd /\ t.back = s.back
  BY <1>0, <1>6, <1>9 DEF IsState
<1>11. SameLocks(s, t)
  BY <1>9, <1>10 DEF SameLocks
<1>12. Owing(t)
  BY <1>0, <1>3, <1>9, <1>10 DEF Owing
<1>13. Ordered(t)
  BY <1>0, <1>4, <1>9, <1>10 DEF Ordered
<1>14. Accounts(t, owe, 1)
  <2>1. ASSUME NEW x \in Outs PROVE t.rd.swaps[x] - t.rd.acks[x] = owe[x] + Held(t, x)
    <3> DEFINE n == Number(s.d.callbacks, {x})
               k == Number(q, {x})
               z == Due(s.d.draw, x)
               y == Due(o, x)
               b == debt[x]
    <3>1. n \in Nat /\ k \in Nat
      BY <1>0, <1>3, NumberIsNat DEF Owing
    <3>2. z \in Nat /\ y \in Nat /\ b \in Nat
      BY DEF Due
    <3>3. Number(s.ui.zombies, {x}) = k + y /\ owe[x] = b + y
      <4>1. CASE o = x
        BY <1>5, <1>7, <4>1 DEF Due
      <4>2. CASE o # x
        <5>1. y = 0 /\ Number(s.ui.zombies, {x}) = k /\ owe[x] = b
          BY <1>5, <1>7, <4>2 DEF Due
        <5> QED BY <3>1, <3>2, <5>1
      <4> QED BY <4>1, <4>2
    <3>4. Held(s, x) = n + (k + y) + z /\ Held(t, x) = n + k + z
      BY <1>9, <1>10, <3>3 DEF Held
    <3>5. s.rd.swaps[x] - s.rd.acks[x] = b + Held(s, x)
      BY <1>0 DEF Accounts
    <3> HIDE DEF n, k, z, y, b
    <3>6. b + Held(s, x) = owe[x] + Held(t, x)
      BY <3>1, <3>2, <3>3, <3>4
    <3> QED BY <1>10, <3>5, <3>6
  <2>2. t.d.pending = Callbacks(t) + 1
    <3> DEFINE n == Len(s.d.callbacks)
               k == Len(q)
               z == 1 - Due(s.d.draw, 0)
    <3>1. n \in Nat /\ k \in Nat
      <4>1. s.d.callbacks \in Seq(Outs)
        BY <1>0 DEF Owing
      <4>2. n \in Nat
        BY <4>1
      <4> QED BY <1>3, <4>2
    <3>5. z \in Nat
      BY DEF Due
    <3>2. Callbacks(s) = n + Len(s.ui.zombies) + z /\ Len(s.ui.zombies) = k + 1
      BY <1>3 DEF Callbacks
    <3>3. Callbacks(t) = n + k + z
      BY <1>9, <1>10 DEF Callbacks
    <3>4. s.d.pending = Callbacks(s) + 0 /\ t.d.pending = s.d.pending
      BY <1>0, <1>10 DEF Accounts
    <3> HIDE DEF n, k, z
    <3> QED BY <3>1, <3>2, <3>3, <3>4, <3>5
  <2> QED BY <2>1, <2>2 DEF Accounts
<1>15. Books(t, u, owe, 1)
  BY <1>0, <1>10, <1>12, <1>13, <1>14 DEF Books
<1>16. 1 \in Nat /\ 1 - 1 = 0 /\ o <= t.d.last
  BY <1>4, <1>10
<1>17. Books(g, u, [owe EXCEPT ![o] = @ - 1], 1 - 1) /\ SameLocks(t, g) /\ g.d.last = t.d.last
  BY <1>3, <1>7, <1>15, <1>16, AckKeeps
<1> HIDE DEF g
<1>18. SameLocks(s, g)
  BY <1>11, <1>17, LocksTransitive
<1> QED BY <1>1, <1>8, <1>10, <1>16, <1>17, <1>18

-----------------------------------------------------------------------------
(* The inductive step.                                                     *)

LEMMA DebtsAreNat ==
  ASSUME NEW q \in Seq(Painted)
  PROVE  Debts(q) \in [Outs -> Nat]
<1>1. \A o \in Outs : Number(q, From(o)) \in Nat
  BY NumberIsNat
<1> QED BY <1>1 DEF Debts

LEMMA BecomesKeeps ==
  ASSUME NEW s, D!Becomes(s), Home(s, use_surfaces, wire), UNCHANGED <<use_surfaces, wire>>
  PROVE  HomeInv'
<1>1. d' = s.d /\ ui' = s.ui /\ rd' = s.rd /\ back' = s.back
  BY DEF D!Becomes
<1>2. s = [d |-> s.d, ui |-> s.ui, rd |-> s.rd, back |-> s.back]
  BY DEF Home, Books, IsState
<1>3. [d |-> d', ui |-> ui', rd |-> rd', back |-> back'] = s
  BY <1>1, <1>2
<1>4. Home([d |-> d', ui |-> ui', rd |-> rd', back |-> back'], use_surfaces', wire')
  BY <1>3
<1> QED BY <1>4 DEF HomeInv, D!Now

LEMMA HomeKeeps ==
  ASSUME NEW s, NEW u, NEW q, Home(s, u, q),
         NEW g, Books(g, u, Debts(q), 0), Locks(g), Asks(g), g.d.last = s.d.last, g.rd.output = s.rd.output
  PROVE  Home(g, u, q)
BY DEF Home

\* One frame less is owed for a frame that has arrived, one more for a new one.
LEMMA DebtsChange ==
  ASSUME NEW q \in Seq(Painted)
  PROVE  /\ q # <<>> => Debts(Tail(q)) = [Debts(q) EXCEPT ![Head(q).output] = @ - 1]
         /\ \A f \in Painted : Debts(Append(q, f)) = [Debts(q) EXCEPT ![f.output] = @ + 1]
<1>0. Debts(q) \in [Outs -> Nat]
  BY DebtsAreNat
<1>1. ASSUME q # <<>> PROVE Debts(Tail(q)) = [Debts(q) EXCEPT ![Head(q).output] = @ - 1]
  <2>1. Head(q) \in Painted /\ Tail(q) \in Seq(Painted)
    BY <1>1
  <2>2. Debts(Tail(q)) \in [Outs -> Nat]
    BY <2>1, DebtsAreNat
  <2>3. ASSUME NEW o \in Outs
        PROVE  Debts(Tail(q))[o] = IF o = Head(q).output THEN Debts(q)[o] - 1 ELSE Debts(q)[o]
    <3>1. Number(q, From(o)) = IF Head(q) \in From(o) THEN Number(Tail(q), From(o)) + 1 ELSE Number(Tail(q), From(o))
      BY <1>1, NumberTail
    <3>2. Head(q) \in From(o) <=> o = Head(q).output
      BY <2>1 DEF From
    <3>3. Number(Tail(q), From(o)) \in Nat
      BY <2>1, NumberIsNat
    <3>4. Debts(q)[o] = Number(q, From(o)) /\ Debts(Tail(q))[o] = Number(Tail(q), From(o))
      BY DEF Debts
    <3> QED BY <3>1, <3>2, <3>3, <3>4
  <2> DEFINE p == Tail(q)
             h == Head(q).output
             D0 == Debts(q)
             D1 == Debts(p)
             E == [D0 EXCEPT ![h] = @ - 1]
  <2>4. E = [D0 EXCEPT ![h] = @ - 1] /\ D0 \in [Outs -> Nat] /\ D1 \in [Outs -> Nat]
        /\ \A o \in Outs : D1[o] = IF o = h THEN D0[o] - 1 ELSE D0[o]
    BY <1>0, <2>2, <2>3
  <2> HIDE DEF p, h, D0, D1, E
  <2>5. DOMAIN E = Outs /\ E = [o \in Outs |-> E[o]] /\ D1 = [o \in Outs |-> D1[o]]
    BY <2>4
  <2>6. \A o \in Outs : E[o] = D1[o]
    BY <2>4
  <2>7. E = D1
    BY <2>5, <2>6
  <2> QED BY <2>7 DEF p, h, D0, D1, E
<1>2. ASSUME NEW f \in Painted PROVE Debts(Append(q, f)) = [Debts(q) EXCEPT ![f.output] = @ + 1]
  <2>1. Append(q, f) \in Seq(Painted)
    OBVIOUS
  <2>2. Debts(Append(q, f)) \in [Outs -> Nat]
    BY <2>1, DebtsAreNat
  <2>3. ASSUME NEW o \in Outs
        PROVE  Debts(Append(q, f))[o] = IF o = f.output THEN Debts(q)[o] + 1 ELSE Debts(q)[o]
    <3>1. Number(Append(q, f), From(o)) = IF f \in From(o) THEN Number(q, From(o)) + 1 ELSE Number(q, From(o))
      BY NumberAppend
    <3>2. f \in From(o) <=> o = f.output
      BY DEF From
    <3>4. Debts(q)[o] = Number(q, From(o)) /\ Debts(Append(q, f))[o] = Number(Append(q, f), From(o))
      BY DEF Debts
    <3> QED BY <3>1, <3>2, <3>4
  <2> DEFINE p == Append(q, f)
             h == f.output
             D0 == Debts(q)
             D1 == Debts(p)
             E == [D0 EXCEPT ![h] = @ + 1]
  <2>4. E = [D0 EXCEPT ![h] = @ + 1] /\ D0 \in [Outs -> Nat] /\ D1 \in [Outs -> Nat]
        /\ \A o \in Outs : D1[o] = IF o = h THEN D0[o] + 1 ELSE D0[o]
    BY <1>0, <2>2, <2>3
  <2> HIDE DEF p, h, D0, D1, E
  <2>5. DOMAIN E = Outs /\ E = [o \in Outs |-> E[o]] /\ D1 = [o \in Outs |-> D1[o]]
    BY <2>4
  <2>6. \A o \in Outs : E[o] = D1[o]
    BY <2>4
  <2>7. E = D1
    BY <2>5, <2>6
  <2> QED BY <2>7 DEF p, h, D0, D1, E
<1> QED BY <1>1, <1>2

\* A frame arrives; those behind it are not of an older output.
LEMMA ReceiveKeeps ==
  ASSUME HomeInv, D!Receive, MaxOutputs \in Nat, Sizes \subseteq Nat \ {0}
  PROVE  HomeInv'
<1> DEFINE s == D!Now
           f == Head(wire)
           q == Tail(wire)
           g == D!SwapDelegatedFrame(s, f)
<1>1. /\ Books(s, use_surfaces, Debts(wire), 0) /\ Locks(s) /\ Asks(s)
      /\ Travels(wire, s.d.last, s.rd.output)
  BY DEF HomeInv, Home
<1>2. wire # <<>> /\ D!Becomes(g) /\ wire' = q /\ use_surfaces' = use_surfaces
  BY DEF D!Receive
<1>3. /\ wire \in Seq(Painted) /\ \A i \in DOMAIN wire : s.d.last <= wire[i].output /\ wire[i].output <= s.rd.output
      /\ \A i, j \in DOMAIN wire : i < j => wire[i].output <= wire[j].output
      /\ s.d.last <= s.rd.output
  BY <1>1 DEF Travels
<1>4. /\ f \in Painted /\ q \in Seq(Painted) /\ f = wire[1] /\ 1 \in DOMAIN wire
      /\ \A i \in DOMAIN q : i \in Nat /\ i + 1 \in DOMAIN wire /\ q[i] = wire[i + 1] /\ 1 < i + 1
  BY <1>2, <1>3
<1>5. /\ s.d.last <= f.output /\ f.output <= s.rd.output
      /\ \A i \in DOMAIN q : s.d.last <= q[i].output /\ f.output <= q[i].output /\ q[i].output <= s.rd.output
      /\ \A i, j \in DOMAIN q : i < j => q[i].output <= q[j].output
  <2>1. \A i, j \in DOMAIN q : i < j => i + 1 < j + 1
    BY <1>4
  <2> QED BY <1>3, <1>4, <2>1
<1> HIDE DEF s, f, q
<1>6. Debts(wire) \in [Outs -> Nat] /\ Debts(q) = [Debts(wire) EXCEPT ![f.output] = @ - 1]
  BY <1>2, <1>3, DebtsAreNat, DebtsChange DEF q, f
<1>7. /\ Books(g, use_surfaces, [Debts(wire) EXCEPT ![f.output] = @ - 1], 0)
      /\ Locks(g) /\ Asks(g)
      /\ g.d.last \in {s.d.last, f.output} /\ g.rd.output = s.rd.output
  BY <1>1, <1>4, <1>5, <1>6, SwapKeeps
<1> HIDE DEF g
<1>8. Travels(q, g.d.last, g.rd.output)
  <2>1. CASE g.d.last = s.d.last
    BY <1>3, <1>4, <1>5, <1>7, <2>1 DEF Travels
  <2>2. CASE g.d.last = f.output
    BY <1>3, <1>4, <1>5, <1>7, <2>2 DEF Travels
  <2> QED BY <1>7, <2>1, <2>2
<1>9. Home(g, use_surfaces, q)
  BY <1>6, <1>7, <1>8 DEF Home
<1>10. d' = g.d /\ ui' = g.ui /\ rd' = g.rd /\ back' = g.back
  BY <1>2 DEF D!Becomes
<1>11. g = [d |-> g.d, ui |-> g.ui, rd |-> g.rd, back |-> g.back]
  BY <1>7 DEF Books, IsState
<1>12. [d |-> d', ui |-> ui', rd |-> rd', back |-> back'] = g
  BY <1>10, <1>11
<1>13. Home([d |-> d', ui |-> ui', rd |-> rd', back |-> back'], use_surfaces', wire')
  BY <1>2, <1>9, <1>12
<1> QED BY <1>13 DEF HomeInv, D!Now

\* The renderer paints a frame, and owes itself one answer more.
LEMMA PaintKeeps ==
  ASSUME HomeInv, D!Paint, MaxOutputs \in Nat, EmptyFrames = FALSE
  PROVE  HomeInv'
<1> DEFINE s == D!Now
           o == rd.output
           a == [rd.swaps EXCEPT ![o] = @ + 1]
           no == FALSE
           r == [rd EXCEPT !.dirty = no, !.swaps = a]
           g == [s EXCEPT !.rd = r]
           f == [output |-> o, size |-> rd.size]
           q == Append(wire, f)
<1>1. /\ Books(s, use_surfaces, Debts(wire), 0) /\ Locks(s) /\ Asks(s)
      /\ Travels(wire, s.d.last, s.rd.output)
  BY DEF HomeInv, Home
<1>2. /\ wire' = q /\ rd' = r /\ d' = d /\ use_surfaces' = use_surfaces /\ ui' = ui /\ back' = back
  BY DEF D!Paint
<1>3. s.d = d /\ s.ui = ui /\ s.rd = rd /\ s.back = back
  BY DEF D!Now
<1>4. IsState(s) /\ Owing(s) /\ Ordered(s) /\ Accounts(s, Debts(wire), 0) /\ (use_surfaces \/ s.d.draw = 0)
  BY <1>1 DEF Books
<1>5. rd.size \in Sizes /\ o \in Outs /\ f \in Painted /\ f.output = o
  BY <1>1, <1>3 DEF Locks, Painted
<1>6. /\ wire \in Seq(Painted) /\ \A i \in DOMAIN wire : s.d.last <= wire[i].output /\ wire[i].output <= o
      /\ \A i, j \in DOMAIN wire : i < j => wire[i].output <= wire[j].output
      /\ s.d.last <= o
  BY <1>1, <1>3 DEF Travels
<1>7. r = [rd EXCEPT !.dirty = no, !.swaps = a] /\ g = [s EXCEPT !.rd = r]
  OBVIOUS
<1>8. a \in [Outs -> Nat] /\ \A x \in Outs : a[x] = IF x = o THEN rd.swaps[x] + 1 ELSE rd.swaps[x]
  <2>1. rd.swaps \in [Outs -> Nat]
    BY <1>3, <1>4 DEF Owing
  <2> QED BY <1>5, <2>1, OneMore
<1> HIDE DEF s, a, no, r, g, f, q, o
<1>9. /\ IsRenderer(r) /\ r.acks = rd.acks /\ r.swaps = a /\ r.told = rd.told /\ r.size = rd.size
      /\ r.output = rd.output
  BY <1>3, <1>4, <1>7 DEF IsState, IsRenderer
<1>10. IsState(g) /\ g.d = s.d /\ g.ui = s.ui /\ g.rd = r /\ g.back = s.back
  BY <1>4, <1>7, <1>9 DEF IsState
<1>11. SameLocks(s, g)
  BY <1>3, <1>9, <1>10 DEF SameLocks
<1>12. Owing(g)
  BY <1>3, <1>4, <1>8, <1>9, <1>10 DEF Owing
<1>13. Ordered(g)
  BY <1>4, <1>10 DEF Ordered
<1>14. Accounts(g, Debts(q), 0)
  <2>1. Debts(q) = [Debts(wire) EXCEPT ![o] = @ + 1] /\ Debts(wire) \in [Outs -> Nat]
    BY <1>5, <1>6, DebtsAreNat, DebtsChange DEF q
  <2>2. ASSUME NEW x \in Outs PROVE g.rd.swaps[x] - g.rd.acks[x] = Debts(q)[x] + Held(g, x)
    <3>1. Held(g, x) = Held(s, x)
      BY <1>10 DEF Held
    <3>2. Held(s, x) \in Nat
      BY <1>4, HeldIsNat
    <3>3. rd.swaps[x] - rd.acks[x] = Debts(wire)[x] + Held(s, x)
      BY <1>3, <1>4 DEF Accounts
    <3>4. rd.swaps[x] \in Nat /\ rd.acks[x] \in Nat /\ Debts(wire)[x] \in Nat
      BY <1>3, <1>4, <2>1 DEF Owing
    <3>5. g.rd.swaps[x] = a[x] /\ g.rd.acks[x] = rd.acks[x]
      BY <1>9, <1>10
    <3>6. Debts(q)[x] = IF x = o THEN Debts(wire)[x] + 1 ELSE Debts(wire)[x]
      BY <2>1
    <3> QED BY <1>8, <3>1, <3>2, <3>3, <3>4, <3>5, <3>6
  <2>3. g.d.pending = Callbacks(g) + 0
    BY <1>4, <1>10 DEF Accounts, Callbacks
  <2> QED BY <2>2, <2>3 DEF Accounts
<1>15. Books(g, use_surfaces, Debts(q), 0)
  BY <1>4, <1>10, <1>12, <1>13, <1>14 DEF Books
<1>16. Travels(q, g.d.last, g.rd.output)
  <2>1. /\ q \in Seq(Painted) /\ DOMAIN q = 1 .. (Len(wire) + 1) /\ DOMAIN wire = 1 .. Len(wire)
        /\ Len(wire) \in Nat /\ q[Len(wire) + 1] = f /\ \A i \in DOMAIN wire : q[i] = wire[i]
    BY <1>5, <1>6 DEF q
  <2>2. \A i \in DOMAIN q : i \in DOMAIN wire \/ i = Len(wire) + 1
    BY <2>1
  <2>3. \A i, j \in DOMAIN q : i < j => i \in DOMAIN wire
    BY <2>1
  <2>4. o <= o
    BY <1>5 DEF Outs
  <2>5. g.d.last = s.d.last /\ g.rd.output = o
    BY <1>9, <1>10 DEF o
  <2>6. \A i \in DOMAIN q : s.d.last <= q[i].output /\ q[i].output <= o
    BY <1>5, <1>6, <2>1, <2>2, <2>4
  <2>7. \A i, j \in DOMAIN q : i < j => q[i].output <= q[j].output
    <3> SUFFICES ASSUME NEW i \in DOMAIN q, NEW j \in DOMAIN q, i < j PROVE q[i].output <= q[j].output
      OBVIOUS
    <3>1. i \in DOMAIN wire
      BY <2>3
    <3>2. CASE j \in DOMAIN wire
      BY <1>6, <2>1, <3>1, <3>2
    <3>3. CASE j = Len(wire) + 1
      BY <1>5, <2>1, <2>6, <3>3
    <3> QED BY <2>2, <3>2, <3>3
  <2> QED BY <1>6, <2>1, <2>5, <2>6, <2>7 DEF Travels
<1>17. Locks(g) /\ Asks(g)
  BY <1>1, <1>11, LocksRest
<1>18. Home(g, use_surfaces, q)
  BY <1>15, <1>16, <1>17 DEF Home
<1>19. g = [d |-> d', ui |-> ui', rd |-> rd', back |-> back']
  BY <1>2, <1>3, <1>10 DEF IsState
<1>20. Home([d |-> d', ui |-> ui', rd |-> rd', back |-> back'], use_surfaces', wire')
  BY <1>2, <1>18, <1>19
<1> QED BY <1>20 DEF HomeInv, D!Now

LEMMA HomeInit == D!Init /\ D!HostAssumption => HomeInv
<1> SUFFICES ASSUME D!Init, D!HostAssumption PROVE HomeInv
  OBVIOUS
<1> DEFINE s == D!Now
<1>1. MaxOutputs \in Nat \ {0} /\ Sizes \subseteq Nat \ {0}
  BY DEF D!HostAssumption
<1>2. /\ d.can_lock = "YES_CAN_LOCK" /\ d.expected = 0 /\ d.held = FALSE /\ d.shown = D!NoFrame
      /\ d.last = 0 /\ d.pending = 0 /\ d.callbacks = <<>> /\ d.draw = 0 /\ d.returned = {} /\ IsHost(d)
  BY DEF D!Init, IsHost
<1>3. PICK z \in Sizes :
        /\ ui = [visible |-> TRUE, desired |-> z, zombies |-> <<>>, unref |-> {}]
        /\ rd = [output |-> 1, told |-> z, resize |-> FALSE, size |-> z, dirty |-> TRUE, missed |-> FALSE,
                 swaps |-> [o \in Outs |-> 0], acks |-> [o \in Outs |-> 0]]
  BY DEF D!Init, D!Outputs, Outs
<1>4. ui.desired = z /\ ui.zombies = <<>> /\ ui.unref = {} /\ IsView(ui)
  BY <1>3 DEF IsView
<1>5. /\ rd.output = 1 /\ rd.told = z /\ rd.size = z /\ rd.swaps = [o \in Outs |-> 0]
      /\ rd.acks = [o \in Outs |-> 0] /\ IsRenderer(rd)
  BY <1>3 DEF IsRenderer
<1>6. wire = <<>> /\ back.whose = {}
  BY DEF D!Init
<1>7. s.d = d /\ s.ui = ui /\ s.rd = rd /\ s.back = back /\ IsState(s)
  BY <1>2, <1>4, <1>5 DEF D!Now, IsState
<1> HIDE DEF s
<1>8. \A X : <<>> \in Seq(X) /\ DOMAIN <<>> = {} /\ Len(<<>>) = 0
  OBVIOUS
<1>9. Owing(s)
  <2>1. s.d.callbacks \in Seq(Outs) /\ s.ui.zombies \in Seq(Outs)
    BY <1>2, <1>4, <1>7, <1>8
  <2>2. s.rd.swaps \in [Outs -> Nat] /\ s.rd.acks \in [Outs -> Nat]
    BY <1>5, <1>7
  <2>3. /\ s.d.draw \in {0} \cup Outs /\ s.d.pending \in Int /\ s.d.last \in {0} \cup Outs
        /\ s.d.shown \in Painted \cup {D!NoFrame} /\ s.d.returned \subseteq Outs /\ s.ui.unref \subseteq Outs
    BY <1>2, <1>4, <1>7
  <2> QED BY <2>1, <2>2, <2>3 DEF Owing
<1>10. Ordered(s)
  BY <1>2, <1>4, <1>6, <1>7, <1>8 DEF Ordered
<1>11. Accounts(s, Debts(wire), 0)
  <2>1. ASSUME NEW o \in Outs PROVE s.rd.swaps[o] - s.rd.acks[o] = Debts(wire)[o] + Held(s, o)
    <3>1. \A S : Number(<<>>, S) = 0
      BY NumberEmpty
    <3>2. Debts(wire)[o] = 0
      BY <1>6, <3>1 DEF Debts
    <3>3. Due(0, o) = 0
      BY DEF Due, Outs
    <3>4. Held(s, o) = 0
      BY <1>2, <1>4, <1>7, <3>1, <3>3 DEF Held
    <3>5. s.rd.swaps[o] = 0 /\ s.rd.acks[o] = 0
      BY <1>5, <1>7
    <3> QED BY <3>2, <3>4, <3>5
  <2>2. s.d.pending = Callbacks(s) + 0
    <3>1. Callbacks(s) = Len(<<>>) + Len(<<>>) + (1 - Due(0, 0))
      BY <1>2, <1>4, <1>7 DEF Callbacks
    <3>2. Due(0, 0) = 1
      BY DEF Due
    <3>3. s.d.pending = 0 /\ Len(<<>>) = 0
      BY <1>2, <1>7
    <3> QED BY <3>1, <3>2, <3>3
  <2> QED BY <2>1, <2>2 DEF Accounts
<1>12. Books(s, use_surfaces, Debts(wire), 0)
  BY <1>2, <1>7, <1>9, <1>10, <1>11 DEF Books
<1>13. Locks(s) /\ Asks(s)
  BY <1>1, <1>2, <1>4, <1>5, <1>7 DEF Locks, Asks, D!CanLock, Outs
<1>14. Travels(wire, s.d.last, s.rd.output)
  BY <1>2, <1>5, <1>6, <1>7, <1>8 DEF Travels
<1>15. Home(s, use_surfaces, wire)
  BY <1>12, <1>13, <1>14 DEF Home
<1> QED BY <1>15 DEF HomeInv, s

LEMMA HomeNext ==
  ASSUME HomeInv, D!Next, D!HostAssumption, EmptyFrames = FALSE
  PROVE  HomeInv'
<1> DEFINE s == D!Now
           debt == Debts(wire)
<1>1. MaxOutputs \in Nat /\ Sizes \subseteq Nat \ {0}
  BY DEF D!HostAssumption
<1>2. Home(s, use_surfaces, wire)
  BY DEF HomeInv
<1>3. /\ Books(s, use_surfaces, debt, 0) /\ Locks(s) /\ Asks(s)
      /\ Travels(wire, s.d.last, s.rd.output) /\ IsState(s)
  BY <1>2 DEF Home, Books
<1>4. debt \in [Outs -> Nat]
  BY <1>3, DebtsAreNat DEF Travels
<1>5. s.d = d /\ s.ui = ui /\ s.rd = rd /\ s.back = back
  BY DEF D!Now
<1>6. ASSUME NEW g, D!Becomes(g), Books(g, use_surfaces, debt, 0), Locks(g), Asks(g),
             g.d.last = s.d.last, g.rd.output = s.rd.output, UNCHANGED <<use_surfaces, wire>>
      PROVE  HomeInv'
  <2>1. Home(g, use_surfaces, wire)
    BY <1>2, <1>6, HomeKeeps
  <2> QED BY <1>6, <2>1, BecomesKeeps
<1> HIDE DEF s, debt
<1>7. CASE D!Resize
  <2>1. PICK size \in Sizes : D!Becomes(D!WidgetWasResized(D!WasResized([s EXCEPT !.ui.desired = size])))
    BY <1>7 DEF D!Resize, s
  <2> DEFINE v == [s.ui EXCEPT !.desired = size]
             t == [s EXCEPT !.ui = v]
             g == D!WidgetWasResized(D!WasResized(t))
  <2>2. D!Becomes(g) /\ UNCHANGED <<use_surfaces, wire>>
    BY <1>7, <2>1 DEF D!Resize
  <2>3. v = [s.ui EXCEPT !.desired = size] /\ t = [s EXCEPT !.ui = v]
    OBVIOUS
  <2> HIDE DEF v, t
  <2>4. IsView(v) /\ v.zombies = s.ui.zombies /\ v.unref = s.ui.unref /\ v.desired = size
    BY <1>3, <2>3 DEF IsState, IsView
  <2>5. t = [d |-> s.d, ui |-> v, rd |-> s.rd, back |-> s.back]
    BY <1>3, <2>3 DEF IsState
  <2>6. IsHost(s.d) /\ IsRenderer(s.rd) /\ s.rd.size \in Sizes /\ s.rd.output \in Outs
    BY <1>3 DEF IsState, Locks
  <2>7. Books(t, use_surfaces, debt, 0) /\ Locks(t) /\ t.d.last = s.d.last /\ t.rd = s.rd
    BY <1>3, <2>4, <2>5, <2>6, ViewKeeps
  <2>8. /\ Books(g, use_surfaces, debt, 0) /\ Locks(g) /\ Asks(g)
        /\ g.d.last = t.d.last /\ g.rd.output = t.rd.output
    BY <1>1, <2>7, WasResizedKeeps
  <2> HIDE DEF g
  <2> QED BY <1>6, <2>2, <2>7, <2>8
<1>8. CASE D!Show
  <2> DEFINE g == D!WasShown(s)
  <2>1. D!Becomes(g) /\ UNCHANGED <<use_surfaces, wire>>
    BY <1>8 DEF D!Show, s
  <2>2. /\ Books(g, use_surfaces, debt, 0) /\ Locks(g) /\ Asks(g)
        /\ g.d.last = s.d.last /\ g.rd.output = s.rd.output
    BY <1>3, WasShownKeeps
  <2> HIDE DEF g
  <2> QED BY <1>6, <2>1, <2>2
<1>9. CASE D!Hide
  <2> DEFINE g == D!WasHidden(s)
  <2>1. D!Becomes(g) /\ UNCHANGED <<use_surfaces, wire>>
    BY <1>9 DEF D!Hide, s
  <2>2. /\ Books(g, use_surfaces, debt, 0) /\ Locks(g) /\ Asks(g)
        /\ g.d.last = s.d.last /\ g.rd.output = s.rd.output
    BY <1>3, WasHiddenKeeps
  <2> HIDE DEF g
  <2> QED BY <1>6, <2>1, <2>2
<1>10. CASE D!SetCompositor
  <2> DEFINE yes == TRUE
             e == [d EXCEPT !.compositor = yes]
             g == [d |-> e, ui |-> s.ui, rd |-> s.rd, back |-> s.back]
  <2>1. d' = e /\ UNCHANGED <<use_surfaces, ui, rd, wire, back>>
    BY <1>10 DEF D!SetCompositor
  <2>2. e = [d EXCEPT !.compositor = yes]
    OBVIOUS
  <2>6. D!Becomes(g)
    BY <1>5, <2>1 DEF D!Becomes
  <2> HIDE DEF yes, e
  <2>3. /\ IsHost(e) /\ e.pending = s.d.pending /\ e.can_lock = s.d.can_lock /\ e.expected = s.d.expected
        /\ e.held = s.d.held /\ e.shown = s.d.shown /\ e.last = s.d.last /\ e.returned = s.d.returned
        /\ e.callbacks = s.d.callbacks /\ e.draw = s.d.draw
    BY <1>3, <1>5, <2>2 DEF IsState, IsHost
  <2>4. IsView(s.ui) /\ IsRenderer(s.rd) /\ s.ui.desired \in Sizes /\ s.rd.size \in Sizes /\ s.rd.output \in Outs
    BY <1>3 DEF IsState, Locks
  <2>7. g = [d |-> e, ui |-> s.ui, rd |-> s.rd, back |-> s.back]
    OBVIOUS
  <2> HIDE DEF g
  <2>5. Books(g, use_surfaces, debt, 0) /\ Locks(g) /\ Asks(g) /\ g.d.last = s.d.last /\ g.rd = s.rd
    BY <1>3, <2>3, <2>4, <2>7, ViewKeeps
  <2> QED BY <1>6, <2>1, <2>5, <2>6
<1>11. CASE D!Detach
  <2> DEFINE g == D!ResetCompositor(s)
  <2>1. D!Becomes(g) /\ UNCHANGED <<use_surfaces, wire>>
    BY <1>11 DEF D!Detach, s
  <2>2. /\ Books(g, use_surfaces, debt, 0) /\ Locks(g) /\ Asks(g)
        /\ g.d.last = s.d.last /\ g.rd.output = s.rd.output
    BY <1>3, <1>4, ResetCompositorKeeps
  <2> HIDE DEF g
  <2> QED BY <1>6, <2>1, <2>2
<1>12. CASE D!LoseResources
  <2> DEFINE g == D!OnLostResources(s)
  <2>1. D!Becomes(g) /\ UNCHANGED <<use_surfaces, wire>>
    BY <1>12 DEF D!LoseResources, s
  <2>2. /\ Books(g, use_surfaces, debt, 0) /\ Locks(g) /\ Asks(g)
        /\ g.d.last = s.d.last /\ g.rd.output = s.rd.output
    BY <1>3, LostResourcesKeeps
  <2> HIDE DEF g
  <2> QED BY <1>6, <2>1, <2>2
<1>13. CASE D!Evict
  <2> DEFINE g == D!EvictDelegatedFrame(s)
  <2>1. D!Becomes(g) /\ UNCHANGED <<use_surfaces, wire>>
    BY <1>13 DEF D!Evict, s
  <2>2. Books(g, use_surfaces, debt, 0) /\ SameLocks(s, g) /\ g.d.last = s.d.last
    BY <1>3, EvictKeeps
  <2> HIDE DEF g
  <2>3. Locks(g) /\ Asks(g) /\ g.rd.output = s.rd.output
    BY <1>3, <2>2, LocksRest DEF SameLocks
  <2> QED BY <1>6, <2>1, <2>2, <2>3
<1>14. CASE D!LockTimeout
  <2> DEFINE no == FALSE
             e == [s.d EXCEPT !.held = no, !.front = no]
             t == [s EXCEPT !.d = e]
             g == D!OnCompositingLockStateChanged(t)
  <2>1. D!Becomes(g) /\ UNCHANGED <<use_surfaces, wire>>
    <3>1. t = [s EXCEPT !.d.held = FALSE, !.d.front = FALSE]
      OBVIOUS
    <3> HIDE DEF t
    <3> QED BY <1>14, <3>1 DEF D!LockTimeout, s
  <2>2. no = FALSE /\ e = [s.d EXCEPT !.held = no, !.front = no] /\ t = [s EXCEPT !.d = e]
    OBVIOUS
  <2> HIDE DEF no, e, t
  <2>3. /\ IsHost(e) /\ e.pending = s.d.pending /\ e.can_lock = s.d.can_lock /\ e.expected = s.d.expected
        /\ e.held = no /\ e.shown = s.d.shown /\ e.last = s.d.last /\ e.returned = s.d.returned
        /\ e.callbacks = s.d.callbacks /\ e.draw = s.d.draw
    BY <1>3, <2>2 DEF IsState, IsHost
  <2>4. IsState(t) /\ t.d = e /\ t.ui = s.ui /\ t.rd = s.rd /\ t.back = s.back
    BY <1>3, <2>2, <2>3 DEF IsState
  <2>5. Loosens(s, t)
    BY <2>2, <2>3, <2>4 DEF Loosens, SameBooks
  <2>6. Loosens(t, g)
    BY <2>4, LockLoosens
  <2> HIDE DEF g
  <2>7. Loosens(s, g)
    BY <2>5, <2>6, LoosensTransitive
  <2>8. /\ Books(g, use_surfaces, debt, 0) /\ g.d.last = s.d.last /\ Locks(g) /\ Asks(g)
        /\ g.rd.output = s.rd.output
    BY <1>3, <2>7, LoosensKeeps
  <2> QED BY <1>6, <2>1, <2>8
<1>15. CASE D!Commit
  <2> DEFINE g == D!OnCompositingDidCommit(s)
  <2>1. D!Becomes(g) /\ UNCHANGED <<use_surfaces, wire>>
    BY <1>15 DEF D!Commit, s
  <2>2. /\ Books(g, use_surfaces, debt, 0) /\ Locks(g) /\ Asks(g)
        /\ g.d.last = s.d.last /\ g.rd.output = s.rd.output
    BY <1>1, <1>3, <1>4, DidCommitKeeps
  <2> HIDE DEF g
  <2> QED BY <1>6, <2>1, <2>2
<1>16. CASE D!Draw
  <2> DEFINE g == D!SurfaceDrawn([s EXCEPT !.d.draw = 0], s.d.draw)
  <2>1. D!Becomes(g) /\ UNCHANGED <<use_surfaces, wire>> /\ s.d.draw # 0
    BY <1>5, <1>16 DEF D!Draw, s
  <2>2. Books(g, use_surfaces, debt, 0) /\ SameLocks(s, g) /\ g.d.last = s.d.last
    <3>1. 0 \in Nat
      OBVIOUS
    <3> QED BY <1>1, <1>3, <1>4, <2>1, <3>1, DrawnKeeps
  <2> HIDE DEF g
  <2>3. Locks(g) /\ Asks(g) /\ g.rd.output = s.rd.output
    BY <1>3, <2>2, LocksRest DEF SameLocks
  <2> QED BY <1>6, <2>1, <2>2, <2>3
<1>17. CASE D!Collect
  <2> DEFINE g == D!SurfaceDrawn([s EXCEPT !.ui.zombies = Tail(@)], Head(s.ui.zombies))
  <2>1. D!Becomes(g) /\ UNCHANGED <<use_surfaces, wire>> /\ s.ui.zombies # <<>>
    BY <1>5, <1>17 DEF D!Collect, s
  <2>2. Books(g, use_surfaces, debt, 0) /\ SameLocks(s, g) /\ g.d.last = s.d.last
    BY <1>1, <1>3, <1>4, <2>1, CollectKeeps
  <2> HIDE DEF g
  <2>3. Locks(g) /\ Asks(g) /\ g.rd.output = s.rd.output
    BY <1>3, <2>2, LocksRest DEF SameLocks
  <2> QED BY <1>6, <2>1, <2>2, <2>3
<1>18. CASE D!Unuse
  <2>1. PICK o \in ui.unref : D!Becomes(D!ReturnResources([s EXCEPT !.ui.unref = @ \ {o}], o))
    BY <1>18 DEF D!Unuse, s
  <2> DEFINE g == D!ReturnResources([s EXCEPT !.ui.unref = @ \ {o}], o)
  <2>2. D!Becomes(g) /\ UNCHANGED <<use_surfaces, wire>> /\ o \in s.ui.unref
    BY <1>5, <1>18, <2>1 DEF D!Unuse
  <2>3. Books(g, use_surfaces, debt, 0) /\ SameLocks(s, g) /\ g.d.last = s.d.last
    BY <1>3, <2>2, ReturnKeeps
  <2> HIDE DEF g
  <2>4. Locks(g) /\ Asks(g) /\ g.rd.output = s.rd.output
    BY <1>3, <2>3, LocksRest DEF SameLocks
  <2> QED BY <1>6, <2>2, <2>3, <2>4
<1>19. CASE D!RendererResizes
  <2> DEFINE yes == TRUE
             no == FALSE
             r == [rd EXCEPT !.resize = no, !.size = rd.told, !.dirty = yes]
             g == [d |-> s.d, ui |-> s.ui, rd |-> r, back |-> s.back]
  <2>1. rd' = r /\ UNCHANGED <<d, use_surfaces, ui, wire, back>>
    BY <1>19 DEF D!RendererResizes
  <2>2. r = [rd EXCEPT !.resize = no, !.size = rd.told, !.dirty = yes]
    OBVIOUS
  <2>3. D!Becomes(g)
    BY <1>5, <2>1 DEF D!Becomes
  <2> HIDE DEF yes, no, r
  <2>4. /\ IsRenderer(r) /\ r.acks = s.rd.acks /\ r.swaps = s.rd.swaps /\ r.told = s.rd.told
        /\ r.size = s.rd.told /\ r.output = s.rd.output
    BY <1>3, <1>5, <2>2 DEF IsState, IsRenderer
  <2>5. IsView(s.ui) /\ IsHost(s.d) /\ s.ui.desired \in Sizes /\ s.rd.told \in Sizes /\ s.rd.output \in Outs
    BY <1>3 DEF IsState, Locks
  <2>6. g = [d |-> s.d, ui |-> s.ui, rd |-> r, back |-> s.back]
    OBVIOUS
  <2> HIDE DEF g
  <2>7. Books(g, use_surfaces, debt, 0) /\ Locks(g) /\ Asks(g) /\ g.d.last = s.d.last /\ g.rd = r
    BY <1>3, <2>4, <2>5, <2>6, ViewKeeps
  <2> QED BY <1>6, <2>1, <2>3, <2>4, <2>7
<1>20. CASE D!Paint
  BY <1>1, <1>20, PaintKeeps
<1>21. CASE D!RendererLosesOutput
  <2> DEFINE n == rd.output + 1
             yes == TRUE
             r == [rd EXCEPT !.output = n, !.dirty = yes]
             g == [d |-> s.d, ui |-> s.ui, rd |-> r, back |-> s.back]
  <2>1. rd' = r /\ n \in Outs /\ UNCHANGED <<d, use_surfaces, ui, wire, back>>
    BY <1>21 DEF D!RendererLosesOutput, D!Outputs, Outs
  <2>2. r = [rd EXCEPT !.output = n, !.dirty = yes]
    OBVIOUS
  <2>3. D!Becomes(g)
    BY <1>5, <2>1 DEF D!Becomes
  <2>8. s.rd.output \in Outs /\ n = s.rd.output + 1
    BY <1>3, <1>5 DEF Locks
  <2> HIDE DEF n, yes, r
  <2>4. /\ IsRenderer(r) /\ r.acks = s.rd.acks /\ r.swaps = s.rd.swaps /\ r.told = s.rd.told
        /\ r.size = s.rd.size /\ r.output = n
    BY <1>3, <1>5, <2>2 DEF IsState, IsRenderer
  <2>5. IsView(s.ui) /\ IsHost(s.d) /\ s.ui.desired \in Sizes /\ s.rd.size \in Sizes
    BY <1>3 DEF IsState, Locks
  <2>6. g = [d |-> s.d, ui |-> s.ui, rd |-> r, back |-> s.back]
    OBVIOUS
  <2> HIDE DEF g
  <2>7. Books(g, use_surfaces, debt, 0) /\ Locks(g) /\ Asks(g) /\ g.d.last = s.d.last /\ g.rd = r
    BY <1>3, <2>1, <2>4, <2>5, <2>6, ViewKeeps
  <2>9. Travels(wire, g.d.last, g.rd.output)
    <3>1. /\ wire \in Seq(Painted) /\ s.d.last <= s.rd.output
          /\ \A i \in DOMAIN wire : s.d.last <= wire[i].output /\ wire[i].output <= s.rd.output
          /\ \A i, j \in DOMAIN wire : i < j => wire[i].output <= wire[j].output
      BY <1>3 DEF Travels
    <3>2. \A i \in DOMAIN wire : wire[i].output \in Outs
      <4>1. \A i \in DOMAIN wire : wire[i] \in Painted
        BY <3>1
      <4> QED BY <4>1 DEF Painted
    <3>3. s.d.last \in {0} \cup Outs
      BY <1>3 DEF Books, Owing
    <3>4. \A x \in {0} \cup Outs : x <= s.rd.output => x <= n
      BY <2>8 DEF Outs
    <3>5. g.d.last = s.d.last /\ g.rd.output = n
      BY <2>4, <2>7
    <3> QED BY <3>1, <3>2, <3>3, <3>4, <3>5 DEF Travels
  <2>10. Home(g, use_surfaces, wire)
    BY <2>7, <2>9 DEF Home, debt
  <2> QED BY <2>1, <2>3, <2>10, BecomesKeeps
<1>22. CASE D!Receive
  BY <1>1, <1>22, ReceiveKeeps
<1> QED BY <1>7, <1>8, <1>9, <1>10, <1>11, <1>12, <1>13, <1>14, <1>15, <1>16, <1>17, <1>18, <1>19,
           <1>20, <1>21, <1>22 DEF D!Next

\* What the invariant says of the host's own words.
LEMMA HomeShows ==
  ASSUME HomeInv, D!HostAssumption
  PROVE  FramesGoHome
<1> DEFINE s == D!Now
           q == d.callbacks \o ui.zombies
<1>1. MaxOutputs \in Nat
  BY DEF D!HostAssumption
<1>2. /\ IsState(s) /\ Owing(s) /\ Ordered(s) /\ Accounts(s, Debts(wire), 0) /\ Locks(s) /\ Asks(s)
      /\ Travels(wire, s.d.last, s.rd.output)
  BY DEF HomeInv, Home, Books
<1>3. s.d = d /\ s.ui = ui /\ s.rd = rd /\ s.back = back
  BY DEF D!Now
<1> HIDE DEF s
<1>4. wire \in Seq(Painted) /\ d.callbacks \in Seq(Outs) /\ ui.zombies \in Seq(Outs) /\ d.draw \in {0} \cup Outs
  BY <1>2, <1>3 DEF Travels, Owing
<1>5. \A o : Held(s, o) \in Nat /\ Callbacks(s) \in Nat
  BY <1>2, HeldIsNat
<1>6. Debts(wire) \in [Outs -> Nat]
  BY <1>4, DebtsAreNat
<1>7. \A o \in Outs : rd.swaps[o] \in Nat /\ rd.acks[o] \in Nat /\ rd.swaps[o] - rd.acks[o] = Debts(wire)[o] + Held(s, o)
  BY <1>2, <1>3 DEF Owing, Accounts
<1>8. d.pending = Callbacks(s)
  <2>1. s.d.pending = Callbacks(s) + 0
    BY <1>2 DEF Accounts
  <2> QED BY <1>3, <1>5, <2>1
<1>9. \A X : D!Cardinality(X) = Cardinality(X)
  BY DEF D!Cardinality, Cardinality
<1>10. D!TypeOK
  <2>1. d.can_lock \in D!CanLock /\ d.expected \in {0} \cup Sizes /\ (d.held => d.expected # 0)
    BY <1>2, <1>3 DEF Locks
  <2>2. d.pending \in Nat
    BY <1>5, <1>8
  <2>3. ASSUME NEW o \in Outs PROVE rd.acks[o] \in 0 .. rd.swaps[o]
    <3> DEFINE a == rd.acks[o]
               w == rd.swaps[o]
               m == Debts(wire)[o]
               n == Held(s, o)
    <3>1. a \in Nat /\ w \in Nat /\ m \in Nat /\ n \in Nat /\ w - a = m + n
      BY <1>5, <1>6, <1>7
    <3> HIDE DEF a, w, m, n
    <3>2. a \in 0 .. w
      BY <3>1
    <3> QED BY <3>2 DEF a, w
  <2> QED BY <2>1, <2>2, <2>3 DEF D!TypeOK, D!Outputs, Outs
<1>11. D!EachFrameIsAnswered
  <2>1. ASSUME NEW o \in Outs PROVE D!Unacknowledged(o) = D!OnWire(o) + D!Waiting(o)
    <3>1. D!OnWire(o) = Debts(wire)[o]
      <4>1. {i \in DOMAIN wire : wire[i].output = o} = PlacesOf(wire, From(o))
        BY <1>4 DEF PlacesOf, From
      <4>2. D!OnWire(o) = Cardinality({i \in DOMAIN wire : wire[i].output = o})
        BY <1>9 DEF D!OnWire
      <4> QED BY <4>1, <4>2 DEF Debts, Number
    <3>2. D!Waiting(o) = Held(s, o)
      <4> DEFINE X == {0} \cup Outs
                 c == d.callbacks
                 z == ui.zombies
                 e == <<d.draw>>
      <4>1. c \in Seq(X) /\ z \in Seq(X) /\ e \in Seq(X) /\ c \o z \in Seq(X) /\ e = Append(<<>>, d.draw)
            /\ <<>> \in Seq(X) /\ d.draw \in X
        BY <1>4
      <4> HIDE DEF c, z, e, X
      <4>2. Number(c \o z \o e, {o}) = Number(c, {o}) + Number(z, {o}) + Number(e, {o})
        <5> DEFINE cz == c \o z
        <5>3. cz \in Seq(X) /\ e \in Seq(X)
          BY <4>1
        <5> HIDE DEF cz
        <5>4. Number(cz \o e, {o}) = Number(cz, {o}) + Number(e, {o})
          BY <5>3, NumberConcat
        <5>1. Number(c \o z \o e, {o}) = Number(c \o z, {o}) + Number(e, {o})
          BY <5>4 DEF cz
        <5>2. Number(c \o z, {o}) = Number(c, {o}) + Number(z, {o})
          BY <4>1, NumberConcat
        <5> QED BY <5>1, <5>2
      <4>3. Number(e, {o}) = Due(d.draw, o)
        <5>1. Number(e, {o}) = IF d.draw \in {o} THEN Number(<<>>, {o}) + 1 ELSE Number(<<>>, {o})
          <6> DEFINE x == d.draw
          <6>1. x \in X /\ <<>> \in Seq(X) /\ e = Append(<<>>, x)
            BY <4>1
          <6> HIDE DEF x
          <6>2. Number(Append(<<>>, x), {o}) = IF x \in {o} THEN Number(<<>>, {o}) + 1 ELSE Number(<<>>, {o})
            BY <6>1, NumberAppend
          <6> QED BY <6>1, <6>2 DEF x
        <5>2. Number(<<>>, {o}) = 0
          BY NumberEmpty
        <5> QED BY <5>1, <5>2 DEF Due
      <4>4. D!Waiting(o) = Number(c \o z \o e, {o})
        BY TimesIs DEF D!Waiting, c, z, e
      <4> QED BY <1>3, <4>2, <4>3, <4>4 DEF Held, c, z
    <3>3. D!Unacknowledged(o) = rd.swaps[o] - rd.acks[o]
      BY DEF D!Unacknowledged
    <3> QED BY <1>7, <3>1, <3>2, <3>3
  <2>2. d.pending = Len(d.callbacks) + Len(ui.zombies) + (IF d.draw # 0 THEN 1 ELSE 0)
    <3>1. 1 - Due(d.draw, 0) = IF d.draw # 0 THEN 1 ELSE 0
      BY DEF Due
    <3>2. Callbacks(s) = Len(d.callbacks) + Len(ui.zombies) + (1 - Due(d.draw, 0))
      BY <1>3 DEF Callbacks
    <3> QED BY <1>8, <3>1, <3>2
  <2> QED BY <2>1, <2>2 DEF D!EachFrameIsAnswered, D!Outputs, Outs
<1>12. D!OldResourcesKeepTheirName
  BY <1>2, <1>3 DEF Ordered, D!OldResourcesKeepTheirName
<1>13. D!LockAsksForItsFrame
  BY <1>2, <1>3 DEF Asks, D!LockAsksForItsFrame
<1> QED BY <1>10, <1>11, <1>12, <1>13 DEF FramesGoHome, D!FramesGoHome

\* Each frame of a renderer that sends no empty one is acknowledged once, under the output
\* it came from, and resources of an old output never go back under the name of a newer
\* one; a resize waits only for a frame that was asked for (DelegatedFrameHost,
\* delegated_frame_host.cc).
THEOREM FramesAreSafe ==
  ASSUME EmptyFrames = FALSE
  PROVE  Spec => []FramesGoHome
<1>0. D!HostAssumption
  BY AnswersAssumption
<1>1. Init => HomeInv
  BY <1>0, HomeInit DEF Init
<1>2. HomeInv /\ [Next]_vars => HomeInv'
  <2> SUFFICES ASSUME HomeInv, [Next]_vars PROVE HomeInv'
    OBVIOUS
  <2>1. CASE D!Next
    BY <1>0, <2>1, HomeNext
  <2>2. CASE UNCHANGED shownVars
    BY <2>2 DEF HomeInv, D!Now, shownVars
  <2> QED BY <2>1, <2>2 DEF Next, Life, Shown, Copy, Readback, vars
<1>3. HomeInv => FramesGoHome
  BY <1>0, HomeShows
<1> QED BY <1>1, <1>2, <1>3, PTL DEF Spec

===============================================================================
