-------------------------- MODULE Compositor_proofs --------------------------
(***************************************************************************)
(* Proofs about the parts of MCCompositor, for any number of frames and    *)
(* queries: what a frame reads is kept while the GPU or the display reads  *)
(* it, and what it drew is shown; every quad is drawn with the state of    *)
(* the GL context it was asked with; and both threads count every scroll   *)
(* once.                                                                   *)
(***************************************************************************)
EXTENDS MCCompositor, WellFoundedInduction, FiniteSetTheorems, FunctionTheorems, SequenceTheorems, TLAPS

(* Of some natural numbers one is the least.                               *)
LEMMA LeastNatural ==
  ASSUME NEW T, T \subseteq Nat, T # {}
  PROVE  \E n \in T : \A m \in T : n <= m
<1> DEFINE O == OpToRel(<, Nat)
<1>1. IsWellFoundedOn(O, Nat)
  BY NatLessThanWellFounded
<1>2. \A x, y \in Nat : <<y, x>> \in O <=> y < x
  BY DEF OpToRel
<1> HIDE DEF O
<1>3. PICK n \in T : \A m \in T : ~ (<<m, n>> \in O)
  BY <1>1, WFMin
<1>4. \A m \in T : ~ (m < n)
  BY <1>2, <1>3
<1> QED BY <1>4

(* The end of a sequence, and a sequence followed by the front of another. *)
LEMMA RestShape ==
  ASSUME NEW X, NEW s \in Seq(X), NEW n \in 0 .. Len(s)
  PROVE  LET r == SubSeq(s, n + 1, Len(s))
         IN  /\ Len(r) = Len(s) - n /\ r \in Seq(X) /\ DOMAIN r = 1 .. Len(s) - n
             /\ \A i \in 1 .. Len(s) - n : r[i] = s[n + i] /\ n + i \in 1 .. Len(s)
<1>1. Len(s) \in Nat /\ n \in Nat /\ n <= Len(s)
  OBVIOUS
<1>2. \A i \in 1 .. Len(s) - n : n + i \in 1 .. Len(s) /\ n + 1 + i - 1 = n + i
  BY <1>1
<1>3. \A i \in n + 1 .. Len(s) : s[i] \in X
  BY <1>1
<1>4. /\ SubSeq(s, n + 1, Len(s)) \in Seq(X)
      /\ Len(SubSeq(s, n + 1, Len(s))) = IF n + 1 <= Len(s) THEN Len(s) - (n + 1) + 1 ELSE 0
  BY <1>1, <1>3, SubSeqProperties
<1>5. Len(SubSeq(s, n + 1, Len(s))) = Len(s) - n
  BY <1>1, <1>4
<1>6. \A i \in 1 .. Len(s) - n : SubSeq(s, n + 1, Len(s))[i] = s[n + i]
  BY <1>1, <1>2
<1> QED BY <1>2, <1>4, <1>5, <1>6

LEMMA FrontAfter ==
  ASSUME NEW X, NEW a \in Seq(X), NEW s \in Seq(X), NEW n \in 0 .. Len(s)
  PROVE  LET r == a \o SubSeq(s, 1, n)
         IN  /\ Len(r) = Len(a) + n /\ r \in Seq(X) /\ DOMAIN r = 1 .. Len(a) + n
             /\ \A i \in 1 .. Len(a) : r[i] = a[i]
             /\ \A i \in 1 .. n : r[Len(a) + i] = s[i]
<1> DEFINE v == SubSeq(s, 1, n)
<1>1. v \in Seq(X) /\ Len(v) = n /\ \A i \in 1 .. n : v[i] = s[i]
  OBVIOUS
<1> HIDE DEF v
<1> DEFINE r == a \o v
<1>2. /\ r \in Seq(X) /\ Len(r) = Len(a) + Len(v)
      /\ \A i \in 1 .. Len(a) + Len(v) : r[i] = IF i <= Len(a) THEN a[i] ELSE v[i - Len(a)]
  BY <1>1, ConcatProperties
<1> HIDE DEF r
<1>3. Len(a) \in Nat /\ n \in Nat
  OBVIOUS
<1>4. Len(r) = Len(a) + n /\ DOMAIN r = 1 .. Len(a) + n
  BY <1>1, <1>2
<1>5. \A i \in 1 .. Len(a) : r[i] = a[i]
  BY <1>1, <1>2, <1>3
<1>6. \A i \in 1 .. n : r[Len(a) + i] = s[i]
  <2> TAKE i \in 1 .. n
  <2>1. Len(a) + i \in 1 .. Len(a) + Len(v) /\ ~ (Len(a) + i <= Len(a)) /\ (Len(a) + i) - Len(a) = i
    BY <1>1, <1>3
  <2> QED BY <1>1, <1>2, <2>1
<1> QED BY <1>2, <1>4, <1>5, <1>6 DEF r, v

-----------------------------------------------------------------------------
(* The queries and overlays of the frames.                                 *)

Limit  == kMaxPendingSyncQueries
Frames == R!Frames

FramesTyped ==
  /\ can \in [partial : BOOLEAN, empty : BOOLEAN, release : BOOLEAN]
  /\ phase \in {"idle", "drawing", "drawn"}
  /\ number \in 0 .. MaxFrames /\ finished \in 0 .. number
  /\ phase = "drawing" => finished < number
  /\ swap_rect \subseteq Regions /\ behind \subseteq Regions
  /\ overlays \in [pending : SUBSET Frames, swapped : Seq(SUBSET Frames)]
  /\ queries \in [pending : Seq(Frames), available : Seq(Frames), current : 0 .. MaxFrames]
  /\ query \in [Frames -> [frame : 0 .. MaxFrames, pending : BOOLEAN]]
  /\ display \in [swaps : {0, 1}, shown : 0 .. MaxFrames, discarded : BOOLEAN, full : BOOLEAN]
  /\ fence \in [Frames -> 0 .. MaxFrames]

\* The GPU has passed a query that can be used again.
Passed(q) == ~ query[q].pending \/ query[q].frame <= finished

\* A query is at one place: begun, ended, in the order of the frames, or available; and
\* there is room for the one of the frame that is drawn.
QueriesSound ==
  LET p == queries.pending
      a == queries.available
      c == queries.current
      drawn == IF phase = "drawing" THEN number - 1 ELSE number
  IN  /\ \A i \in DOMAIN p : p[i] <= number /\ query[p[i]].frame <= drawn
      /\ \A i, k \in DOMAIN p : i < k => query[p[i]].frame < query[p[k]].frame
      /\ \A i \in DOMAIN a : a[i] <= number /\ Passed(a[i])
      /\ \A i, k \in DOMAIN a : a[i] = a[k] => i = k
      /\ \A i \in DOMAIN p, k \in DOMAIN a : p[i] # a[k]
      /\ \A i \in DOMAIN p : p[i] # c
      /\ \A i \in DOMAIN a : a[i] # c
      /\ IF phase = "drawing" THEN c # 0 /\ c <= number /\ query[c].frame = number ELSE c = 0
      /\ Len(p) <= Limit - (IF phase = "drawing" THEN 1 ELSE 0)

\* While the GPU reads a frame the query of its fence is begun for no other.
FencesKept ==
  \A f \in Frames :
    fence[f] # 0 =>
      /\ f <= number /\ fence[f] <= number
      /\ f <= finished \/ (query[fence[f]].frame = f /\ query[fence[f]].pending)

\* The frame swapped last, and the one on screen.
Swapped == IF phase = "idle" THEN number ELSE number - 1

\* The last two frames that were swapped keep their overlays, the next has them too.
OverlaysKept ==
  /\ display.swaps = 1 => phase = "idle" /\ number > 0
  /\ display.shown = Swapped - display.swaps
  /\ phase = "drawn" => number \in overlays.pending
  /\ phase # "idle" => number > 0
  /\ ~ can.release =>
       LET s == overlays.swapped
           n == Len(s)
       IN  /\ Swapped > 0 => n > 0 /\ Swapped \in s[n]
           /\ Swapped > 1 => n > 1 /\ Swapped - 1 \in s[n - 1]

\* What was drawn and not swapped is in the rectangle, or everything will be drawn.
DamageKept ==
  /\ display.full \/ behind \subseteq swap_rect
  /\ phase = "idle" => swap_rect = {}
  /\ phase = "drawn" => ~ display.full

Resources == FramesTyped /\ QueriesSound /\ FencesKept /\ OverlaysKept /\ DamageKept

LEMMA Bounds == Limit \in Nat \ {0} /\ MaxFrames \in Nat /\ Frames = 1 .. MaxFrames
  BY CompositorAssumption DEF R!FrameAssumption, Limit, Frames, R!Frames

LEMMA ResourcesInit == R!Init => Resources
<1> SUFFICES ASSUME R!Init PROVE Resources
  OBVIOUS
<1>1. FramesTyped
  BY Bounds DEF R!Init, FramesTyped, Frames
<1>2. QueriesSound
  BY Bounds DEF R!Init, QueriesSound
<1>3. FencesKept
  BY Bounds DEF R!Init, FencesKept, Frames
<1>4. OverlaysKept /\ DamageKept
  BY DEF R!Init, OverlaysKept, DamageKept, Swapped
<1> QED BY <1>1, <1>2, <1>3, <1>4 DEF Resources
-----------------------------------------------------------------------------
(* A frame begins: the queries that are done can be used again.            *)

LEMMA QueryShape ==
  ASSUME FramesTyped, NEW q \in Frames
  PROVE  query[q].frame \in Nat /\ query[q].frame <= MaxFrames /\ query[q].pending \in BOOLEAN
<1>1. query[q] \in [frame : 0 .. MaxFrames, pending : BOOLEAN]
  BY DEF FramesTyped
<1> QED BY <1>1, Bounds

LEMMA DoneShape ==
  ASSUME FramesTyped, NEW seq \in Seq(Frames), NEW done \in Nat
  PROVE  LET n == R!Done(seq, done)
         IN  /\ n \in 0 .. Len(seq)
             /\ \A i \in 1 .. n : ~ query[seq[i]].pending \/ query[seq[i]].frame <= done
             /\ n < Len(seq) => query[seq[n + 1]].pending /\ query[seq[n + 1]].frame > done
<1> DEFINE Open(i) == query[seq[i]].pending /\ query[seq[i]].frame > done
           T == {n \in 0 .. Len(seq) : n < Len(seq) => Open(n + 1)}
<1>1. Len(seq) \in Nat /\ T \subseteq Nat /\ Len(seq) \in T
  OBVIOUS
<1>2. PICK n \in T : \A m \in T : n <= m
  <2> HIDE DEF T
  <2> QED BY <1>1, LeastNatural
<1>3. n \in 0 .. Len(seq) /\ (n < Len(seq) => Open(n + 1))
  BY <1>2
<1>4. \A i \in 1 .. n : ~ Open(i)
  <2> SUFFICES ASSUME NEW i \in 1 .. n, Open(i) PROVE FALSE
    OBVIOUS
  <2>1. i - 1 \in 0 .. Len(seq) /\ (i - 1) + 1 = i
    BY <1>1, <1>3
  <2>2. i - 1 \in T
    <3> HIDE DEF Open
    <3> QED BY <2>1
  <2>3. n <= i - 1
    BY <1>2, <2>2
  <2> QED BY <1>1, <1>3, <2>3
<1>5. \A i \in 1 .. Len(seq) :
        ~ Open(i) <=> ~ query[seq[i]].pending \/ query[seq[i]].frame <= done
  <2> TAKE i \in 1 .. Len(seq)
  <2>1. query[seq[i]].frame \in Nat
    <3>1. seq[i] \in Frames
      OBVIOUS
    <3> QED BY <3>1, QueryShape
  <2> QED BY <2>1
<1>6. /\ n \in 0 .. Len(seq)
      /\ \A i \in 1 .. n : ~ query[seq[i]].pending \/ query[seq[i]].frame <= done
      /\ n < Len(seq) => query[seq[n + 1]].pending /\ query[seq[n + 1]].frame > done
  BY <1>1, <1>3, <1>4, <1>5
<1> QED BY <1>6 DEF R!Done

\* What is waited for: the oldest query, if there is no room for another.
LEMMA WaitShape ==
  ASSUME Resources
  PROVE  /\ R!Wait \in 0 .. number /\ finished <= R!Wait
         /\ (phase = "idle" /\ Len(queries.pending) >= Limit) =>
              /\ queries.pending # <<>>
              /\ \/ ~ query[queries.pending[1]].pending
                 \/ query[queries.pending[1]].frame <= R!Wait
<1> DEFINE p == queries.pending
<1>1. /\ p \in Seq(Frames) /\ Len(p) \in Nat /\ finished \in 0 .. number /\ number \in Nat
  <2>1. FramesTyped
    BY DEF Resources
  <2>2. p \in Seq(Frames) /\ finished \in 0 .. number /\ number \in 0 .. MaxFrames
    BY <2>1 DEF FramesTyped
  <2> QED BY <2>2, Bounds
<1>2. \A i \in 1 .. Len(p) : query[p[i]].frame \in Nat /\ query[p[i]].frame <= number
  <2> TAKE i \in 1 .. Len(p)
  <2>1. i \in DOMAIN p /\ p[i] \in Frames
    BY <1>1
  <2>2. query[p[i]].frame \in Nat
    BY <2>1, QueryShape DEF Resources
  <2>3. query[p[i]].frame <= (IF phase = "drawing" THEN number - 1 ELSE number)
    BY <2>1 DEF Resources, QueriesSound
  <2> QED BY <1>1, <2>2, <2>3
<1>3. Len(p) >= Limit => p # <<>> /\ 1 \in 1 .. Len(p) /\ Head(p) = p[1]
  BY <1>1, Bounds
<1> HIDE DEF p
<1>4. R!Wait = IF Len(p) >= Limit /\ query[Head(p)].pending /\ query[Head(p)].frame > finished
               THEN query[Head(p)].frame ELSE finished
  BY DEF R!Wait, R!IsPending, p, Limit
<1>5. R!Wait \in 0 .. number /\ finished <= R!Wait
  BY <1>1, <1>2, <1>3, <1>4
<1>6. Len(p) >= Limit => ~ query[p[1]].pending \/ query[p[1]].frame <= R!Wait
  BY <1>1, <1>2, <1>3, <1>4
<1> QED BY <1>3, <1>5, <1>6 DEF p

LEMMA ResourcesBegin == Resources /\ R!BeginDrawingFrame => Resources'
<1> SUFFICES ASSUME Resources, R!BeginDrawingFrame PROVE Resources'
  OBVIOUS
<1> DEFINE p == queries.pending
           a == queries.available
           f == number + 1
           done == R!Wait
           n == R!Done(p, done)
           avail == a \o SubSeq(p, 1, n)
           q == IF avail = <<>> THEN f ELSE Head(avail)
           rest == SubSeq(p, n + 1, Len(p))
           left == IF avail = <<>> THEN <<>> ELSE Tail(avail)
<1>1. /\ phase = "idle" /\ display.swaps = 0 /\ number < MaxFrames
      /\ finished' = done /\ number' = f /\ phase' = "drawing"
      /\ queries' = [pending |-> rest, available |-> left, current |-> q]
      /\ UNCHANGED <<can, swap_rect, overlays, visible, display, behind>>
  BY DEF R!BeginDrawingFrame
<1>2. PICK read \in BOOLEAN :
        /\ query' = [query EXCEPT ![q] = [frame |-> f, pending |-> read]]
        /\ fence' = [fence EXCEPT ![f] = IF read THEN q ELSE 0]
  BY DEF R!BeginDrawingFrame, R!Begin
<1>3. /\ FramesTyped /\ QueriesSound /\ FencesKept /\ OverlaysKept /\ DamageKept
      /\ p \in Seq(Frames) /\ a \in Seq(Frames) /\ Len(p) \in Nat /\ Len(a) \in Nat
      /\ DOMAIN p = 1 .. Len(p) /\ DOMAIN a = 1 .. Len(a)
      /\ number \in Nat /\ f \in Frames /\ finished \in 0 .. number
      /\ query \in [Frames -> [frame : 0 .. MaxFrames, pending : BOOLEAN]]
      /\ fence \in [Frames -> 0 .. MaxFrames]
      /\ queries.current = 0
  <2>1. FramesTyped /\ QueriesSound /\ FencesKept /\ OverlaysKept /\ DamageKept
    BY DEF Resources
  <2>2. p \in Seq(Frames) /\ a \in Seq(Frames)
    BY <2>1 DEF FramesTyped
  <2>3. /\ Len(p) \in Nat /\ Len(a) \in Nat
        /\ DOMAIN p = 1 .. Len(p) /\ DOMAIN a = 1 .. Len(a)
    BY <2>2
  <2>4. number \in Nat /\ f \in Frames /\ finished \in 0 .. number
    BY <1>1, <2>1, Bounds DEF FramesTyped
  <2>5. /\ query \in [Frames -> [frame : 0 .. MaxFrames, pending : BOOLEAN]]
        /\ fence \in [Frames -> 0 .. MaxFrames]
    BY <2>1 DEF FramesTyped
  <2>6. queries.current = 0
    BY <1>1, <2>1 DEF QueriesSound
  <2> QED BY <2>1, <2>2, <2>3, <2>4, <2>5, <2>6
<1>31. /\ \A i \in 1 .. Len(p) : /\ p[i] \in Frames /\ p[i] <= number
                                 /\ query[p[i]].frame <= number /\ query[p[i]].frame \in Nat
       /\ \A i, k \in 1 .. Len(p) : i < k => query[p[i]].frame < query[p[k]].frame
       /\ \A i \in 1 .. Len(a) : a[i] \in Frames /\ a[i] <= number /\ Passed(a[i])
       /\ \A i, k \in 1 .. Len(a) : a[i] = a[k] => i = k
       /\ \A i \in 1 .. Len(p), k \in 1 .. Len(a) : p[i] # a[k]
       /\ Len(p) <= Limit
  <2>1. \A i \in 1 .. Len(p) : p[i] \in Frames
    BY <1>3
  <2>2. \A i \in 1 .. Len(a) : a[i] \in Frames
    BY <1>3
  <2>3. \A i \in 1 .. Len(p) : query[p[i]].frame \in Nat
    BY <1>3, <2>1, QueryShape
  <2>4. /\ \A i \in DOMAIN p : p[i] <= number /\ query[p[i]].frame <= number
        /\ \A i, k \in DOMAIN p : i < k => query[p[i]].frame < query[p[k]].frame
        /\ \A i \in DOMAIN a : a[i] <= number /\ Passed(a[i])
        /\ \A i, k \in DOMAIN a : a[i] = a[k] => i = k
        /\ \A i \in DOMAIN p, k \in DOMAIN a : p[i] # a[k]
        /\ Len(p) <= Limit - 0
    BY <1>1, <1>3 DEF QueriesSound
  <2>5. DOMAIN p = 1 .. Len(p) /\ DOMAIN a = 1 .. Len(a)
    BY <1>3
  <2>6. Len(p) <= Limit
    BY <2>4, Bounds
  <2> HIDE DEF p, a
  <2>7. \A i \in 1 .. Len(p) : p[i] <= number /\ query[p[i]].frame <= number
    BY <2>4, <2>5
  <2>8. \A i, k \in 1 .. Len(p) : i < k => query[p[i]].frame < query[p[k]].frame
    BY <2>4, <2>5
  <2>9. /\ \A i \in 1 .. Len(a) : a[i] <= number /\ Passed(a[i])
        /\ \A i, k \in 1 .. Len(a) : a[i] = a[k] => i = k
        /\ \A i \in 1 .. Len(p), k \in 1 .. Len(a) : p[i] # a[k]
    BY <2>4, <2>5
  <2> QED BY <2>1, <2>2, <2>3, <2>6, <2>7, <2>8, <2>9
<1> HIDE DEF p, a
<1>4. /\ done \in 0 .. number /\ finished <= done
      /\ Len(p) >= Limit => p # <<>> /\ (~ query[p[1]].pending \/ query[p[1]].frame <= done)
  BY <1>1, WaitShape DEF p
<1>5. /\ n \in 0 .. Len(p)
      /\ \A i \in 1 .. n : ~ query[p[i]].pending \/ query[p[i]].frame <= done
      /\ n < Len(p) => query[p[n + 1]].pending /\ query[p[n + 1]].frame > done
  <2>1. done \in Nat
    BY <1>3, <1>4
  <2> HIDE DEF done
  <2> QED BY <1>3, <2>1, DoneShape
<1> HIDE DEF done, n
\* The two sequences, before and after.
<1>6. /\ Len(avail) = Len(a) + n /\ avail \in Seq(Frames) /\ DOMAIN avail = 1 .. Len(a) + n
      /\ \A i \in 1 .. Len(a) : avail[i] = a[i]
      /\ \A i \in 1 .. n : avail[Len(a) + i] = p[i]
  <2>1. p \in Seq(Frames) /\ a \in Seq(Frames) /\ n \in 0 .. Len(p)
    BY <1>3, <1>5
  <2> QED BY <2>1, FrontAfter
<1>7. /\ Len(rest) = Len(p) - n /\ rest \in Seq(Frames) /\ DOMAIN rest = 1 .. Len(p) - n
      /\ \A i \in 1 .. Len(p) - n : rest[i] = p[n + i] /\ n + i \in 1 .. Len(p)
  <2>1. p \in Seq(Frames) /\ n \in 0 .. Len(p)
    BY <1>3, <1>5
  <2> QED BY <2>1, RestShape
<1> HIDE DEF avail, rest
<1>8. /\ \A i \in 1 .. Len(avail) :
           /\ avail[i] \in Frames /\ avail[i] <= number
           /\ ~ query[avail[i]].pending \/ query[avail[i]].frame <= done
      /\ \A i, k \in 1 .. Len(avail) : avail[i] = avail[k] => i = k
      /\ \A i \in 1 .. Len(rest), k \in 1 .. Len(avail) : rest[i] # avail[k]
  <2>1. \A i \in 1 .. Len(p), k \in 1 .. Len(p) : p[i] = p[k] => i = k
    <3> SUFFICES ASSUME NEW i \in 1 .. Len(p), NEW k \in 1 .. Len(p), p[i] = p[k], i < k PROVE FALSE
      BY <1>3
    <3>1. query[p[i]].frame < query[p[k]].frame /\ query[p[i]].frame \in Nat
      BY <1>31
    <3> QED BY <3>1
  <2>2. \A i \in 1 .. Len(avail) :
          \/ i \in 1 .. Len(a) /\ avail[i] = a[i]
          \/ i - Len(a) \in 1 .. n /\ i - Len(a) \in 1 .. Len(p) /\ avail[i] = p[i - Len(a)]
    <3> TAKE i \in 1 .. Len(avail)
    <3>1. CASE i <= Len(a)
      BY <1>3, <1>5, <1>6, <3>1
    <3>2. CASE i > Len(a)
      <4>1. \A x, y, z, w \in Nat : x > y /\ x <= y + z /\ z <= w
              => x - y \in 1 .. z /\ x - y \in 1 .. w /\ y + (x - y) = x
        OBVIOUS
      <4>2. i \in Nat /\ Len(a) \in Nat /\ n \in Nat /\ Len(p) \in Nat /\ i <= Len(a) + n /\ n <= Len(p)
        BY <1>3, <1>5, <1>6
      <4>3. i - Len(a) \in 1 .. n /\ i - Len(a) \in 1 .. Len(p) /\ Len(a) + (i - Len(a)) = i
        BY <3>2, <4>1, <4>2
      <4> QED BY <1>6, <4>3
    <3> QED BY <1>3, <3>1, <3>2
  <2>3. \A i \in 1 .. Len(a) :
          /\ a[i] \in Frames /\ a[i] <= number
          /\ ~ query[a[i]].pending \/ query[a[i]].frame <= done
    <3> TAKE i \in 1 .. Len(a)
    <3>1. a[i] \in Frames /\ a[i] <= number /\ (~ query[a[i]].pending \/ query[a[i]].frame <= finished)
      BY <1>31 DEF Passed
    <3>2. query[a[i]].frame \in Nat
      BY <1>3, <3>1, QueryShape
    <3> QED BY <1>3, <1>4, <3>1, <3>2
  <2>4. \A i \in 1 .. Len(p) : p[i] \in Frames /\ p[i] <= number
    BY <1>31
  <2>5. /\ \A i, k \in 1 .. Len(a) : a[i] = a[k] => i = k
        /\ \A i \in 1 .. Len(p), k \in 1 .. Len(a) : p[i] # a[k]
    BY <1>31
  <2>6. \A i \in 1 .. Len(avail) :
           /\ avail[i] \in Frames /\ avail[i] <= number
           /\ ~ query[avail[i]].pending \/ query[avail[i]].frame <= done
    BY <1>5, <2>2, <2>3, <2>4
  <2>7. \A i, k \in 1 .. Len(avail) : avail[i] = avail[k] => i = k
    <3> TAKE i, k \in 1 .. Len(avail)
    <3>1. i \in Int /\ k \in Int /\ Len(a) \in Int
      BY <1>3
    <3> QED BY <2>1, <2>2, <2>5, <3>1
  <2>8. \A i \in 1 .. Len(rest), k \in 1 .. Len(avail) : rest[i] # avail[k]
    <3> TAKE i \in 1 .. Len(rest), k \in 1 .. Len(avail)
    <3>1. rest[i] = p[n + i] /\ n + i \in 1 .. Len(p) /\ n + i > n
      BY <1>3, <1>5, <1>7
    <3>2. CASE k \in 1 .. Len(a) /\ avail[k] = a[k]
      BY <2>5, <3>1, <3>2
    <3>3. CASE k - Len(a) \in 1 .. n /\ k - Len(a) \in 1 .. Len(p) /\ avail[k] = p[k - Len(a)]
      <4>1. k - Len(a) # n + i
        BY <1>5, <3>1, <3>3
      <4> QED BY <2>1, <3>1, <3>3, <4>1
    <3> QED BY <2>2, <3>2, <3>3
  <2> QED BY <2>6, <2>7, <2>8
\* The query of this frame is at no other place.
<1>9. /\ left \in Seq(Frames) /\ Len(left) \in Nat /\ DOMAIN left = 1 .. Len(left)
      /\ \A i \in 1 .. Len(left) : i + 1 \in 1 .. Len(avail) /\ left[i] = avail[i + 1]
      /\ \/ avail = <<>> /\ q = f
         \/ 1 \in 1 .. Len(avail) /\ q = avail[1]
  <2>1. CASE avail = <<>>
    BY <1>3, <2>1
  <2>2. CASE avail # <<>>
    <3>1. /\ Len(avail) \in Nat \ {0} /\ Tail(avail) \in Seq(Frames) /\ Len(Tail(avail)) = Len(avail) - 1
          /\ \A i \in 1 .. Len(avail) - 1 : Tail(avail)[i] = avail[i + 1]
          /\ Head(avail) = avail[1]
      BY <1>6, <2>2
    <3> QED BY <2>2, <3>1
  <2> QED BY <2>1, <2>2
<1> HIDE DEF left, q
<1>10. /\ q \in Frames /\ q <= f
       /\ \A i \in 1 .. Len(rest) : rest[i] # q
       /\ \A i \in 1 .. Len(left) : left[i] # q
  <2>1. \A i \in 1 .. Len(rest) : rest[i] \in Frames /\ rest[i] <= number
    BY <1>7, <1>31
  <2>2. CASE avail = <<>> /\ q = f
    <3>1. Len(avail) = 0
      BY <2>2
    <3>2. \A i \in 1 .. Len(left) : FALSE
      BY <1>9, <3>1
    <3>3. \A i \in 1 .. Len(rest) : rest[i] # f
      BY <1>3, <2>1, Bounds
    <3> QED BY <1>3, <2>2, <3>2, <3>3
  <2>3. CASE 1 \in 1 .. Len(avail) /\ q = avail[1]
    <3>1. q \in Frames /\ q <= number
      BY <1>8, <2>3
    <3>2. \A i \in 1 .. Len(left) : left[i] # q
      <4> TAKE i \in 1 .. Len(left)
      <4>1. i + 1 # 1
        OBVIOUS
      <4> QED BY <1>8, <1>9, <2>3, <4>1
    <3>3. \A i \in 1 .. Len(rest) : rest[i] # q
      BY <1>8, <2>3
    <3> QED BY <1>3, <3>1, <3>2, <3>3, Bounds
  <2> QED BY <1>9, <2>2, <2>3
<1>11. /\ query'[q] = [frame |-> f, pending |-> read]
       /\ \A r \in Frames : r # q => query'[r] = query[r]
       /\ query' \in [Frames -> [frame : 0 .. MaxFrames, pending : BOOLEAN]]
  <2>1. f \in 0 .. MaxFrames
    BY <1>3, Bounds
  <2> QED BY <1>2, <1>3, <1>10, <2>1
<1>12. /\ fence'[f] = (IF read THEN q ELSE 0)
       /\ \A g \in Frames : g # f => fence'[g] = fence[g]
       /\ fence' \in [Frames -> 0 .. MaxFrames]
  <2>1. q \in 0 .. MaxFrames /\ 0 \in 0 .. MaxFrames
    BY <1>10, Bounds
  <2> QED BY <1>2, <1>3, <2>1
<1>13. FramesTyped'
  <2>1. /\ queries' \in [pending : Seq(Frames), available : Seq(Frames), current : 0 .. MaxFrames]
    BY <1>1, <1>7, <1>9, <1>10, Bounds
  <2>2. number' \in 0 .. MaxFrames /\ finished' \in 0 .. number' /\ finished' < number'
    BY <1>1, <1>3, <1>4, Bounds
  <2>3. phase' \in {"idle", "drawing", "drawn"}
    BY <1>1
  <2> QED BY <1>1, <1>3, <1>11, <1>12, <2>1, <2>2, <2>3 DEF FramesTyped
<1>14. QueriesSound'
  <2>1. queries'.pending = rest /\ queries'.available = left /\ queries'.current = q
    BY <1>1
  <2>2. \A i \in 1 .. Len(rest) : rest[i] <= f /\ query'[rest[i]].frame <= f - 1
    <3> TAKE i \in 1 .. Len(rest)
    <3>1. /\ rest[i] \in Frames /\ rest[i] <= number
          /\ query[rest[i]].frame <= number /\ query[rest[i]].frame \in Nat
      BY <1>7, <1>31
    <3>2. query'[rest[i]] = query[rest[i]]
      BY <1>10, <1>11, <3>1
    <3> QED BY <1>3, <3>1, <3>2, Bounds
  <2>3. \A i, k \in 1 .. Len(rest) : i < k => query'[rest[i]].frame < query'[rest[k]].frame
    <3> SUFFICES ASSUME NEW i \in 1 .. Len(rest), NEW k \in 1 .. Len(rest), i < k
                 PROVE  query'[rest[i]].frame < query'[rest[k]].frame
      OBVIOUS
    <3>1. /\ rest[i] = p[n + i] /\ rest[k] = p[n + k]
          /\ n + i \in 1 .. Len(p) /\ n + k \in 1 .. Len(p)
      BY <1>7
    <3>4. n + i < n + k
      BY <1>5
    <3>2. query[rest[i]].frame < query[rest[k]].frame
      BY <1>31, <3>1, <3>4
    <3>3. query'[rest[i]] = query[rest[i]] /\ query'[rest[k]] = query[rest[k]]
      BY <1>7, <1>10, <1>11
    <3> QED BY <3>2, <3>3
  <2>4. \A i \in 1 .. Len(left) :
          /\ left[i] <= f
          /\ ~ query'[left[i]].pending \/ query'[left[i]].frame <= done
    <3> TAKE i \in 1 .. Len(left)
    <3>1. /\ left[i] \in Frames /\ left[i] <= number
          /\ ~ query[left[i]].pending \/ query[left[i]].frame <= done
      BY <1>8, <1>9
    <3>2. query'[left[i]] = query[left[i]]
      BY <1>10, <1>11, <3>1
    <3> QED BY <1>3, <3>1, <3>2, Bounds
  <2>5. \A i, k \in 1 .. Len(left) : left[i] = left[k] => i = k
    <3> TAKE i, k \in 1 .. Len(left)
    <3>1. i + 1 = k + 1 => i = k
      BY <1>9
    <3> QED BY <1>8, <1>9, <3>1
  <2>6. \A i \in 1 .. Len(rest), k \in 1 .. Len(left) : rest[i] # left[k]
    BY <1>8, <1>9
  <2>7. q # 0 /\ q <= f /\ query'[q].frame = f
    BY <1>10, <1>11, Bounds
  <2>8. Len(rest) <= Limit - 1
    <3>1. CASE Len(p) >= Limit
      <4>1. n >= 1
        <5> SUFFICES ASSUME n = 0 PROVE FALSE
          BY <1>3, <1>5
        <5>1. n < Len(p) /\ n + 1 = 1 /\ 1 \in 1 .. Len(p)
          BY <1>3, <3>1, Bounds
        <5>2. query[p[1]].pending /\ query[p[1]].frame > done
          BY <1>5, <5>1
        <5>3. query[p[1]].frame \in Nat
          BY <1>31, <5>1
        <5> QED BY <1>3, <1>4, <3>1, <5>2, <5>3
      <4>2. Len(p) <= Limit
        BY <1>31
      <4> QED BY <1>3, <1>5, <1>7, <4>1, <4>2, Bounds
    <3>2. CASE Len(p) < Limit
      BY <1>3, <1>5, <1>7, <3>2, Bounds
    <3> QED BY <1>3, <3>1, <3>2, Bounds
  <2> QED BY <1>1, <1>7, <1>9, <1>10, <2>1, <2>2, <2>3, <2>4, <2>5, <2>6, <2>7, <2>8
         DEF QueriesSound, Passed
<1>15. FencesKept'
  <2> SUFFICES ASSUME NEW g \in Frames, fence'[g] # 0
               PROVE  /\ g <= f /\ fence'[g] <= f
                      /\ g <= done \/ (query'[fence'[g]].frame = g /\ query'[fence'[g]].pending)
    BY <1>1 DEF FencesKept
  <2>1. CASE g = f
    <3>1. read /\ fence'[g] = q
      BY <1>12, <2>1
    <3> QED BY <1>3, <1>10, <1>11, <2>1, <3>1, Bounds
  <2>2. CASE g # f
    <3>1. fence'[g] = fence[g] /\ fence[g] \in Frames
      BY <1>3, <1>12, <2>2, Bounds
    <3>2. /\ g <= number /\ fence[g] <= number
          /\ g <= finished \/ (query[fence[g]].frame = g /\ query[fence[g]].pending)
      BY <1>3, <3>1 DEF FencesKept
    <3>3. g <= f /\ fence[g] <= f
      BY <1>3, <3>1, <3>2, Bounds
    <3>4. CASE g <= finished
      BY <1>3, <1>4, <3>1, <3>3, <3>4, Bounds
    <3>5. CASE query[fence[g]].frame = g /\ query[fence[g]].pending
      <4>1. CASE fence[g] # q
        BY <1>11, <3>1, <3>3, <3>5, <4>1
      <4>2. CASE fence[g] = q
        <5>1. q <= number /\ q # f
          BY <1>3, <3>2, <4>2, Bounds
        <5>2. 1 \in 1 .. Len(avail) /\ q = avail[1]
          BY <1>9, <5>1
        <5>3. query[q].frame <= done
          BY <1>8, <3>5, <4>2, <5>2
        <5> QED BY <3>1, <3>3, <3>5, <4>2, <5>3
      <4> QED BY <4>1, <4>2
    <3> QED BY <3>2, <3>4, <3>5
  <2> QED BY <2>1, <2>2
<1>16. OverlaysKept'
  <2>1. Swapped' = Swapped /\ number' > 0
    BY <1>1, <1>3 DEF Swapped
  <2> QED BY <1>1, <1>3, <2>1 DEF OverlaysKept
<1>17. DamageKept'
  BY <1>1, <1>3 DEF DamageKept
<1> QED BY <1>13, <1>14, <1>15, <1>16, <1>17 DEF Resources
-----------------------------------------------------------------------------
(* It is drawn, swapped and shown.                                         *)

LEMMA ResourcesFinish == Resources /\ R!FinishDrawingFrame => Resources'
<1> SUFFICES ASSUME Resources, R!FinishDrawingFrame PROVE Resources'
  OBVIOUS
<1> DEFINE p == queries.pending
           c == queries.current
           u == Append(p, c)
<1>1. /\ phase = "drawing" /\ phase' = "drawn"
      /\ queries' = [queries EXCEPT !.pending = u, !.current = 0]
      /\ overlays' = [overlays EXCEPT !.pending = @ \cup {number}]
      /\ display' = [display EXCEPT !.full = FALSE]
      /\ UNCHANGED <<can, number, query, visible, finished, fence>>
  BY DEF R!FinishDrawingFrame, R!Schedule
<1>2. PICK damage \in SUBSET Regions :
        LET all == IF display.full THEN Regions ELSE damage
        IN swap_rect' = swap_rect \cup all /\ behind' = behind \cup all
  BY DEF R!FinishDrawingFrame
<1>3. /\ FramesTyped /\ QueriesSound /\ FencesKept /\ OverlaysKept /\ DamageKept
      /\ p \in Seq(Frames) /\ queries.available \in Seq(Frames) /\ Len(p) \in Nat
      /\ DOMAIN p = 1 .. Len(p)
      /\ number \in 1 .. MaxFrames /\ c \in Frames /\ finished \in 0 .. number
      /\ query \in [Frames -> [frame : 0 .. MaxFrames, pending : BOOLEAN]]
      /\ c <= number /\ query[c].frame = number
  <2>1. FramesTyped /\ QueriesSound /\ FencesKept /\ OverlaysKept /\ DamageKept
    BY DEF Resources
  <2>2. /\ p \in Seq(Frames) /\ queries.available \in Seq(Frames)
        /\ finished \in 0 .. number /\ query \in [Frames -> [frame : 0 .. MaxFrames, pending : BOOLEAN]]
    BY <2>1 DEF FramesTyped
  <2>3. Len(p) \in Nat /\ DOMAIN p = 1 .. Len(p)
    BY <2>2
  <2>4. number \in 1 .. MaxFrames /\ c \in Frames
    BY <1>1, <2>1, Bounds DEF FramesTyped, QueriesSound
  <2>5. c <= number /\ query[c].frame = number
    BY <1>1, <2>1, Bounds DEF FramesTyped, QueriesSound
  <2> QED BY <2>1, <2>2, <2>3, <2>4, <2>5
<1>4. /\ u \in Seq(Frames) /\ Len(u) = Len(p) + 1 /\ DOMAIN u = 1 .. Len(p) + 1 /\ u[Len(p) + 1] = c
      /\ \A i \in 1 .. Len(p) : u[i] = p[i]
  BY <1>3
<1> HIDE DEF u
<1>5. /\ queries'.pending = u /\ queries'.available = queries.available /\ queries'.current = 0
      /\ queries' \in [pending : Seq(Frames), available : Seq(Frames), current : 0 .. MaxFrames]
  <2>1. queries \in [pending : Seq(Frames), available : Seq(Frames), current : 0 .. MaxFrames]
    BY <1>3 DEF FramesTyped
  <2>2. 0 \in 0 .. MaxFrames /\ u \in Seq(Frames)
    BY <1>4, Bounds
  <2> QED BY <1>1, <2>1, <2>2
<1>6. /\ overlays'.pending = overlays.pending \cup {number} /\ overlays'.swapped = overlays.swapped
      /\ overlays' \in [pending : SUBSET Frames, swapped : Seq(SUBSET Frames)]
  BY <1>1, <1>3, Bounds DEF FramesTyped
<1>7. /\ display'.swaps = display.swaps /\ display'.shown = display.shown /\ display'.full = FALSE
      /\ display' \in [swaps : {0, 1}, shown : 0 .. MaxFrames, discarded : BOOLEAN, full : BOOLEAN]
  BY <1>1, <1>3 DEF FramesTyped
<1>8. FramesTyped'
  BY <1>1, <1>2, <1>3, <1>5, <1>6, <1>7 DEF FramesTyped
<1>9. QueriesSound'
  <2>1. \A i \in 1 .. Len(p) : /\ p[i] \in Frames /\ p[i] <= number /\ p[i] # c
                               /\ query[p[i]].frame \in Nat /\ query[p[i]].frame < number
    <3> TAKE i \in 1 .. Len(p)
    <3>1. p[i] <= number /\ p[i] # c /\ query[p[i]].frame <= number - 1
      BY <1>1, <1>3 DEF QueriesSound
    <3>2. p[i] \in Frames
      BY <1>3
    <3>3. query[p[i]].frame \in Nat
      BY <1>3, <3>2, QueryShape
    <3>4. number \in Nat
      BY <1>3
    <3> QED BY <3>1, <3>2, <3>3, <3>4
  <2>9. Len(p) \in Nat /\ number \in Nat /\ DOMAIN u = 1 .. Len(p) + 1
    BY <1>3, <1>4, Bounds
  <2>2. \A i \in DOMAIN u : i \in 1 .. Len(p) \/ i = Len(p) + 1
    BY <2>9
  <2>3. \A i \in DOMAIN u : u[i] <= number /\ query[u[i]].frame <= number
    <3> TAKE i \in DOMAIN u
    <3>1. CASE i \in 1 .. Len(p)
      BY <1>4, <2>1, <2>9, <3>1
    <3>2. CASE i = Len(p) + 1
      BY <1>3, <1>4, <2>9, <3>2
    <3> QED BY <2>2, <3>1, <3>2
  <2>4. \A i, k \in DOMAIN u : i < k => query[u[i]].frame < query[u[k]].frame
    <3> SUFFICES ASSUME NEW i \in DOMAIN u, NEW k \in DOMAIN u, i < k
                 PROVE  query[u[i]].frame < query[u[k]].frame
      OBVIOUS
    <3>1. i \in 1 .. Len(p) /\ u[i] = p[i]
      <4>1. i \in 1 .. Len(p)
        BY <2>9
      <4> QED BY <1>4, <4>1
    <3>2. CASE k \in 1 .. Len(p)
      BY <1>3, <1>4, <3>1, <3>2 DEF QueriesSound
    <3>3. CASE k = Len(p) + 1
      BY <1>3, <1>4, <2>1, <3>1, <3>3
    <3> QED BY <1>4, <2>2, <3>2, <3>3
  <2>5. \A i \in DOMAIN u, k \in DOMAIN queries.available : u[i] # queries.available[k]
    <3> TAKE i \in DOMAIN u, k \in DOMAIN queries.available
    <3>1. CASE i \in 1 .. Len(p)
      BY <1>3, <1>4, <3>1 DEF QueriesSound
    <3>2. CASE i = Len(p) + 1
      BY <1>3, <1>4, <3>2 DEF QueriesSound
    <3> QED BY <1>4, <2>2, <3>1, <3>2
  <2>6. /\ \A i \in DOMAIN u : u[i] # 0
        /\ \A i \in DOMAIN queries.available : queries.available[i] # 0
    <3>1. 0 \notin Frames
      BY Bounds
    <3> QED BY <1>3, <1>4, <3>1
  <2>7. Len(u) <= Limit
    BY <1>1, <1>3, <1>4, Bounds DEF QueriesSound
  <2>8. /\ \A i \in DOMAIN queries.available :
             queries.available[i] <= number /\ Passed(queries.available[i])
        /\ \A i, k \in DOMAIN queries.available :
             queries.available[i] = queries.available[k] => i = k
    BY <1>3 DEF QueriesSound
  <2> QED BY <1>1, <1>5, <2>3, <2>4, <2>5, <2>6, <2>7, <2>8, Bounds DEF QueriesSound, Passed
<1>10. FencesKept'
  BY <1>1, <1>3 DEF FencesKept
<1>11. OverlaysKept'
  <2>1. Swapped' = Swapped /\ number' > 0 /\ display.swaps # 1
    BY <1>1, <1>3 DEF Swapped, OverlaysKept
  <2> QED BY <1>1, <1>3, <1>6, <1>7, <2>1 DEF OverlaysKept
<1>12. DamageKept'
  BY <1>1, <1>2, <1>3, <1>7 DEF DamageKept, FramesTyped
<1> QED BY <1>8, <1>9, <1>10, <1>11, <1>12 DEF Resources

\* Of the overlays that were swapped the last two stay.
EndsWith(t, s, e) ==
  /\ Len(t) > 0 /\ t[Len(t)] = e
  /\ Len(s) > 0 => Len(t) > 1 /\ t[Len(t) - 1] = s[Len(s)]

LEMMA HeldShape ==
  ASSUME NEW X, NEW s \in Seq(X), NEW e \in X, ~ can.release
  PROVE  EndsWith(R!Held(Append(s, e)), s, e)
<1> DEFINE u == Append(s, e)
<1>1. /\ u \in Seq(X) /\ Len(s) \in Nat /\ Len(u) = Len(s) + 1 /\ u[Len(s) + 1] = e
      /\ \A i \in 1 .. Len(s) : u[i] = s[i]
  OBVIOUS
<1>2. CASE Len(u) <= 2
  <2>1. R!Held(u) = u
    BY <1>2 DEF R!Held
  <2>2. Len(s) > 0 => Len(u) - 1 = Len(s) /\ Len(s) \in 1 .. Len(s) /\ Len(u) > 1
    BY <1>1
  <2> HIDE DEF u
  <2>3. EndsWith(u, s, e)
    BY <1>1, <2>2 DEF EndsWith
  <2> QED BY <2>1, <2>3 DEF u
<1>3. CASE ~ (Len(u) <= 2)
  <2>1. R!Held(u) = Tail(u)
    BY <1>3 DEF R!Held
  <2> HIDE DEF u
  <2>2. /\ Tail(u) \in Seq(X) /\ Len(Tail(u)) = Len(s)
        /\ \A i \in 1 .. Len(s) : Tail(u)[i] = u[i + 1]
    BY <1>1, <1>3
  <2>3. Len(s) > 1 /\ Len(s) \in 1 .. Len(s) /\ Len(s) - 1 \in 1 .. Len(s) /\ (Len(s) - 1) + 1 = Len(s)
    BY <1>1, <1>3
  <2>4. Tail(u)[Len(s)] = e /\ Tail(u)[Len(s) - 1] = s[Len(s)]
    BY <1>1, <2>2, <2>3
  <2>5. EndsWith(Tail(u), s, e)
    BY <2>2, <2>3, <2>4 DEF EndsWith
  <2> QED BY <2>1, <2>5 DEF u
<1> QED BY <1>2, <1>3

\* Whatever the capabilities, what is held are sets of frames.
LEMMA HeldType ==
  ASSUME NEW X, NEW s \in Seq(X), NEW e \in X
  PROVE  R!Held(Append(s, e)) \in Seq(X)
<1> DEFINE u == Append(s, e)
<1>1. u \in Seq(X) /\ Len(u) > 0
  OBVIOUS
<1> HIDE DEF u
<1>2. Tail(u) \in Seq(X)
  <2>1. u # <<>>
    BY <1>1
  <2> QED BY <1>1, <2>1
<1> QED BY <1>1, <1>2 DEF R!Held, u

LEMMA ResourcesSwap == Resources /\ R!SwapBuffers => Resources'
<1> SUFFICES ASSUME Resources, R!SwapBuffers PROVE Resources'
  OBVIOUS
<1> DEFINE s == overlays.swapped
           t == R!Held(Append(s, overlays.pending))
<1>1. /\ phase = "drawn" /\ phase' = "idle"
      /\ overlays' = [pending |-> {}, swapped |-> t]
      /\ behind' = behind \ R!SwapRect /\ swap_rect' = {}
      /\ display' = [display EXCEPT !.swaps = @ + 1]
      /\ UNCHANGED <<can, number, queries, query, visible, finished, fence>>
  BY DEF R!SwapBuffers
<1>2. /\ FramesTyped /\ QueriesSound /\ FencesKept /\ OverlaysKept /\ DamageKept
      /\ s \in Seq(SUBSET Frames) /\ overlays.pending \in SUBSET Frames
      /\ number \in Nat /\ number > 0 /\ display.swaps = 0 /\ number \in overlays.pending
      /\ display.shown = number - 1 /\ Swapped = number - 1
  <2>1. /\ FramesTyped /\ QueriesSound /\ FencesKept /\ OverlaysKept /\ DamageKept
    BY DEF Resources
  <2>2. display.swaps \in {0, 1} /\ display.shown \in Nat /\ number \in Nat
    BY <2>1, Bounds DEF FramesTyped
  <2>3. display.swaps = 0
    BY <1>1, <2>1, <2>2 DEF OverlaysKept
  <2> QED BY <1>1, <2>1, <2>2, <2>3 DEF FramesTyped, OverlaysKept, Swapped
<1>3. t \in Seq(SUBSET Frames)
  BY <1>2, HeldType
<1>4. ~ can.release => EndsWith(t, s, overlays.pending)
  BY <1>2, HeldShape
<1> HIDE DEF t
<1>5. /\ display'.swaps = 1 /\ display'.shown = display.shown /\ display'.full = display.full
      /\ display' \in [swaps : {0, 1}, shown : 0 .. MaxFrames, discarded : BOOLEAN, full : BOOLEAN]
  <2>1. display \in [swaps : {0, 1}, shown : 0 .. MaxFrames, discarded : BOOLEAN, full : BOOLEAN]
    BY <1>2 DEF FramesTyped
  <2>2. display' = [display EXCEPT !.swaps = 1]
    BY <1>1, <1>2
  <2> QED BY <2>1, <2>2
<1>6. FramesTyped'
  <2>1. overlays' \in [pending : SUBSET Frames, swapped : Seq(SUBSET Frames)]
    BY <1>1, <1>3
  <2> QED BY <1>1, <1>2, <1>5, <2>1 DEF FramesTyped
<1>7. QueriesSound' /\ FencesKept'
  BY <1>1, <1>2 DEF QueriesSound, FencesKept, Passed
<1>8. OverlaysKept'
  <2>1. Swapped' = number /\ number' = number
    BY <1>1 DEF Swapped
  <2>2. overlays'.swapped = t
    BY <1>1
  <2>3. ~ can.release /\ number > 1 => Len(s) > 0 /\ number - 1 \in s[Len(s)]
    BY <1>2 DEF OverlaysKept
  <2>4. ~ can.release => /\ Len(t) > 0 /\ t[Len(t)] = overlays.pending
                         /\ number > 1 => Len(t) > 1 /\ number - 1 \in t[Len(t) - 1]
    BY <1>4, <2>3 DEF EndsWith
  <2> QED BY <1>1, <1>2, <1>5, <2>1, <2>2, <2>4 DEF OverlaysKept
<1>9. DamageKept'
  <2>1. behind \subseteq swap_rect /\ swap_rect \subseteq Regions
    BY <1>1, <1>2 DEF DamageKept, FramesTyped
  <2>2. behind \subseteq R!SwapRect
    BY <2>1 DEF R!SwapRect
  <2> QED BY <1>1, <2>2 DEF DamageKept
<1> QED BY <1>6, <1>7, <1>8, <1>9 DEF Resources

LEMMA ResourcesComplete == Resources /\ R!SwapBuffersComplete => Resources'
<1> SUFFICES ASSUME Resources, R!SwapBuffersComplete PROVE Resources'
  OBVIOUS
<1>1. /\ display.swaps > 0
      /\ display' = [display EXCEPT !.swaps = @ - 1, !.shown = number]
      /\ overlays' = [overlays EXCEPT !.swapped = IF can.release /\ @ # <<>> THEN Tail(@) ELSE @]
      /\ UNCHANGED <<can, phase, number, swap_rect, queries, query, visible, finished, fence, behind>>
  BY DEF R!SwapBuffersComplete
<1>2. /\ FramesTyped /\ QueriesSound /\ FencesKept /\ OverlaysKept /\ DamageKept
      /\ number \in 0 .. MaxFrames /\ display.swaps = 1 /\ phase = "idle"
  <2>1. /\ FramesTyped /\ QueriesSound /\ FencesKept /\ OverlaysKept /\ DamageKept
    BY DEF Resources
  <2>2. display.swaps \in {0, 1} /\ number \in 0 .. MaxFrames
    BY <2>1 DEF FramesTyped
  <2> QED BY <1>1, <2>1, <2>2 DEF OverlaysKept
<1>3. /\ display'.swaps = 0 /\ display'.shown = number /\ display'.full = display.full
      /\ display' \in [swaps : {0, 1}, shown : 0 .. MaxFrames, discarded : BOOLEAN, full : BOOLEAN]
  <2>1. display \in [swaps : {0, 1}, shown : 0 .. MaxFrames, discarded : BOOLEAN, full : BOOLEAN]
    BY <1>2 DEF FramesTyped
  <2>2. display' = [display EXCEPT !.swaps = 0, !.shown = number]
    BY <1>1, <1>2
  <2> QED BY <1>2, <2>1, <2>2
<1>4. /\ overlays' \in [pending : SUBSET Frames, swapped : Seq(SUBSET Frames)]
      /\ overlays'.pending = overlays.pending
      /\ ~ can.release => overlays'.swapped = overlays.swapped
  <2> DEFINE s == overlays.swapped
             t == IF can.release /\ s # <<>> THEN Tail(s) ELSE s
  <2>1. overlays \in [pending : SUBSET Frames, swapped : Seq(SUBSET Frames)]
    BY <1>2 DEF FramesTyped
  <2>2. overlays' = [overlays EXCEPT !.swapped = t]
    BY <1>1
  <2>3. s \in Seq(SUBSET Frames)
    BY <2>1
  <2> HIDE DEF s
  <2>4. t \in Seq(SUBSET Frames) /\ (~ can.release => t = s)
    BY <2>3
  <2> HIDE DEF t
  <2> QED BY <2>1, <2>2, <2>4 DEF s
<1>5. FramesTyped'
  BY <1>1, <1>2, <1>3, <1>4 DEF FramesTyped
<1>6. QueriesSound' /\ FencesKept'
  BY <1>1, <1>2 DEF QueriesSound, FencesKept, Passed
<1>7. OverlaysKept'
  BY <1>1, <1>2, <1>3, <1>4 DEF OverlaysKept, Swapped
<1>8. DamageKept'
  BY <1>1, <1>2, <1>3 DEF DamageKept
<1> QED BY <1>5, <1>6, <1>7, <1>8 DEF Resources

LEMMA ResourcesVisibility == Resources /\ R!DidChangeVisibility => Resources'
<1> SUFFICES ASSUME Resources, R!DidChangeVisibility PROVE Resources'
  OBVIOUS
<1>1. /\ phase = "idle"
      /\ UNCHANGED <<can, phase, number, swap_rect, overlays, queries, query, finished, fence>>
  BY DEF R!DidChangeVisibility
<1>2. /\ FramesTyped /\ QueriesSound /\ FencesKept /\ OverlaysKept /\ DamageKept
  BY DEF Resources
<1>3. /\ display'.swaps = display.swaps /\ display'.shown = display.shown
      /\ display' \in [swaps : {0, 1}, shown : 0 .. MaxFrames, discarded : BOOLEAN, full : BOOLEAN]
      /\ display'.full \/ (~ display.full /\ behind' = behind)
      /\ behind' \subseteq Regions
  BY <1>2 DEF R!DidChangeVisibility, R!DiscardBackbuffer, R!EnsureBackbuffer, FramesTyped
<1>4. FramesTyped'
  BY <1>1, <1>2, <1>3 DEF FramesTyped
<1>5. QueriesSound' /\ FencesKept'
  BY <1>1, <1>2 DEF QueriesSound, FencesKept, Passed
<1>6. OverlaysKept'
  BY <1>1, <1>2, <1>3 DEF OverlaysKept, Swapped
<1>7. DamageKept'
  BY <1>1, <1>2, <1>3 DEF DamageKept
<1> QED BY <1>4, <1>5, <1>6, <1>7 DEF Resources

LEMMA ResourcesGpu == Resources /\ R!GpuFinishes => Resources'
<1> SUFFICES ASSUME Resources, R!GpuFinishes PROVE Resources'
  OBVIOUS
<1>1. /\ finished < number /\ (finished + 1 = number => phase # "drawing")
      /\ finished' = finished + 1
      /\ UNCHANGED <<can, phase, number, swap_rect, overlays, queries, query, visible, display, fence, behind>>
  BY DEF R!GpuFinishes
<1>2. /\ FramesTyped /\ QueriesSound /\ FencesKept /\ OverlaysKept /\ DamageKept
      /\ finished \in Nat /\ number \in Nat
  BY Bounds DEF Resources, FramesTyped
<1>3. FramesTyped'
  BY <1>1, <1>2 DEF FramesTyped
<1>4. QueriesSound'
  <2>1. \A i \in DOMAIN queries.available : Passed(queries.available[i])'
    <3> TAKE i \in DOMAIN queries.available
    <3>1. queries.available[i] \in Frames /\ Passed(queries.available[i])
      BY <1>2 DEF QueriesSound, FramesTyped
    <3>2. query[queries.available[i]].frame \in Nat
      BY <1>2, <3>1, Bounds DEF FramesTyped
    <3> QED BY <1>1, <1>2, <3>1, <3>2 DEF Passed
  <2> QED BY <1>1, <1>2, <2>1 DEF QueriesSound
<1>5. FencesKept'
  <2> SUFFICES ASSUME NEW f \in Frames, fence[f] # 0
               PROVE  /\ f <= number /\ fence[f] <= number
                      /\ f <= finished + 1 \/ (query[fence[f]].frame = f /\ query[fence[f]].pending)
    BY <1>1 DEF FencesKept
  <2>1. /\ f <= number /\ fence[f] <= number
        /\ f <= finished \/ (query[fence[f]].frame = f /\ query[fence[f]].pending)
    BY <1>2 DEF FencesKept
  <2> QED BY <1>2, <2>1, Bounds
<1>6. OverlaysKept' /\ DamageKept'
  BY <1>1, <1>2 DEF OverlaysKept, Swapped, DamageKept
<1> QED BY <1>3, <1>4, <1>5, <1>6 DEF Resources

LEMMA ResourcesNext == Resources /\ [R!Next]_(R!vars) => Resources'
<1> SUFFICES ASSUME Resources, [R!Next]_(R!vars) PROVE Resources'
  OBVIOUS
<1>1. CASE UNCHANGED R!vars
  <2>1. UNCHANGED <<can, phase, number, swap_rect, overlays, queries, query, visible, display,
                    finished, fence, behind>>
    BY <1>1 DEF R!vars
  <2> QED BY <2>1 DEF Resources, FramesTyped, QueriesSound, Passed, FencesKept, OverlaysKept,
                      Swapped, DamageKept
<1> QED BY <1>1, ResourcesBegin, ResourcesFinish, ResourcesSwap, ResourcesComplete,
           ResourcesVisibility, ResourcesGpu DEF R!Next

-----------------------------------------------------------------------------
(* What follows.                                                           *)

LEMMA QueriesAreBounded == Resources => R!TypeOK
<1> SUFFICES ASSUME Resources PROVE R!TypeOK
  OBVIOUS
<1> DEFINE p == queries.pending
           g == [i \in 1 .. Len(p) |-> query[p[i]].frame]
           U == {query[q].frame : q \in R!Range(p)}
<1>1. /\ FramesTyped /\ QueriesSound /\ p \in Seq(Frames) /\ Len(p) \in Nat
      /\ DOMAIN p = 1 .. Len(p)
      /\ \A i \in 1 .. Len(p) : query[p[i]].frame \in Nat
  <2>1. FramesTyped /\ QueriesSound
    BY DEF Resources
  <2>2. p \in Seq(Frames)
    BY <2>1 DEF FramesTyped
  <2> HIDE DEF p
  <2>3. \A i \in 1 .. Len(p) : p[i] \in Frames
    BY <2>2
  <2> QED BY <2>1, <2>2, <2>3, QueryShape
<1>2. U = {g[i] : i \in 1 .. Len(p)}
  BY <1>1 DEF R!Range
<1>3. \A i, k \in 1 .. Len(p) : i < k => g[i] < g[k]
  BY <1>1 DEF QueriesSound
<1>4. \A i \in 1 .. Len(p) : g[i] \in Nat
  BY <1>1
<1>5. g \in [1 .. Len(p) -> U]
  BY <1>2
<1> HIDE DEF g, U
<1>6. \A i, k \in 1 .. Len(p) : g[i] = g[k] => i = k
  <2> SUFFICES ASSUME NEW i \in 1 .. Len(p), NEW k \in 1 .. Len(p), g[i] = g[k], i < k PROVE FALSE
    BY <1>1
  <2> QED BY <1>3, <1>4
<1>7. g \in Bijection(1 .. Len(p), U)
  <2>1. g \in Injection(1 .. Len(p), U)
    BY <1>5, <1>6, Fun_IsInj
  <2>2. \A x \in U : \E i \in 1 .. Len(p) : g[i] = x
    BY <1>2
  <2>3. g \in Surjection(1 .. Len(p), U)
    BY <1>5, <2>2, Fun_IsSurj
  <2> QED BY <2>1, <2>3 DEF Bijection
<1>8. Cardinality(U) = Len(p)
  <2>1. ExistsBijection(1 .. Len(p), U)
    BY <1>7 DEF ExistsBijection
  <2> QED BY <1>1, <2>1, FS_CountingElements
<1>9. Len(p) <= Limit
  <2>1. Len(p) <= Limit - (IF phase = "drawing" THEN 1 ELSE 0)
    BY <1>1 DEF QueriesSound
  <2> HIDE DEF p
  <2>2. CASE phase = "drawing"
    BY <1>1, <2>1, <2>2, Bounds
  <2>3. CASE phase # "drawing"
    BY <1>1, <2>1, <2>3, Bounds
  <2> QED BY <2>2, <2>3
<1>10. (phase = "drawing") = (queries.current # 0)
  BY <1>1 DEF QueriesSound
<1>11. R!Cardinality(U) = Cardinality(U)
  BY DEF R!Cardinality, Cardinality
<1>12. U = {query[q].frame : q \in R!Range(p)}
  BY DEF U
<1>13. swap_rect \subseteq Regions /\ behind \subseteq Regions
  BY <1>1 DEF FramesTyped
<1> HIDE DEF U
<1> QED BY <1>8, <1>9, <1>10, <1>11, <1>12, <1>13 DEF R!TypeOK, Limit

\* What a frame reads is kept until the GPU has read it, though a query serves many
\* frames; the frame on screen and the one that follows it keep their overlays; and after
\* a swap the surface shows all that was drawn (BeginDrawingFrame, SwapBuffers and
\* EnforceMemoryPolicy, gl_renderer.cc:480-560, 2454, 2610-2662).
THEOREM ResourcesAreKept == Spec => []FramesKeepTheirResources
<1>1. Init => Resources
  BY ResourcesInit DEF Init
<1>2. Resources /\ [Next]_vars => Resources'
  <2>1. [Next]_vars => [R!Next]_(R!vars)
    BY DEF Next, vars, LayersMove, GLMoves, ResourcesMove, HostMoves, Scrolls, resourceVars, R!vars
  <2> QED BY <2>1, ResourcesNext
<1>3. Resources => FramesKeepTheirResources
  <2> SUFFICES ASSUME Resources PROVE FramesKeepTheirResources
    OBVIOUS
  <2>1. FramesTyped /\ FencesKept /\ OverlaysKept /\ DamageKept
    BY DEF Resources
  <2>2. R!FencesTellTheTruth
    <3> SUFFICES ASSUME NEW f \in Frames, fence[f] # 0, R!HasPassed(f)
                 PROVE  f <= finished
      BY DEF R!FencesTellTheTruth, R!Drawn, Frames
    <3>1. f <= finished \/ (query[fence[f]].frame = f /\ query[fence[f]].pending)
      BY <2>1 DEF FencesKept
    <3>2. CASE query[fence[f]].frame = f /\ query[fence[f]].pending
      <4>1. ~ (f > finished)
        BY <3>2 DEF R!HasPassed, R!IsPending
      <4> QED BY <2>1, <4>1, Bounds DEF FramesTyped
    <3> QED BY <3>1, <3>2
  <2>3. R!ScannedOutIsLocked
    <3> SUFFICES ASSUME ~ can.release, NEW f, f > 0,
                        f \in {display.shown} \cup (IF display.swaps > 0 THEN {number} ELSE {})
                 PROVE  f \in overlays.pending \cup UNION R!Range(overlays.swapped)
      BY DEF R!ScannedOutIsLocked
    <3> DEFINE s == overlays.swapped
    <3>1. /\ display.swaps \in {0, 1} /\ display.shown \in Nat /\ number \in Nat
          /\ s \in Seq(SUBSET Frames) /\ Len(s) \in Nat /\ DOMAIN s = 1 .. Len(s)
      BY <2>1, Bounds DEF FramesTyped
    <3>2. /\ Swapped > 0 => Len(s) > 0 /\ Swapped \in s[Len(s)]
          /\ Swapped > 1 => Len(s) > 1 /\ Swapped - 1 \in s[Len(s) - 1]
      BY <2>1 DEF OverlaysKept
    <3>3. \A i \in 1 .. Len(s) : s[i] \subseteq UNION R!Range(s)
      BY <3>1 DEF R!Range
    <3>4. Swapped \in Int /\ f \in {Swapped, Swapped - 1} /\ (f = Swapped - 1 => Swapped > 1)
      BY <2>1, <3>1 DEF OverlaysKept, Swapped
    <3> HIDE DEF s
    <3>5. CASE f = Swapped
      BY <3>1, <3>2, <3>3, <3>5 DEF s
    <3>6. CASE f = Swapped - 1
      BY <3>1, <3>2, <3>3, <3>4, <3>6 DEF s
    <3> QED BY <3>4, <3>5, <3>6
  <2>4. R!SwapShowsAll
    BY <2>1 DEF R!SwapShowsAll, DamageKept
  <2> QED BY <2>2, <2>3, <2>4, QueriesAreBounded DEF FramesKeepTheirResources, R!FramesKeepTheirResources
<1> QED BY <1>1, <1>2, <1>3, PTL DEF Spec

-----------------------------------------------------------------------------
(* The state of the GL context and its copy.                               *)

ContextKeys == {"blend", "stencil", "scissorOn", "scissorRect", "program", "geometry", "func",
                "equation", "framebuffer", "viewport"}
CachedKeys  == {"blend", "stencil", "scissorOn", "scissorRect", "reset", "program", "geometry"}
Programs    == SUBSET G!ProgramParts
Clips       == Rects \cup {None}
Values      == BOOLEAN \cup Rects \cup {None, Foreign} \cup Programs
               \cup {"shared", "clipped", "texture", "root", "add", "over", "screen", "multiply"}

CachedType ==
  [blend : BOOLEAN, stencil : BOOLEAN, scissorOn : BOOLEAN, scissorRect : Clips, reset : BOOLEAN,
   program : Programs \cup {None}, geometry : {None, "shared", "clipped"}]
QuadType ==
  [program : Programs, blend : BOOLEAN, geometry : {"shared", "clipped"}, func : {G!Default},
   equation : {"add"}, scissor : Clips, target : G!Targets, stencil : BOOLEAN]
BatchType == [program : Programs \cup {None}, blend : BOOLEAN, quads : Seq(QuadType)]
PassType  == [target : G!Targets \cup {None}, scissor : Clips]
States ==
  [cached : CachedType, context : [ContextKeys -> Values], batch : BatchType, pass : PassType,
   wrong : SUBSET STRING]

\* Where the copy says something, it is true.
Copies(s) ==
  /\ s.cached.blend = s.context.blend /\ s.cached.stencil = s.context.stencil
  /\ s.cached.scissorOn = s.context.scissorOn
  /\ s.cached.program # None => s.cached.program = s.context.program
  /\ s.cached.geometry # None => s.cached.geometry = s.context.geometry

\* Nothing was wrong so far, and quads are blended as most of them ask.
Sound(s) ==
  /\ s \in States /\ Copies(s) /\ s.wrong = {}
  /\ s.context.func = G!Default /\ s.context.equation = "add"

\* The target of the pass is bound.
Bound(s) ==
  /\ s.pass.target \in G!Targets
  /\ s.context.viewport = s.pass.target /\ s.context.framebuffer = s.pass.target
  /\ s.context.stencil = (caps.stencil /\ s.pass.target = "root")

\* t is s but for what K names.
Same(s, t, K) ==
  /\ t.batch = s.batch /\ t.pass = s.pass /\ t.wrong = s.wrong
  /\ \A k \in ContextKeys \ K : t.context[k] = s.context[k]
  /\ \A k \in CachedKeys \ K : t.cached[k] = s.cached[k]

LEMMA GLConstants ==
  /\ None \notin Rects /\ Foreign \notin Rects /\ None \notin Programs
  /\ None # "shared" /\ None # "clipped" /\ MaxBatch \in Nat \ {0} /\ MaxQuads \in Nat
  BY CompositorAssumption DEF G!GLAssumption, Programs

(* A state with another copy and another context.                          *)
Changed(s, t, c, x) ==
  t.cached = c /\ t.context = x /\ t.batch = s.batch /\ t.pass = s.pass /\ t.wrong = s.wrong

LEMMA Put ==
  ASSUME NEW s \in States, NEW c \in CachedType, NEW x \in [ContextKeys -> Values], NEW t,
         t = [s EXCEPT !.cached = c, !.context = x]
  PROVE  t \in States /\ Changed(s, t, c, x)
  BY DEF States, Changed

\* t is s after both took the value v for k.
SetBoth(s, t, k, v) ==
  /\ t \in States /\ Copies(t) /\ Same(s, t, {k})
  /\ t.context[k] = v /\ t.cached[k] = v

LEMMA BothChanged ==
  ASSUME NEW s \in States, Copies(s), NEW v \in Values, NEW t,
         NEW k \in {"blend", "stencil", "scissorOn", "program", "geometry"},
         [s.cached EXCEPT ![k] = v] \in CachedType,
         t = [s EXCEPT !.cached = [s.cached EXCEPT ![k] = v], !.context = [s.context EXCEPT ![k] = v]]
  PROVE  SetBoth(s, t, k, v)
<1> DEFINE c == [s.cached EXCEPT ![k] = v]
           x == [s.context EXCEPT ![k] = v]
<1>1. s.cached \in CachedType /\ s.context \in [ContextKeys -> Values]
  BY DEF States
<1>2. /\ \A j \in ContextKeys \ {k} : x[j] = s.context[j]
      /\ \A j \in CachedKeys \ {k} : c[j] = s.cached[j]
      /\ c[k] = v /\ x[k] = v
  BY <1>1 DEF CachedType, ContextKeys, CachedKeys
<1>3. c \in CachedType /\ x \in [ContextKeys -> Values] /\ t = [s EXCEPT !.cached = c, !.context = x]
  BY <1>1 DEF ContextKeys
<1> HIDE DEF c, x
<1>4. t \in States /\ Changed(s, t, c, x)
  BY <1>3, Put
<1>5. Copies(t)
  <2>1. \A j \in {"blend", "stencil", "scissorOn"} : c[j] = x[j]
    BY <1>2 DEF ContextKeys, CachedKeys, Copies
  <2>2. \A j \in {"program", "geometry"} : c[j] # None => c[j] = x[j]
    BY <1>2 DEF ContextKeys, CachedKeys, Copies
  <2> QED BY <1>4, <2>1, <2>2 DEF Changed, Copies
<1>6. Same(s, t, {k}) /\ t.context[k] = v /\ t.cached[k] = v
  BY <1>2, <1>4 DEF Changed, Same
<1> QED BY <1>4, <1>5, <1>6 DEF SetBoth

LEMMA BlendSet ==
  ASSUME NEW s \in States, Copies(s), NEW on \in BOOLEAN
  PROVE  SetBoth(s, G!SetBlendEnabled(s, on), "blend", on)
<1>1. CASE s.cached.blend = on
  BY <1>1 DEF G!SetBlendEnabled, SetBoth, Copies, Same
<1>2. CASE s.cached.blend # on
  <2>1. [s.cached EXCEPT !.blend = on] \in CachedType /\ on \in Values
    BY DEF States, CachedType, Values
  <2>2. G!SetBlendEnabled(s, on)
        = [s EXCEPT !.cached = [s.cached EXCEPT !.blend = on], !.context = [s.context EXCEPT !.blend = on]]
    BY <1>2 DEF G!SetBlendEnabled, States
  <2> QED BY <2>1, <2>2, BothChanged
<1> QED BY <1>1, <1>2

LEMMA StencilSet ==
  ASSUME NEW s \in States, Copies(s), NEW on \in BOOLEAN
  PROVE  SetBoth(s, G!SetStencilEnabled(s, on), "stencil", on)
<1>1. CASE s.cached.stencil = on
  BY <1>1 DEF G!SetStencilEnabled, SetBoth, Copies, Same
<1>2. CASE s.cached.stencil # on
  <2>1. [s.cached EXCEPT !.stencil = on] \in CachedType /\ on \in Values
    BY DEF States, CachedType, Values
  <2>2. G!SetStencilEnabled(s, on)
        = [s EXCEPT !.cached = [s.cached EXCEPT !.stencil = on], !.context = [s.context EXCEPT !.stencil = on]]
    BY <1>2 DEF G!SetStencilEnabled, States
  <2> QED BY <2>1, <2>2, BothChanged
<1> QED BY <1>1, <1>2

LEMMA ProgramSet ==
  ASSUME NEW s \in States, Copies(s), NEW p \in Programs
  PROVE  SetBoth(s, G!SetUseProgram(s, p), "program", p)
<1>1. CASE s.cached.program = p
  BY <1>1, GLConstants DEF G!SetUseProgram, SetBoth, Copies, Same
<1>2. CASE s.cached.program # p
  <2>1. [s.cached EXCEPT !.program = p] \in CachedType /\ p \in Values
    BY DEF States, CachedType, Values
  <2>2. G!SetUseProgram(s, p)
        = [s EXCEPT !.cached = [s.cached EXCEPT !.program = p], !.context = [s.context EXCEPT !.program = p]]
    BY <1>2 DEF G!SetUseProgram, States
  <2> QED BY <2>1, <2>2, BothChanged
<1> QED BY <1>1, <1>2

LEMMA GeometrySet ==
  ASSUME NEW s \in States, Copies(s), NEW g \in {"shared", "clipped"}
  PROVE  SetBoth(s, G!PrepareGeometry(s, g), "geometry", g)
<1>1. CASE s.cached.geometry = g
  BY <1>1, GLConstants DEF G!PrepareGeometry, SetBoth, Copies, Same
<1>2. CASE s.cached.geometry # g
  <2>1. g \in {None, "shared", "clipped"} /\ g \in Values
    BY DEF Values
  <2>2. [s.cached EXCEPT !.geometry = g] \in CachedType /\ g \in Values
    BY <2>1 DEF States, CachedType, Values
  <2>3. G!PrepareGeometry(s, g)
        = [s EXCEPT !.cached = [s.cached EXCEPT !.geometry = g], !.context = [s.context EXCEPT !.geometry = g]]
    BY <1>2, GLConstants DEF G!PrepareGeometry, States
  <2> QED BY <2>2, <2>3, BothChanged
<1> QED BY <1>1, <1>2

-----------------------------------------------------------------------------
(* Batches.                                                                *)

\* What the quads of a batch would be if they were drawn now, with the geometry g.
Asked(s, p, blend, g) ==
  [program |-> p, blend |-> blend, geometry |-> g, func |-> s.context.func,
   equation |-> s.context.equation, scissor |-> G!Scissor(s),
   target |-> IF s.context.viewport = s.context.framebuffer THEN s.context.framebuffer ELSE Foreign,
   stencil |-> s.context.stencil]

\* The quads that wait were asked for as they would be drawn now.
Batched(s, g) ==
  IF s.batch.program = None THEN s.batch = G!NoBatch
  ELSE /\ Len(s.batch.quads) \in 1 .. MaxBatch
       /\ \A i \in 1 .. Len(s.batch.quads) :
            s.batch.quads[i] = Asked(s, s.batch.program, s.batch.blend, g)

\* After a flush only what a batch needs may have changed.
Flushed(s, t) ==
  /\ t \in States /\ Copies(t) /\ t.batch = G!NoBatch
  /\ t.pass = s.pass /\ t.wrong = s.wrong
  /\ \A k \in ContextKeys \ {"blend", "program", "geometry"} : t.context[k] = s.context[k]
  /\ \A k \in CachedKeys \ {"blend", "program", "geometry"} : t.cached[k] = s.cached[k]

LEMMA Flush ==
  ASSUME NEW s \in States, Copies(s), NEW g \in {"shared", "clipped"}, Batched(s, g)
  PROVE  /\ Flushed(s, G!FlushTextureQuadCache(s, g))
         /\ s.batch = G!NoBatch => G!FlushTextureQuadCache(s, g) = s
<1>1. CASE s.batch.program = None
  BY <1>1 DEF G!FlushTextureQuadCache, Flushed, Batched
<1>2. CASE s.batch.program # None
  <2> DEFINE b == s.batch
             s1 == G!PrepareGeometry(s, g)
             s2 == G!SetBlendEnabled(s1, b.blend)
             s3 == G!SetUseProgram(s2, b.program)
             w  == UNION {G!Differences(s3, b.quads[i]) : i \in DOMAIN b.quads}
             s4 == [s3 EXCEPT !.wrong = @ \cup w, !.batch = G!NoBatch]
  <2>1. b.blend \in BOOLEAN /\ b.program \in Programs /\ DOMAIN b.quads = 1 .. Len(b.quads)
    BY <1>2 DEF States, BatchType
  <2>2. SetBoth(s, s1, "geometry", g)
    BY GeometrySet
  <2> HIDE DEF s1
  <2>3. SetBoth(s1, s2, "blend", b.blend)
    BY <2>1, <2>2, BlendSet DEF SetBoth
  <2> HIDE DEF s2
  <2>4. SetBoth(s2, s3, "program", b.program)
    BY <2>1, <2>3, ProgramSet DEF SetBoth
  <2> HIDE DEF s3
  <2>5. /\ s3 \in States /\ Copies(s3) /\ s3.pass = s.pass /\ s3.wrong = s.wrong /\ s3.batch = s.batch
        /\ \A k \in ContextKeys \ {"blend", "program", "geometry"} : s3.context[k] = s.context[k]
        /\ \A k \in CachedKeys \ {"blend", "program", "geometry"} : s3.cached[k] = s.cached[k]
        /\ s3.context.program = b.program /\ s3.context.blend = b.blend /\ s3.context.geometry = g
    BY <2>2, <2>3, <2>4 DEF SetBoth, Same, ContextKeys, CachedKeys
  <2>6. G!Drawn(s3) = Asked(s, b.program, b.blend, g)
    BY <2>5 DEF G!Drawn, Asked, G!Scissor, ContextKeys
  <2>7. \A i \in DOMAIN b.quads : G!Differences(s3, b.quads[i]) = {}
    BY <1>2, <2>1, <2>6 DEF Batched, G!Differences
  <2>8. s4 = [s3 EXCEPT !.wrong = s.wrong, !.batch = G!NoBatch]
    <3>1. w = {}
      BY <2>7
    <3> HIDE DEF w
    <3>2. s3.wrong \cup w = s.wrong
      BY <2>5, <3>1
    <3> QED BY <2>5, <3>2 DEF States
  <2> HIDE DEF s4
  <2>9. Flushed(s, s4)
    <3>1. G!NoBatch \in BatchType /\ s.wrong \in SUBSET STRING
      BY DEF BatchType, G!NoBatch, States
    <3>2. s4 \in States
      BY <2>5, <2>8, <3>1 DEF States
    <3>3. /\ s4.batch = G!NoBatch /\ s4.pass = s.pass /\ s4.wrong = s.wrong
          /\ s4.cached = s3.cached /\ s4.context = s3.context
      BY <2>5, <2>8 DEF States
    <3> QED BY <2>5, <3>2, <3>3 DEF Flushed, Copies
  <2>10. CASE g = "shared"
    <3>1. G!FlushTextureQuadCache(s, g) = s4
      BY <1>2, <2>10 DEF G!FlushTextureQuadCache, s1, s2, s3, w, s4
    <3> QED BY <1>2, <2>9, <3>1 DEF G!NoBatch
  <2>11. CASE g = "clipped"
    <3> DEFINE s5 == G!PrepareGeometry(s4, "shared")
    <3>1. SetBoth(s4, s5, "geometry", "shared")
      BY <2>9, GeometrySet DEF Flushed
    <3>2. G!FlushTextureQuadCache(s, g) = s5
      BY <1>2, <2>11 DEF G!FlushTextureQuadCache, s1, s2, s3, w, s4
    <3> HIDE DEF s5
    <3>3. Flushed(s, s5)
      BY <2>9, <3>1 DEF Flushed, SetBoth, Same
    <3> QED BY <1>2, <3>2, <3>3 DEF G!NoBatch
  <2> QED BY <2>10, <2>11
<1> QED BY <1>1, <1>2

-----------------------------------------------------------------------------
(* Targets.                                                                *)

\* t is s after the context alone took the value v for k.
SetContext(s, t, k, v) ==
  /\ t \in States /\ (Copies(s) => Copies(t)) /\ t.cached = s.cached
  /\ t.batch = s.batch /\ t.pass = s.pass /\ t.wrong = s.wrong
  /\ \A j \in ContextKeys \ {k} : t.context[j] = s.context[j]
  /\ t.context[k] = v

LEMMA ContextChanged ==
  ASSUME NEW s \in States, NEW v \in Values, NEW t,
         NEW k \in {"func", "equation", "framebuffer", "viewport"},
         t = [s EXCEPT !.context = [s.context EXCEPT ![k] = v]]
  PROVE  SetContext(s, t, k, v)
<1> DEFINE x == [s.context EXCEPT ![k] = v]
<1>1. s.cached \in CachedType /\ s.context \in [ContextKeys -> Values]
  BY DEF States
<1>2. x \in [ContextKeys -> Values] /\ x[k] = v /\ \A j \in ContextKeys \ {k} : x[j] = s.context[j]
  BY <1>1 DEF ContextKeys
<1>3. t = [s EXCEPT !.cached = s.cached, !.context = x]
  BY DEF States
<1> HIDE DEF x
<1>4. t \in States /\ Changed(s, t, s.cached, x)
  BY <1>1, <1>2, <1>3, Put
<1> QED BY <1>2, <1>4 DEF Changed, SetContext, Copies, ContextKeys

\* After the target was bound: the copy knows the stencil test.
Targeted(s, t, target) ==
  /\ t \in States /\ Copies(t) /\ t.batch = s.batch /\ t.wrong = s.wrong
  /\ t.pass.target = target /\ t.pass.scissor = s.pass.scissor
  /\ t.context.framebuffer = target /\ t.context.stencil = (caps.stencil /\ target = "root")
  /\ \A k \in ContextKeys \ {"framebuffer", "stencil"} : t.context[k] = s.context[k]
  /\ \A k \in CachedKeys \ {"stencil"} : t.cached[k] = s.cached[k]

LEMMA TargetBound ==
  ASSUME NEW s \in States, Copies(s), NEW target \in G!Targets, caps.stencil \in BOOLEAN
  PROVE  Targeted(s, G!UseRenderPass(s, target), target)
<1> DEFINE s1 == [s EXCEPT !.pass.target = target]
<1>1. /\ s1 \in States /\ Copies(s1) /\ s1.batch = s.batch /\ s1.wrong = s.wrong
      /\ s1.pass.target = target /\ s1.pass.scissor = s.pass.scissor
      /\ s1.context = s.context /\ s1.cached = s.cached
  BY DEF States, PassType, Copies
<1>2. target \in Values
  BY DEF G!Targets, Values
<1>3. CASE target = "root"
  <2> DEFINE s2 == [s1 EXCEPT !.context = [s1.context EXCEPT !.framebuffer = "root"]]
             s3 == G!SetStencilEnabled(s2, caps.stencil)
  <2>1. G!UseRenderPass(s, target) = s3
    BY <1>3, <1>1 DEF G!UseRenderPass, G!BindFramebufferToOutputSurface, States
  <2> HIDE DEF s1
  <2>2. SetContext(s1, s2, "framebuffer", "root")
    BY <1>1, <1>2, <1>3, ContextChanged
  <2> HIDE DEF s2
  <2>3. SetBoth(s2, s3, "stencil", caps.stencil)
    BY <1>1, <2>2, StencilSet DEF SetContext
  <2> HIDE DEF s3
  <2>4. Targeted(s, s3, target)
    BY <1>1, <1>3, <2>2, <2>3 DEF Targeted, SetContext, SetBoth, Same, ContextKeys, CachedKeys
  <2> QED BY <2>1, <2>4
<1>4. CASE target = "texture"
  <2> DEFINE s2 == G!SetStencilEnabled(s1, FALSE)
             s3 == [s2 EXCEPT !.context.framebuffer = "texture"]
  <2>1. G!UseRenderPass(s, target) = s3
    BY <1>4 DEF G!UseRenderPass, G!BindFramebufferToTexture
  <2> HIDE DEF s1
  <2>2. SetBoth(s1, s2, "stencil", FALSE)
    BY <1>1, StencilSet
  <2> HIDE DEF s2
  <2>3. SetContext(s2, s3, "framebuffer", "texture")
    <3>1. s3 = [s2 EXCEPT !.context = [s2.context EXCEPT !.framebuffer = "texture"]]
      OBVIOUS
    <3> HIDE DEF s3
    <3> QED BY <1>2, <1>4, <2>2, <3>1, ContextChanged DEF SetBoth
  <2> HIDE DEF s3
  <2>4. Targeted(s, s3, target)
    BY <1>1, <1>4, <2>2, <2>3 DEF Targeted, SetContext, SetBoth, Same, ContextKeys, CachedKeys
  <2> QED BY <2>1, <2>4
<1> QED BY <1>3, <1>4 DEF G!Targets

\* What is left unchanged when the target of the pass is bound again.
Viewed(s, t, target) ==
  /\ t \in States /\ Copies(t) /\ Bound(t) /\ t.batch = s.batch /\ t.wrong = s.wrong
  /\ t.pass.target = target /\ t.pass.scissor = s.pass.scissor
  /\ \A k \in ContextKeys \ {"framebuffer", "viewport", "stencil"} : t.context[k] = s.context[k]
  /\ \A k \in CachedKeys \ {"stencil"} : t.cached[k] = s.cached[k]

LEMMA ViewportSet ==
  ASSUME NEW s \in States, Copies(s), NEW target \in G!Targets, caps.stencil \in BOOLEAN
  PROVE  Viewed(s, G!SetViewport(G!UseRenderPass(s, target)), target)
<1> DEFINE s1 == G!UseRenderPass(s, target)
           s2 == [s1 EXCEPT !.context = [s1.context EXCEPT !.viewport = target]]
<1>1. Targeted(s, s1, target)
  BY TargetBound
<1> HIDE DEF s1
<1>2. G!SetViewport(s1) = s2
  BY <1>1 DEF G!SetViewport, Targeted
<1>3. SetContext(s1, s2, "viewport", target)
  <2>1. target \in Values /\ s1 \in States
    BY <1>1 DEF G!Targets, Values, Targeted
  <2> QED BY <2>1, ContextChanged
<1> HIDE DEF s2
<1>4. Viewed(s, s2, target)
  BY <1>1, <1>3 DEF Viewed, Targeted, SetContext, Bound, ContextKeys
<1> QED BY <1>2, <1>4 DEF s1

-----------------------------------------------------------------------------
(* Skia.                                                                   *)

\* What the copy says is what the context has, but for a scissor that is not in use.
Restored(s, t) ==
  /\ t \in States /\ Copies(t) /\ t.batch = s.batch /\ t.pass = s.pass /\ t.wrong = s.wrong
  /\ \A k \in CachedKeys \ {"geometry"} : t.cached[k] = s.cached[k]
  /\ \A k \in {"equation", "framebuffer", "viewport"} : t.context[k] = s.context[k]
  /\ t.context.func = G!Default
  /\ t.context.scissorRect = IF s.cached.scissorOn THEN s.cached.scissorRect ELSE s.context.scissorRect

LEMMA StateRestored ==
  ASSUME NEW s \in States
  PROVE  Restored(s, G!RestoreGLState(s))
<1> DEFINE c  == [s.cached EXCEPT !.geometry = "shared"]
           x1 == [s.context EXCEPT !.geometry = "shared"]
           t1 == [s EXCEPT !.cached = c, !.context = x1]
           x  == [x1 EXCEPT !.func = G!Default,
                            !.program = IF s.cached.program = None THEN @ ELSE s.cached.program,
                            !.stencil = s.cached.stencil, !.blend = s.cached.blend,
                            !.scissorOn = s.cached.scissorOn,
                            !.scissorRect = IF s.cached.scissorOn THEN s.cached.scissorRect ELSE @]
           t  == [t1 EXCEPT !.context = x]
<1>1. s.cached \in CachedType /\ s.context \in [ContextKeys -> Values]
  BY DEF States
<1>2. G!PrepareGeometry([s EXCEPT !.cached.geometry = None], "shared") = t1
  BY <1>1, GLConstants DEF G!PrepareGeometry, States, CachedType, ContextKeys
<1>3. "shared" \in {None, "shared", "clipped"} /\ "shared" \in Values /\ G!Default \in Values
  BY DEF Values, G!Default
<1>4. c \in CachedType /\ x1 \in [ContextKeys -> Values]
  BY <1>1, <1>3 DEF CachedType
<1> DEFINE T == G!RestoreGLState(s)
<1>5. T = [t1 EXCEPT !.context = x]
  <2>1. t1.context = x1 /\ t1 = [s EXCEPT !.cached = c, !.context = x1]
    BY DEF States
  <2>2. T = [t1 EXCEPT !.context.func = G!Default,
                       !.context.program = IF s.cached.program = None THEN @ ELSE s.cached.program,
                       !.context.stencil = s.cached.stencil, !.context.blend = s.cached.blend,
                       !.context.scissorOn = s.cached.scissorOn,
                       !.context.scissorRect = IF s.cached.scissorOn THEN s.cached.scissorRect ELSE @]
    <3> HIDE DEF t1, x
    <3> QED BY <1>2 DEF G!RestoreGLState
  <2> HIDE DEF t1, c, x1, T
  <2> QED BY <2>1, <2>2
<1>6. T = [s EXCEPT !.cached = c, !.context = x]
  <2> HIDE DEF T, x, c, x1
  <2> QED BY <1>5 DEF States
<1> HIDE DEF T, t
<1>7. x \in [ContextKeys -> Values]
  <2>1. s.cached.program = None \/ s.cached.program \in Values
    BY <1>1 DEF CachedType, Values
  <2>2. s.cached.stencil \in Values /\ s.cached.blend \in Values /\ s.cached.scissorOn \in Values
    BY <1>1 DEF CachedType, Values
  <2>3. s.cached.scissorRect \in Values
    BY <1>1 DEF CachedType, Values, Clips
  <2> HIDE DEF x1
  <2> QED BY <1>3, <1>4, <2>1, <2>2, <2>3
<1>8. /\ c.geometry = "shared" /\ \A k \in CachedKeys \ {"geometry"} : c[k] = s.cached[k]
  BY <1>1 DEF CachedType, CachedKeys
<1>9. /\ \A k \in {"equation", "framebuffer", "viewport"} : x[k] = s.context[k]
      /\ x.func = G!Default /\ x.geometry = "shared"
      /\ x.blend = s.cached.blend /\ x.stencil = s.cached.stencil /\ x.scissorOn = s.cached.scissorOn
      /\ s.cached.program # None => x.program = s.cached.program
      /\ x.scissorRect = IF s.cached.scissorOn THEN s.cached.scissorRect ELSE s.context.scissorRect
  BY <1>1 DEF ContextKeys
<1> HIDE DEF c, x
<1>10. T \in States /\ Changed(s, T, c, x)
  BY <1>4, <1>6, <1>7, Put
<1>11. Copies(T)
  BY <1>8, <1>9, <1>10 DEF Changed, Copies, CachedKeys
<1>12. Restored(s, T)
  BY <1>8, <1>9, <1>10, <1>11 DEF Changed, Restored
<1> QED BY <1>12 DEF T

\* The copy of the scissor is that of the context unless it was reset, and it is when the
\* test is on.
RectKnown(s) ==
  /\ ~ s.cached.reset => s.cached.scissorRect = s.context.scissorRect
  /\ s.cached.scissorOn => ~ s.cached.reset

\* A filter by Skia leaves what was set before, if only it leaves the scissor rectangle
\* and the blend equation.
Filtered(s, t) ==
  /\ t \in States /\ Copies(t) /\ RectKnown(t) /\ Bound(t)
  /\ t.batch = s.batch /\ t.pass = s.pass /\ t.wrong = s.wrong
  /\ t.context.func = G!Default /\ t.context.equation = s.context.equation
  /\ t.context.blend = s.context.blend
  /\ G!Scissor(t) = G!Scissor(s)

LEMMA SkiaFilters ==
  ASSUME NEW s \in States, Copies(s), RectKnown(s), s.pass.target \in G!Targets,
         caps.stencil \in BOOLEAN, SkiaTouches \cap {"scissorRect", "equation"} = {}
  PROVE  Filtered(s, G!ScopedUseGrContext(s))
<1> DEFINE x  == [k \in ContextKeys |-> IF k \in SkiaTouches THEN Foreign ELSE s.context[k]]
           s1 == [s EXCEPT !.context = x]
           s2 == G!RestoreGLState(s1)
           s3 == G!RestoreFramebuffer(s2)
<1>1. G!ScopedUseGrContext(s) = s3
  BY DEF G!ScopedUseGrContext, States
<1>2. s.cached \in CachedType /\ s.context \in [ContextKeys -> Values] /\ Foreign \in Values
  BY DEF States, Values
<1>3. x \in [ContextKeys -> Values] /\ s1 = [s EXCEPT !.cached = s.cached, !.context = x]
  BY <1>2 DEF States
<1>4. x.scissorRect = s.context.scissorRect /\ x.equation = s.context.equation
  BY DEF ContextKeys
<1> HIDE DEF s1, x
<1>5. s1 \in States /\ Changed(s, s1, s.cached, x)
  BY <1>2, <1>3, Put
<1>6. Restored(s1, s2)
  BY <1>5, StateRestored
<1> HIDE DEF s2
<1>7. s2.pass = s.pass /\ s2 \in States /\ Copies(s2)
  BY <1>5, <1>6 DEF Changed, Restored
<1>8. Viewed(s2, s3, s.pass.target)
  BY <1>7, ViewportSet DEF G!RestoreFramebuffer
<1> HIDE DEF s3
<1>9. s2.cached.scissorRect = s.cached.scissorRect /\ s2.cached.reset = s.cached.reset
      /\ s2.cached.scissorOn = s.cached.scissorOn /\ s2.cached.blend = s.cached.blend
      /\ s2.context.equation = s.context.equation /\ s2.context.func = G!Default
      /\ s2.context.scissorRect = IF s.cached.scissorOn THEN s.cached.scissorRect ELSE s.context.scissorRect
  BY <1>4, <1>5, <1>6 DEF Changed, Restored, CachedKeys
<1>10. /\ s3.cached.scissorRect = s2.cached.scissorRect /\ s3.cached.reset = s2.cached.reset
       /\ s3.cached.scissorOn = s2.cached.scissorOn
       /\ s3.context.equation = s2.context.equation /\ s3.context.func = s2.context.func
       /\ s3.context.blend = s2.context.blend /\ s3.context.scissorRect = s2.context.scissorRect
       /\ s3.context.scissorOn = s2.context.scissorOn
  BY <1>8 DEF Viewed, ContextKeys, CachedKeys
<1>11. RectKnown(s3) /\ G!Scissor(s3) = G!Scissor(s)
  BY <1>7, <1>9, <1>10 DEF RectKnown, G!Scissor, Copies
<1>12. s3.context.blend = s.context.blend
  BY <1>7, <1>9, <1>10 DEF Copies
<1>13. s3.pass = s.pass
  <2>1. s.pass \in PassType /\ s3.pass \in PassType
    BY <1>8 DEF States, Viewed
  <2>2. s3.pass.target = s.pass.target /\ s3.pass.scissor = s.pass.scissor
    BY <1>7, <1>8 DEF Viewed
  <2> QED BY <2>1, <2>2 DEF PassType
<1>14. s3.batch = s.batch /\ s3.wrong = s.wrong
  BY <1>5, <1>6, <1>8 DEF Viewed, Restored, Changed
<1> QED BY <1>1, <1>8, <1>9, <1>10, <1>11, <1>12, <1>13, <1>14 DEF Filtered, Viewed

-----------------------------------------------------------------------------
(* Quads.                                                                  *)

\* Ready for a quad: nothing waits, and the scissor is that of the quad.
Steady(s) ==
  /\ s \in States /\ Copies(s) /\ s.wrong = {} /\ s.batch = G!NoBatch
  /\ RectKnown(s) /\ Bound(s) /\ G!Scissor(s) = s.pass.scissor

Blends(s, func, equation) == s.context.func = func /\ s.context.equation = equation

Calm(s) == Steady(s) /\ Blends(s, G!Default, "add")

LEMMA SteadySet ==
  ASSUME NEW s, Steady(s), NEW t, NEW v, NEW k \in {"blend", "program", "geometry"}, SetBoth(s, t, k, v)
  PROVE  /\ Steady(t) /\ t.context[k] = v /\ t.pass = s.pass
         /\ \A j \in ContextKeys \ {k} : t.context[j] = s.context[j]
         /\ Calm(s) => Calm(t)
<1>1. /\ t \in States /\ Copies(t) /\ t.wrong = {} /\ t.batch = G!NoBatch /\ t.pass = s.pass
      /\ t.context[k] = v /\ \A j \in ContextKeys \ {k} : t.context[j] = s.context[j]
      /\ \A j \in CachedKeys \ {k} : t.cached[j] = s.cached[j]
  BY DEF SetBoth, Same, Steady
<1>2. /\ t.context.scissorOn = s.context.scissorOn /\ t.context.scissorRect = s.context.scissorRect
      /\ t.context.viewport = s.context.viewport /\ t.context.framebuffer = s.context.framebuffer
      /\ t.context.stencil = s.context.stencil /\ t.context.func = s.context.func
      /\ t.context.equation = s.context.equation
      /\ t.cached.scissorOn = s.cached.scissorOn /\ t.cached.scissorRect = s.cached.scissorRect
      /\ t.cached.reset = s.cached.reset
  BY <1>1 DEF ContextKeys, CachedKeys
<1> QED BY <1>1, <1>2 DEF Steady, RectKnown, Bound, G!Scissor, Calm, Blends

\* What asks for what the context has is drawn as it asks.
LEMMA Painted ==
  ASSUME NEW s, Steady(s), NEW p, NEW blend, NEW g, NEW func, NEW equation, Blends(s, func, equation),
         s.context.program = p, s.context.blend = blend, s.context.geometry = g
  PROVE  G!DrawElements(s, G!Want(s, p, blend, g, func, equation)) = s
<1> DEFINE want == G!Want(s, p, blend, g, func, equation)
<1>1. want = G!Drawn(s)
  BY DEF G!Want, G!Drawn, Steady, Bound, Blends
<1>2. G!Differences(s, want) = {}
  BY <1>1 DEF G!Differences
<1>3. s \in States /\ s.wrong = {} /\ s.batch = G!NoBatch
  BY DEF Steady
<1>4. G!Paint(s, want) = s
  BY <1>2, <1>3 DEF G!Paint, States
<1> QED BY <1>3, <1>4 DEF G!DrawElements, States

\* The program and the blending are those of the quad.
Dressed(s, p, blend) == Calm(s) /\ s.context.program = p /\ s.context.blend = blend

LEMMA BlendThenProgram ==
  ASSUME NEW s, Calm(s), NEW p \in Programs, NEW blend \in BOOLEAN
  PROVE  Dressed(G!SetUseProgram(G!SetBlendEnabled(s, blend), p), p, blend)
<1> DEFINE s1 == G!SetBlendEnabled(s, blend)
           s2 == G!SetUseProgram(s1, p)
<1>1. SetBoth(s, s1, "blend", blend)
  BY BlendSet DEF Calm, Steady
<1> HIDE DEF s1
<1>2. Calm(s1) /\ s1.context.blend = blend
  BY <1>1, SteadySet DEF Calm
<1>3. SetBoth(s1, s2, "program", p)
  BY <1>2, ProgramSet DEF Calm, Steady
<1> HIDE DEF s2
<1>4. Calm(s2) /\ s2.context.program = p /\ s2.context.blend = blend
  BY <1>2, <1>3, SteadySet DEF Calm, ContextKeys
<1> QED BY <1>4 DEF Dressed, s1, s2

LEMMA ProgramThenBlend ==
  ASSUME NEW s, Calm(s), NEW p \in Programs, NEW blend \in BOOLEAN
  PROVE  Dressed(G!SetBlendEnabled(G!SetUseProgram(s, p), blend), p, blend)
<1> DEFINE s1 == G!SetUseProgram(s, p)
           s2 == G!SetBlendEnabled(s1, blend)
<1>1. SetBoth(s, s1, "program", p)
  BY ProgramSet DEF Calm, Steady
<1> HIDE DEF s1
<1>2. Calm(s1) /\ s1.context.program = p
  BY <1>1, SteadySet DEF Calm
<1>3. SetBoth(s1, s2, "blend", blend)
  BY <1>2, BlendSet DEF Calm, Steady
<1> HIDE DEF s2
<1>4. Calm(s2) /\ s2.context.program = p /\ s2.context.blend = blend
  BY <1>2, <1>3, SteadySet DEF Calm, ContextKeys
<1> QED BY <1>4 DEF Dressed, s1, s2

LEMMA GeometryDrawn ==
  ASSUME NEW s, NEW p, NEW blend, Dressed(s, p, blend), NEW clip
  PROVE  Calm(G!DrawGeometry(s, p, blend, clip)) /\ Calm(G!DrawQuadGeometry(s, p, blend))
<1>1. ASSUME NEW g \in {"shared", "clipped"}
      PROVE  Calm(G!DrawElements(G!PrepareGeometry(s, g), G!Plain(s, p, blend, g)))
  <2> DEFINE t == G!PrepareGeometry(s, g)
  <2>1. SetBoth(s, t, "geometry", g)
    BY GeometrySet DEF Dressed, Calm, Steady
  <2> HIDE DEF t
  <2>2. /\ Steady(t) /\ Calm(t) /\ t.context.geometry = g /\ t.pass = s.pass
        /\ t.context.program = p /\ t.context.blend = blend
    BY <2>1, SteadySet DEF Dressed, Calm, ContextKeys
  <2>3. G!Plain(s, p, blend, g) = G!Want(t, p, blend, g, G!Default, "add")
    BY <2>2 DEF G!Plain, G!Want
  <2>4. G!DrawElements(t, G!Plain(s, p, blend, g)) = t
    BY <2>2, <2>3, Painted DEF Calm
  <2> QED BY <2>2, <2>4 DEF t
<1> QED BY <1>1 DEF G!DrawGeometry, G!DrawQuadGeometry, G!DrawQuadGeometryClippedByQuadF

LEMMA BorderDrawn ==
  ASSUME NEW s, Calm(s), NEW blend \in BOOLEAN
  PROVE  Calm(G!DrawDebugBorderQuad(s, blend))
<1> DEFINE t == G!SetUseProgram(G!SetBlendEnabled(s, blend), {"debug"})
<1>1. {"debug"} \in Programs
  BY DEF Programs, G!ProgramParts
<1>2. Dressed(t, {"debug"}, blend)
  BY <1>1, BlendThenProgram
<1> HIDE DEF t
<1>3. G!DrawElements(t, G!Plain(t, {"debug"}, blend, t.context.geometry)) = t
  BY <1>2, Painted DEF Dressed, Calm, G!Plain
<1> QED BY <1>2, <1>3 DEF G!DrawDebugBorderQuad, t, Dressed

(* The quad of a render pass.                                              *)

SkiaIsKnown == SkiaTouches \cap {"scissorRect", "equation"} = {}

LEMMA CalmFiltered ==
  ASSUME NEW s, Calm(s), SkiaIsKnown, caps.stencil \in BOOLEAN
  PROVE  LET t == G!ScopedUseGrContext(s)
         IN  Calm(t) /\ t.context.blend = s.context.blend
<1> DEFINE t == G!ScopedUseGrContext(s)
<1>1. /\ s \in States /\ Copies(s) /\ RectKnown(s) /\ s.pass.target \in G!Targets /\ s.wrong = {}
      /\ s.batch = G!NoBatch /\ G!Scissor(s) = s.pass.scissor /\ s.context.equation = "add"
  BY DEF Calm, Steady, Bound, Blends
<1>2. Filtered(s, t)
  BY <1>1, SkiaFilters DEF SkiaIsKnown
<1> HIDE DEF t
<1>3. Calm(t) /\ t.context.blend = s.context.blend
  BY <1>1, <1>2 DEF Filtered, Calm, Steady, Blends
<1> QED BY <1>3 DEF t

LEMMA CalmBlend ==
  ASSUME NEW s, Calm(s), NEW blend \in BOOLEAN
  PROVE  LET t == G!SetBlendEnabled(s, blend)
         IN  Calm(t) /\ t.context.blend = blend
<1> DEFINE t == G!SetBlendEnabled(s, blend)
<1>1. SetBoth(s, t, "blend", blend)
  BY BlendSet DEF Calm, Steady
<1> HIDE DEF t
<1>2. Calm(t) /\ t.context.blend = blend
  BY <1>1, SteadySet DEF Calm
<1> QED BY <1>2 DEF t

LEMMA BackdropRead ==
  ASSUME NEW s, Calm(s), SkiaIsKnown, caps.stencil \in BOOLEAN, NEW q \in G!PassQuads
  PROVE  Calm(G!Backdrop(s, q))
<1> DEFINE t == G!SetBlendEnabled(s, FALSE)
<1>1. Calm(t)
  BY CalmBlend
<1> HIDE DEF t
<1>2. Calm(G!ScopedUseGrContext(t))
  BY <1>1, CalmFiltered
<1> QED BY <1>1, <1>2 DEF G!Backdrop, G!ReadsBackdrop, t

\* What the shader samples is bound.
LEMMA SamplersAreBound ==
  ASSUME NEW q \in G!PassQuads
  PROVE  G!Samplers(q) \subseteq G!BoundTextures(q)
<1>1. CASE G!HasImage(q) /\ q.mask
  BY <1>1 DEF G!Samplers, G!BoundTextures
<1>2. CASE G!HasImage(q) /\ ~ q.mask
  BY <1>2 DEF G!Samplers, G!BoundTextures
<1>3. CASE ~ G!HasImage(q)
  BY <1>3 DEF G!Samplers, G!BoundTextures
<1> QED BY <1>1, <1>2, <1>3

\* The blending of a quad without a shader is set before it and reset after it.
LEMMA BlendModeApplied ==
  ASSUME NEW s, Steady(s), Blends(s, G!Default, "add"), NEW mode \in G!BlendModes
  PROVE  LET t == G!ApplyBlendModeUsingBlendFunc(s, mode)
             func == IF ~ caps.advanced /\ mode = "screen" THEN mode ELSE G!Default
             equation == IF caps.advanced /\ mode # G!Default THEN mode ELSE "add"
         IN  Steady(t) /\ Blends(t, func, equation) /\ t.context.blend = s.context.blend
<1> DEFINE t == G!ApplyBlendModeUsingBlendFunc(s, mode)
           e == IF mode = G!Default THEN s.context.equation ELSE mode
           f == IF mode = "screen" THEN mode ELSE s.context.func
<1>1. ASSUME NEW k \in {"func", "equation"}, NEW v, NEW u, SetContext(s, u, k, v)
      PROVE  /\ Steady(u) /\ u.context[k] = v /\ u.context.blend = s.context.blend
             /\ k = "func" => u.context.equation = s.context.equation
             /\ k = "equation" => u.context.func = s.context.func
  BY <1>1 DEF SetContext, Steady, RectKnown, Bound, G!Scissor, ContextKeys
<1>2. mode \in Values /\ s.context.equation \in Values /\ s.context.func \in Values /\ s \in States
  BY DEF G!BlendModes, G!Default, Values, Blends, Steady
<1>3. CASE caps.advanced
  <2>1. t = [s EXCEPT !.context = [s.context EXCEPT !.equation = e]] /\ e \in Values
    BY <1>2, <1>3 DEF G!ApplyBlendModeUsingBlendFunc, States
  <2>2. e = IF mode # G!Default THEN mode ELSE "add"
    BY DEF Blends
  <2> HIDE DEF t, e
  <2>3. SetContext(s, t, "equation", e)
    BY <1>2, <2>1, ContextChanged
  <2>4. Steady(t) /\ t.context.equation = e /\ t.context.blend = s.context.blend /\ t.context.func = s.context.func
    BY <1>1, <2>3
  <2> QED BY <1>3, <2>2, <2>4 DEF Blends, t
<1>4. CASE ~ caps.advanced
  <2>1. t = [s EXCEPT !.context = [s.context EXCEPT !.func = f]] /\ f \in Values
    BY <1>2, <1>4 DEF G!ApplyBlendModeUsingBlendFunc, States
  <2>2. f = IF mode = "screen" THEN mode ELSE G!Default
    BY DEF Blends
  <2> HIDE DEF t, f
  <2>3. SetContext(s, t, "func", f)
    BY <1>2, <2>1, ContextChanged
  <2>4. Steady(t) /\ t.context.func = f /\ t.context.blend = s.context.blend /\ t.context.equation = s.context.equation
    BY <1>1, <2>3
  <2> QED BY <1>4, <2>2, <2>4 DEF Blends, t
<1> QED BY <1>3, <1>4

LEMMA BlendModeRestored ==
  ASSUME NEW s, Steady(s), NEW mode \in G!BlendModes,
         Blends(s, IF ~ caps.advanced /\ mode = "screen" THEN mode ELSE G!Default,
                   IF caps.advanced /\ mode # G!Default THEN mode ELSE "add")
  PROVE  Calm(G!RestoreBlendFuncToDefault(s, mode))
<1> DEFINE t == G!RestoreBlendFuncToDefault(s, mode)
<1>1. CASE mode = G!Default
  BY <1>1 DEF G!RestoreBlendFuncToDefault, Calm, Blends, G!Default
<1>2. ASSUME NEW k \in {"func", "equation"}, NEW v, NEW u, SetContext(s, u, k, v)
      PROVE  /\ Steady(u) /\ u.context[k] = v
             /\ k = "func" => u.context.equation = s.context.equation
             /\ k = "equation" => u.context.func = s.context.func
  BY <1>2 DEF SetContext, Steady, RectKnown, Bound, G!Scissor, ContextKeys
<1>3. s \in States /\ "add" \in Values /\ G!Default \in Values
  BY DEF Steady, Values, G!Default
<1>4. CASE mode # G!Default /\ caps.advanced
  <2>1. t = [s EXCEPT !.context = [s.context EXCEPT !.equation = "add"]]
    BY <1>3, <1>4 DEF G!RestoreBlendFuncToDefault, States
  <2> HIDE DEF t
  <2>2. SetContext(s, t, "equation", "add")
    BY <1>3, <2>1, ContextChanged
  <2>3. Steady(t) /\ t.context.equation = "add" /\ t.context.func = s.context.func
    BY <1>2, <2>2
  <2> QED BY <1>4, <2>3 DEF Calm, Blends, t
<1>5. CASE mode # G!Default /\ ~ caps.advanced
  <2>1. t = [s EXCEPT !.context = [s.context EXCEPT !.func = G!Default]]
    BY <1>3, <1>5 DEF G!RestoreBlendFuncToDefault, States
  <2> HIDE DEF t
  <2>2. SetContext(s, t, "func", G!Default)
    BY <1>3, <2>1, ContextChanged
  <2>3. Steady(t) /\ t.context.func = G!Default /\ t.context.equation = s.context.equation
    BY <1>2, <2>2
  <2> QED BY <1>5, <2>3 DEF Calm, Blends, t
<1> QED BY <1>1, <1>4, <1>5

LEMMA PassDrawn ==
  ASSUME NEW s, Calm(s), SkiaIsKnown, caps.stencil \in BOOLEAN, NEW q \in G!PassQuads
  PROVE  Calm(G!DrawRenderPassQuad(s, q))
<1> DEFINE shader == G!UsesShader(q)
           blend == ~ shader /\ (q.blend \/ q.mode # G!Default)
           s0 == G!Backdrop(s, q)
           s1 == G!SetBlendEnabled(s0, blend)
           s2 == IF q.filter THEN G!ScopedUseGrContext(s1) ELSE s1
           s3 == IF shader THEN s2 ELSE G!ApplyBlendModeUsingBlendFunc(s2, q.mode)
           p  == G!PassProgram(q)
           s4 == G!SetUseProgram(s3, p)
           s5 == G!PrepareGeometry(s4, "shared")
           func == IF ~ shader /\ ~ caps.advanced /\ q.mode = "screen" THEN q.mode ELSE G!Default
           equation == IF ~ shader /\ caps.advanced /\ q.mode # G!Default THEN q.mode ELSE "add"
           drawn == G!DrawElements(s5, G!Want(s5, p, blend, "shared", func, equation))
           sampled == [drawn EXCEPT !.wrong = @ \cup (IF G!Samplers(q) \subseteq G!BoundTextures(q) THEN {} ELSE {"sampler"})]
<1>1. q.mode \in G!BlendModes
  BY DEF G!PassQuads
<1>2. p \in Programs
  BY <1>1 DEF Programs, G!ProgramParts, G!PassProgram
<1>3. blend \in BOOLEAN
  OBVIOUS
<1>4. G!DrawRenderPassQuad(s, q) = IF shader THEN sampled ELSE G!RestoreBlendFuncToDefault(sampled, q.mode)
  BY DEF G!DrawRenderPassQuad
<1>5. Calm(s0)
  BY BackdropRead
<1> HIDE DEF s0, shader, p
<1> HIDE DEF blend
<1>6. Calm(s1) /\ s1.context.blend = blend
  BY <1>3, <1>5, CalmBlend
<1> HIDE DEF s1
<1>7. Calm(s2) /\ s2.context.blend = blend
  BY <1>6, CalmFiltered
<1> HIDE DEF s2
<1>8. Steady(s3) /\ Blends(s3, func, equation) /\ s3.context.blend = blend
  BY <1>1, <1>7, BlendModeApplied DEF Calm
<1> HIDE DEF s3, func, equation
<1>9. SetBoth(s3, s4, "program", p)
  BY <1>2, <1>8, ProgramSet DEF Steady
<1> HIDE DEF s4
<1>10. Steady(s4) /\ Blends(s4, func, equation) /\ s4.context.blend = blend /\ s4.context.program = p
  BY <1>8, <1>9, SteadySet DEF Blends, ContextKeys
<1>11. SetBoth(s4, s5, "geometry", "shared")
  BY <1>10, GeometrySet DEF Steady
<1> HIDE DEF s5
<1>12. /\ Steady(s5) /\ Blends(s5, func, equation)
       /\ s5.context.blend = blend /\ s5.context.program = p /\ s5.context.geometry = "shared"
  BY <1>10, <1>11, SteadySet DEF Blends, ContextKeys
<1>13. drawn = s5
  BY <1>12, Painted
<1> HIDE DEF drawn
<1>14. sampled = s5
  BY <1>12, <1>13, SamplersAreBound DEF Steady, States
<1> HIDE DEF sampled
<1>15. CASE shader
  BY <1>4, <1>12, <1>14, <1>15 DEF func, equation, Calm
<1>16. CASE ~ shader
  <2>1. /\ func = IF ~ caps.advanced /\ q.mode = "screen" THEN q.mode ELSE G!Default
        /\ equation = IF caps.advanced /\ q.mode # G!Default THEN q.mode ELSE "add"
    BY <1>16 DEF func, equation
  <2>2. Calm(G!RestoreBlendFuncToDefault(s5, q.mode))
    BY <1>1, <1>12, <2>1, BlendModeRestored
  <2> QED BY <1>4, <1>14, <1>16, <2>2
<1> QED BY <1>15, <1>16

-----------------------------------------------------------------------------
(* The scissor, which is part of what a batch was asked for.               *)

\* Between two quads of a pass.
Between(s) ==
  /\ s \in States /\ Copies(s) /\ s.wrong = {} /\ RectKnown(s) /\ Bound(s)
  /\ Blends(s, G!Default, "add") /\ Batched(s, "shared")

LEMMA FlushBetween ==
  ASSUME NEW s, Between(s)
  PROVE  LET t == G!FlushTextureQuadCache(s, "shared")
         IN  /\ Between(t) /\ t.batch = G!NoBatch /\ t.pass = s.pass /\ G!Scissor(t) = G!Scissor(s)
             /\ t.cached.scissorOn = s.cached.scissorOn
<1> DEFINE t == G!FlushTextureQuadCache(s, "shared")
<1>1. Flushed(s, t)
  BY Flush DEF Between
<1> HIDE DEF t
<1>2. /\ t.context.scissorOn = s.context.scissorOn /\ t.context.scissorRect = s.context.scissorRect
      /\ t.context.viewport = s.context.viewport /\ t.context.framebuffer = s.context.framebuffer
      /\ t.context.stencil = s.context.stencil /\ t.context.func = s.context.func
      /\ t.context.equation = s.context.equation
      /\ t.cached.scissorOn = s.cached.scissorOn /\ t.cached.scissorRect = s.cached.scissorRect
      /\ t.cached.reset = s.cached.reset
  BY <1>1 DEF Flushed, ContextKeys, CachedKeys
<1>3. Batched(t, "shared")
  BY <1>1 DEF Flushed, Batched, G!NoBatch
<1>4. Between(t) /\ t.batch = G!NoBatch /\ t.pass = s.pass /\ G!Scissor(t) = G!Scissor(s)
  BY <1>1, <1>2, <1>3 DEF Flushed, Between, RectKnown, Bound, Blends, G!Scissor
<1> QED BY <1>2, <1>4 DEF t

\* The test is switched, with nothing waiting.
LEMMA TestSwitched ==
  ASSUME NEW s, Between(s), s.batch = G!NoBatch, NEW on \in BOOLEAN, NEW t, SetBoth(s, t, "scissorOn", on)
  PROVE  /\ t \in States /\ Copies(t) /\ t.wrong = {} /\ Bound(t) /\ Blends(t, G!Default, "add")
         /\ Batched(t, "shared") /\ t.pass = s.pass /\ t.context.scissorOn = on
         /\ t.cached.reset = s.cached.reset /\ t.cached.scissorRect = s.cached.scissorRect
         /\ t.context.scissorRect = s.context.scissorRect
<1>1. /\ t.context.viewport = s.context.viewport /\ t.context.framebuffer = s.context.framebuffer
      /\ t.context.stencil = s.context.stencil /\ t.context.func = s.context.func
      /\ t.context.equation = s.context.equation /\ t.context.scissorRect = s.context.scissorRect
      /\ t.cached.reset = s.cached.reset /\ t.cached.scissorRect = s.cached.scissorRect
      /\ t.batch = G!NoBatch /\ t.pass = s.pass /\ t.wrong = s.wrong
  BY DEF SetBoth, Same, ContextKeys, CachedKeys
<1> QED BY <1>1 DEF SetBoth, Between, Bound, Blends, Batched, G!NoBatch

LEMMA ScissorOff ==
  ASSUME NEW s, Between(s)
  PROVE  LET t == G!EnsureScissorTestDisabled(s)
         IN  Between(t) /\ G!Scissor(t) = None /\ t.pass = s.pass
<1>1. CASE ~ s.cached.scissorOn
  <2>1. G!Scissor(s) = None
    BY <1>1 DEF Between, Copies, G!Scissor, States, CachedType
  <2> QED BY <1>1, <2>1 DEF G!EnsureScissorTestDisabled
<1>2. CASE s.cached.scissorOn
  <2> DEFINE u == G!FlushTextureQuadCache(s, "shared")
             t == [u EXCEPT !.cached.scissorOn = FALSE, !.context.scissorOn = FALSE]
  <2>1. G!EnsureScissorTestDisabled(s) = t
    BY <1>2 DEF G!EnsureScissorTestDisabled
  <2>2. Between(u) /\ u.batch = G!NoBatch /\ u.pass = s.pass
    BY FlushBetween
  <2> HIDE DEF u
  <2>3. SetBoth(u, t, "scissorOn", FALSE)
    <3>1. t = [u EXCEPT !.cached = [u.cached EXCEPT !.scissorOn = FALSE],
                        !.context = [u.context EXCEPT !.scissorOn = FALSE]]
      BY <2>2 DEF Between, States
    <3>2. [u.cached EXCEPT !.scissorOn = FALSE] \in CachedType /\ FALSE \in Values /\ u \in States /\ Copies(u)
      BY <2>2 DEF Between, States, CachedType, Values
    <3> HIDE DEF t
    <3> QED BY <3>1, <3>2, BothChanged
  <2> HIDE DEF t
  <2>4. /\ t \in States /\ Copies(t) /\ t.wrong = {} /\ Bound(t) /\ Blends(t, G!Default, "add")
        /\ Batched(t, "shared") /\ t.pass = u.pass /\ t.context.scissorOn = FALSE
        /\ t.cached.reset = u.cached.reset /\ t.cached.scissorRect = u.cached.scissorRect
        /\ t.context.scissorRect = u.context.scissorRect
    BY <2>2, <2>3, TestSwitched
  <2>5. RectKnown(t) /\ G!Scissor(t) = None /\ t.batch = G!NoBatch
    BY <2>2, <2>3, <2>4 DEF RectKnown, Between, Copies, G!Scissor, SetBoth, Same
  <2> QED BY <2>1, <2>2, <2>4, <2>5 DEF Between
<1> QED BY <1>1, <1>2

\* The test is on; its rectangle may still be another.
TestOn(t) ==
  /\ t \in States /\ Copies(t) /\ t.wrong = {} /\ Bound(t) /\ Blends(t, G!Default, "add")
  /\ Batched(t, "shared") /\ t.context.scissorOn = TRUE
  /\ ~ t.cached.reset => t.cached.scissorRect = t.context.scissorRect

LEMMA ScissorOn ==
  ASSUME NEW s, Between(s)
  PROVE  LET t == G!EnsureScissorTestEnabled(s)
         IN  TestOn(t) /\ t.pass = s.pass
<1>1. CASE s.cached.scissorOn
  <2>1. s.context.scissorOn = TRUE
    BY <1>1 DEF Between, Copies, States, CachedType
  <2> QED BY <1>1, <2>1 DEF G!EnsureScissorTestEnabled, TestOn, Between, RectKnown
<1>2. CASE ~ s.cached.scissorOn
  <2> DEFINE u == G!FlushTextureQuadCache(s, "shared")
             t == [u EXCEPT !.cached.scissorOn = TRUE, !.context.scissorOn = TRUE]
  <2>1. G!EnsureScissorTestEnabled(s) = t
    BY <1>2 DEF G!EnsureScissorTestEnabled
  <2>2. Between(u) /\ u.batch = G!NoBatch /\ u.pass = s.pass
    BY FlushBetween
  <2> HIDE DEF u
  <2>3. SetBoth(u, t, "scissorOn", TRUE)
    <3>1. t = [u EXCEPT !.cached = [u.cached EXCEPT !.scissorOn = TRUE],
                        !.context = [u.context EXCEPT !.scissorOn = TRUE]]
      BY <2>2 DEF Between, States
    <3>2. [u.cached EXCEPT !.scissorOn = TRUE] \in CachedType /\ TRUE \in Values /\ u \in States /\ Copies(u)
      BY <2>2 DEF Between, States, CachedType, Values
    <3> HIDE DEF t
    <3> QED BY <3>1, <3>2, BothChanged
  <2> HIDE DEF t
  <2>4. /\ t \in States /\ Copies(t) /\ t.wrong = {} /\ Bound(t) /\ Blends(t, G!Default, "add")
        /\ Batched(t, "shared") /\ t.pass = u.pass /\ t.context.scissorOn = TRUE
        /\ t.cached.reset = u.cached.reset /\ t.cached.scissorRect = u.cached.scissorRect
        /\ t.context.scissorRect = u.context.scissorRect
    BY <2>2, <2>3, TestSwitched
  <2> QED BY <2>1, <2>2, <2>4 DEF Between, RectKnown, TestOn
<1> QED BY <1>1, <1>2

\* The batch is drawn before the rectangle changes; only the copy is ahead.
LEMMA RectReplaced ==
  ASSUME NEW t, TestOn(t), NEW r \in Rects
  PROVE  LET w == [G!FlushTextureQuadCache([t EXCEPT !.cached.scissorRect = r], "shared") EXCEPT
                     !.context.scissorRect = r, !.cached.reset = FALSE]
         IN  Between(w) /\ G!Scissor(w) = r /\ w.pass = t.pass /\ w.batch = G!NoBatch
<1> DEFINE c1 == [t.cached EXCEPT !.scissorRect = r]
           v  == [t EXCEPT !.cached.scissorRect = r]
           u  == G!FlushTextureQuadCache(v, "shared")
           w  == [u EXCEPT !.context.scissorRect = r, !.cached.reset = FALSE]
<1>1. t \in States /\ t.cached \in CachedType /\ t.context \in [ContextKeys -> Values] /\ r \in Clips /\ r \in Values
  BY DEF TestOn, States, Clips, Values
<1>2. v = [t EXCEPT !.cached = c1, !.context = t.context] /\ c1 \in CachedType
  BY <1>1 DEF States, CachedType
<1>3. c1.scissorRect = r /\ \A k \in CachedKeys \ {"scissorRect"} : c1[k] = t.cached[k]
  BY <1>1 DEF CachedType, CachedKeys
<1> HIDE DEF v, c1
<1>4. v \in States /\ Changed(t, v, c1, t.context)
  BY <1>1, <1>2, Put
<1>5. Copies(v) /\ Batched(v, "shared")
  <2>1. Copies(v)
    BY <1>3, <1>4 DEF Changed, TestOn, Copies, CachedKeys
  <2>2. \A p, blend : Asked(v, p, blend, "shared") = Asked(t, p, blend, "shared")
    BY <1>4 DEF Changed, Asked, G!Scissor
  <2> QED BY <1>4, <2>1, <2>2 DEF Changed, TestOn, Batched
<1>6. Flushed(v, u)
  BY <1>4, <1>5, Flush
<1> HIDE DEF u
<1> DEFINE c2 == [u.cached EXCEPT !.reset = FALSE]
           x  == [u.context EXCEPT !.scissorRect = r]
<1>7. w = [u EXCEPT !.cached = c2, !.context = x] /\ u \in States
  BY <1>6 DEF Flushed, States
<1>8. c2 \in CachedType /\ x \in [ContextKeys -> Values]
  BY <1>1, <1>7 DEF States, CachedType
<1>9. /\ c2.reset = FALSE /\ \A k \in CachedKeys \ {"reset"} : c2[k] = u.cached[k]
      /\ x.scissorRect = r /\ \A k \in ContextKeys \ {"scissorRect"} : x[k] = u.context[k]
  BY <1>7 DEF States, CachedType, CachedKeys, ContextKeys
<1> HIDE DEF w, c2, x
<1>10. w \in States /\ Changed(u, w, c2, x)
  BY <1>7, <1>8, Put
<1>11. Copies(w)
  BY <1>6, <1>9, <1>10 DEF Changed, Flushed, Copies, CachedKeys, ContextKeys
<1>12. w.batch = G!NoBatch /\ w.pass = t.pass /\ w.wrong = {}
  BY <1>4, <1>6, <1>10 DEF Changed, Flushed, TestOn
<1>13. /\ w.context.scissorRect = r /\ w.context.scissorOn = TRUE /\ w.cached.reset = FALSE
       /\ w.cached.scissorRect = r
       /\ w.context.viewport = t.context.viewport /\ w.context.framebuffer = t.context.framebuffer
       /\ w.context.stencil = t.context.stencil /\ w.context.func = t.context.func
       /\ w.context.equation = t.context.equation
  BY <1>3, <1>4, <1>6, <1>9, <1>10 DEF Changed, Flushed, TestOn, CachedKeys, ContextKeys
<1>14. Between(w) /\ G!Scissor(w) = r
  BY <1>10, <1>11, <1>12, <1>13 DEF Between, TestOn, RectKnown, Bound, Blends, Batched, G!Scissor, G!NoBatch
<1> QED BY <1>12, <1>14 DEF w, u, v

LEMMA ScissorSet ==
  ASSUME NEW s, Between(s), NEW r \in Rects
  PROVE  LET t == G!SetScissorTestRect(s, r)
         IN  Between(t) /\ G!Scissor(t) = r /\ t.pass = s.pass
<1> DEFINE t == G!EnsureScissorTestEnabled(s)
           w == [G!FlushTextureQuadCache([t EXCEPT !.cached.scissorRect = r], "shared") EXCEPT
                   !.context.scissorRect = r, !.cached.reset = FALSE]
<1>1. TestOn(t) /\ t.pass = s.pass
  BY ScissorOn
<1>2. G!SetScissorTestRect(s, r) = IF t.cached.scissorRect = r /\ ~ t.cached.reset THEN t ELSE w
  BY DEF G!SetScissorTestRect
<1> HIDE DEF t
<1>3. Between(w) /\ G!Scissor(w) = r /\ w.pass = t.pass
  BY <1>1, RectReplaced
<1> HIDE DEF w
<1>4. CASE t.cached.scissorRect = r /\ ~ t.cached.reset
  BY <1>1, <1>2, <1>4 DEF TestOn, Between, RectKnown, G!Scissor
<1>5. CASE ~ (t.cached.scissorRect = r /\ ~ t.cached.reset)
  BY <1>1, <1>2, <1>3, <1>5
<1> QED BY <1>4, <1>5

\* A quad is drawn with the scissor it asked for.
Placed(s) == Between(s) /\ G!Scissor(s) = s.pass.scissor

LEMMA ScissorForQuad ==
  ASSUME NEW s, Between(s), NEW r \in Rects \cup {None}
  PROVE  Placed(G!SetScissorStateForQuad(s, r))
<1> DEFINE t == IF r = None THEN G!EnsureScissorTestDisabled(s) ELSE G!SetScissorTestRect(s, r)
           u == [t EXCEPT !.pass.scissor = r]
<1>1. G!SetScissorStateForQuad(s, r) = u
  BY DEF G!SetScissorStateForQuad
<1>2. Between(t) /\ G!Scissor(t) = r
  BY ScissorOff, ScissorSet
<1> HIDE DEF t
<1>3. /\ u \in States /\ u.cached = t.cached /\ u.context = t.context /\ u.batch = t.batch
      /\ u.wrong = t.wrong /\ u.pass.target = t.pass.target /\ u.pass.scissor = r
  BY <1>2 DEF Between, States, PassType, Clips
<1> HIDE DEF u
<1>4. \A p, blend : Asked(u, p, blend, "shared") = Asked(t, p, blend, "shared")
  BY <1>3 DEF Asked, G!Scissor
<1>5. Placed(u)
  BY <1>2, <1>3, <1>4 DEF Placed, Between, Copies, RectKnown, Bound, Blends, Batched, G!Scissor
<1> QED BY <1>1, <1>5

LEMMA PlacedFlushed ==
  ASSUME NEW s, Placed(s)
  PROVE  Calm(G!FlushTextureQuadCache(s, "shared"))
<1> DEFINE t == G!FlushTextureQuadCache(s, "shared")
<1>1. Between(t) /\ t.batch = G!NoBatch /\ t.pass = s.pass /\ G!Scissor(t) = G!Scissor(s)
  BY FlushBetween DEF Placed
<1> HIDE DEF t
<1>2. Calm(t)
  BY <1>1 DEF Placed, Between, Calm, Steady
<1> QED BY <1>2 DEF t

LEMMA CalmIsBetween ==
  ASSUME NEW s, Calm(s)
  PROVE  Between(s) /\ Placed(s)
  BY DEF Calm, Steady, Between, Placed, Batched, G!NoBatch

-----------------------------------------------------------------------------
(* Textured quads.                                                         *)

\* A quad that is asked for now joins the batch.
LEMMA QuadAsked ==
  ASSUME NEW s, Placed(s), NEW p \in Programs, NEW blend \in BOOLEAN, NEW g \in {"shared", "clipped"},
         caps.stencil \in BOOLEAN
  PROVE  G!Plain(s, p, blend, g) = Asked(s, p, blend, g) /\ G!Plain(s, p, blend, g) \in QuadType
<1>1. G!Plain(s, p, blend, g) = Asked(s, p, blend, g)
  BY DEF G!Plain, G!Want, Asked, Placed, Between, Bound, Blends
<1>2. s.pass.target \in G!Targets /\ s.pass.scissor \in Clips
  BY DEF Placed, Between, Bound, States, PassType
<1>3. G!Plain(s, p, blend, g) \in QuadType
  BY <1>2 DEF G!Plain, G!Want, QuadType
<1> QED BY <1>1, <1>3

\* The batch of t is that of s with one quad more; the rest is the same.
Joined(s, t, p, blend, quads, e) ==
  /\ t \in States /\ t.cached = s.cached /\ t.context = s.context /\ t.pass = s.pass /\ t.wrong = s.wrong
  /\ t.batch = [program |-> p, blend |-> blend, quads |-> Append(quads, e)]

LEMMA BatchGrows ==
  ASSUME NEW s \in States, NEW p \in Programs, NEW blend \in BOOLEAN, NEW quads \in Seq(QuadType), NEW e \in QuadType,
         NEW u, u = [s EXCEPT !.batch = [program |-> p, blend |-> blend, quads |-> quads]]
  PROVE  Joined(s, [u EXCEPT !.batch.quads = Append(@, e)], p, blend, quads, e)
<1> DEFINE b == [program |-> p, blend |-> blend, quads |-> Append(quads, e)]
           t == [u EXCEPT !.batch.quads = Append(@, e)]
<1>1. b \in BatchType
  <2>1. Append(quads, e) \in Seq(QuadType)
    OBVIOUS
  <2> QED BY <2>1 DEF BatchType
<1>2. t = [s EXCEPT !.batch = b]
  <2> DEFINE b0 == [program |-> p, blend |-> blend, quads |-> quads]
  <2>1. u.batch = b0 /\ \A x : [u EXCEPT !.batch = x] = [s EXCEPT !.batch = x]
    BY DEF States
  <2>2. [b0 EXCEPT !.quads = Append(b0.quads, e)] = b
    <3>1. \A x : [b0 EXCEPT !.quads = x] = [program |-> p, blend |-> blend, quads |-> x]
      OBVIOUS
    <3>2. b0.quads = quads
      OBVIOUS
    <3> QED BY <3>1, <3>2
  <2> HIDE DEF b0, b
  <2>3. t = [u EXCEPT !.batch = [b0 EXCEPT !.quads = Append(b0.quads, e)]]
    BY <2>1
  <2> QED BY <2>1, <2>2, <2>3
<1> HIDE DEF b, t
<1>3. t \in States /\ t.cached = s.cached /\ t.context = s.context /\ t.pass = s.pass /\ t.wrong = s.wrong /\ t.batch = b
  BY <1>1, <1>2 DEF States
<1> QED BY <1>3 DEF Joined, b, t

LEMMA QuadEnqueued ==
  ASSUME NEW s, Placed(s), NEW p \in Programs, NEW blend \in BOOLEAN, caps.stencil \in BOOLEAN
  PROVE  Between(G!Enqueued(s, p, blend, FALSE))
<1> DEFINE b == s.batch
           fits == b.program = p /\ b.blend = blend /\ Len(b.quads) < MaxBatch
           f == G!FlushTextureQuadCache(s, "shared")
           u == IF fits THEN s ELSE [f EXCEPT !.batch = [program |-> p, blend |-> blend, quads |-> <<>>]]
           e == G!Plain(s, p, blend, "shared")
           t == [u EXCEPT !.batch.quads = Append(@, e)]
<1>1. G!Enqueued(s, p, blend, FALSE) = t
  BY DEF G!Enqueued
<1>2. e = Asked(s, p, blend, "shared") /\ e \in QuadType
  BY QuadAsked
<1>3. s \in States /\ b \in BatchType /\ Between(s)
  BY DEF Placed, Between, States
<1>4. ASSUME NEW v, Between(v), NEW quads \in Seq(QuadType), Joined(v, t, p, blend, quads, e),
             Len(quads) < MaxBatch, e = Asked(v, p, blend, "shared"),
             \A i \in 1 .. Len(quads) : quads[i] = Asked(v, p, blend, "shared")
      PROVE  Between(t)
  <2> HIDE DEF t, e, u, fits, f, b
  <2>1. /\ t \in States /\ t.cached = v.cached /\ t.context = v.context /\ t.pass = v.pass /\ t.wrong = v.wrong
        /\ t.batch.program = p /\ t.batch.blend = blend /\ t.batch.quads = Append(quads, e)
    BY <1>4 DEF Joined
  <2>2. Asked(t, p, blend, "shared") = Asked(v, p, blend, "shared")
    BY <2>1 DEF Asked, G!Scissor
  <2>3. e \in QuadType
    BY <1>2
  <2>4. /\ Len(Append(quads, e)) = Len(quads) + 1 /\ Len(quads) \in Nat
        /\ \A i \in 1 .. Len(quads) + 1 : Append(quads, e)[i] = IF i <= Len(quads) THEN quads[i] ELSE e
    BY <2>3, AppendProperties
  <2>5. Batched(t, "shared")
    <3>1. p # None /\ MaxBatch \in Nat
      BY GLConstants
    <3>2. Len(quads) + 1 \in 1 .. MaxBatch
      BY <1>4, <2>4, <3>1
    <3>3. \A i \in 1 .. Len(quads) + 1 : Append(quads, e)[i] = Asked(t, p, blend, "shared")
      BY <1>4, <2>2, <2>4
    <3> QED BY <2>1, <2>4, <3>1, <3>2, <3>3 DEF Batched
  <2> QED BY <1>4, <2>1, <2>5 DEF Between, Copies, RectKnown, Bound, Blends
<1>5. CASE fits
  <2>1. b = [program |-> p, blend |-> blend, quads |-> b.quads] /\ b.quads \in Seq(QuadType)
    BY <1>3, <1>5 DEF BatchType
  <2>2. u = [s EXCEPT !.batch = [program |-> p, blend |-> blend, quads |-> b.quads]]
    BY <1>3, <1>5, <2>1 DEF States
  <2>3. Joined(s, t, p, blend, b.quads, e)
    <3> HIDE DEF u, e, b, fits
    <3> QED BY <1>2, <1>3, <2>1, <2>2, BatchGrows
  <2>4. \A i \in 1 .. Len(b.quads) : b.quads[i] = Asked(s, p, blend, "shared")
    BY <1>3, <1>5, GLConstants DEF Between, Batched
  <2>5. Len(b.quads) < MaxBatch
    BY <1>5
  <2> HIDE DEF t, e, u, f, b, fits
  <2>6. Between(t)
    BY <1>2, <1>3, <1>4, <2>1, <2>3, <2>4, <2>5
  <2> QED BY <1>1, <2>6
<1>6. CASE ~ fits
  <2>1. Between(f) /\ f.pass = s.pass /\ G!Scissor(f) = G!Scissor(s)
    BY <1>3, FlushBetween
  <2>2. Placed(f) /\ f \in States
    BY <2>1 DEF Placed, Between
  <2>3. u = [f EXCEPT !.batch = [program |-> p, blend |-> blend, quads |-> <<>>]]
    BY <1>6
  <2> HIDE DEF f, u
  <2>4. e = G!Plain(f, p, blend, "shared")
    BY <2>1 DEF G!Plain, G!Want
  <2>5. e = Asked(f, p, blend, "shared")
    BY <2>2, <2>4, QuadAsked
  <2>6. <<>> \in Seq(QuadType) /\ Len(<<>>) = 0 /\ 0 < MaxBatch
    BY GLConstants
  <2> HIDE DEF e
  <2>7. Joined(f, t, p, blend, <<>>, e)
    BY <1>2, <2>2, <2>3, <2>6, BatchGrows
  <2> HIDE DEF t
  <2> DEFINE none == <<>>
  <2>8. \A i \in 1 .. Len(none) : none[i] = Asked(f, p, blend, "shared")
    BY <2>6
  <2> HIDE DEF none
  <2>9. none \in Seq(QuadType) /\ Joined(f, t, p, blend, none, e) /\ Len(none) < MaxBatch
    BY <2>6, <2>7 DEF none
  <2>10. Between(t)
    BY <1>4, <2>1, <2>5, <2>8, <2>9
  <2> QED BY <1>1, <2>10
<1> QED BY <1>5, <1>6

\* A clipped quad is drawn at once, with vertices of its own.
LEMMA ClippedDrawn ==
  ASSUME NEW s, Calm(s), NEW p \in Programs, NEW blend \in BOOLEAN, caps.stencil \in BOOLEAN
  PROVE  Between(G!FlushTextureQuadCache(G!PrepareGeometry(G!Enqueued(s, p, blend, TRUE), "clipped"), "clipped"))
<1> DEFINE e == G!Plain(s, p, blend, "clipped")
           t == G!Enqueued(s, p, blend, TRUE)
           u == G!PrepareGeometry(t, "clipped")
           v == G!FlushTextureQuadCache(u, "clipped")
<1>1. s \in States /\ s.batch = G!NoBatch /\ Between(s) /\ Placed(s)
  BY CalmIsBetween DEF Calm, Steady
<1>2. G!FlushTextureQuadCache(s, "shared") = s
  BY <1>1 DEF G!FlushTextureQuadCache, G!NoBatch
<1>3. e = Asked(s, p, blend, "clipped") /\ e \in QuadType
  BY <1>1, QuadAsked
<1>4. Joined(s, t, p, blend, <<>>, e)
  <2> DEFINE w == [s EXCEPT !.batch = [program |-> p, blend |-> blend, quads |-> <<>>]]
  <2>1. s.batch.program # p
    BY <1>1, GLConstants DEF G!NoBatch
  <2>2. t = [w EXCEPT !.batch.quads = Append(@, e)]
    BY <1>2, <2>1 DEF G!Enqueued
  <2>3. <<>> \in Seq(QuadType)
    OBVIOUS
  <2> HIDE DEF w, e, t
  <2>4. w = [s EXCEPT !.batch = [program |-> p, blend |-> blend, quads |-> <<>>]]
    BY DEF w
  <2> QED BY <1>1, <1>3, <2>2, <2>3, <2>4, BatchGrows
<1> HIDE DEF t
<1>5. /\ t \in States /\ t.cached = s.cached /\ t.context = s.context /\ t.pass = s.pass /\ t.wrong = s.wrong
      /\ t.batch = [program |-> p, blend |-> blend, quads |-> Append(<<>>, e)]
  BY <1>4 DEF Joined
<1>6. SetBoth(t, u, "geometry", "clipped")
  BY <1>1, <1>5, GeometrySet DEF Between, Copies
<1> HIDE DEF u
<1>7. /\ u \in States /\ Copies(u) /\ u.pass = s.pass /\ u.wrong = s.wrong /\ u.batch = t.batch
      /\ \A k \in ContextKeys \ {"geometry"} : u.context[k] = s.context[k]
      /\ \A k \in CachedKeys \ {"geometry"} : u.cached[k] = s.cached[k]
  BY <1>5, <1>6 DEF SetBoth, Same
<1>8. Batched(u, "clipped")
  <2>1. Asked(u, p, blend, "clipped") = e
    BY <1>3, <1>7 DEF Asked, G!Scissor, ContextKeys
  <2> DEFINE quads == Append(<<>>, e)
  <2>2. quads = <<e>>
    OBVIOUS
  <2>3. u.batch.program = p /\ u.batch.blend = blend /\ u.batch.quads = quads
    BY <1>5, <1>7
  <2> HIDE DEF quads, e
  <2>4. Len(quads) = 1 /\ quads[1] = e
    BY <2>2
  <2>5. 1 \in 1 .. MaxBatch /\ p # None
    BY GLConstants
  <2> QED BY <2>1, <2>3, <2>4, <2>5 DEF Batched
<1>9. Flushed(u, v)
  BY <1>7, <1>8, Flush
<1> HIDE DEF v
<1>10. /\ v.context.scissorOn = s.context.scissorOn /\ v.context.scissorRect = s.context.scissorRect
       /\ v.context.viewport = s.context.viewport /\ v.context.framebuffer = s.context.framebuffer
       /\ v.context.stencil = s.context.stencil /\ v.context.func = s.context.func
       /\ v.context.equation = s.context.equation
       /\ v.cached.scissorOn = s.cached.scissorOn /\ v.cached.scissorRect = s.cached.scissorRect
       /\ v.cached.reset = s.cached.reset
       /\ v.pass = s.pass /\ v.wrong = s.wrong /\ v \in States /\ Copies(v) /\ v.batch = G!NoBatch
  BY <1>7, <1>9 DEF Flushed, ContextKeys, CachedKeys
<1>11. Between(v)
  BY <1>1, <1>10 DEF Between, RectKnown, Bound, Blends, Batched, G!NoBatch
<1> QED BY <1>11 DEF v, u, t

LEMMA TextureDrawn ==
  ASSUME NEW s, Placed(s), NEW p \in Programs, NEW blend \in BOOLEAN, NEW clip \in BOOLEAN, caps.stencil \in BOOLEAN
  PROVE  Between(G!EnqueueTextureQuad(s, p, blend, clip))
<1>1. CASE clip
  <2> DEFINE f == G!FlushTextureQuadCache(s, "shared")
  <2>1. Calm(f)
    BY PlacedFlushed
  <2> HIDE DEF f
  <2>2. Between(G!FlushTextureQuadCache(G!PrepareGeometry(G!Enqueued(f, p, blend, TRUE), "clipped"), "clipped"))
    BY <2>1, ClippedDrawn
  <2> QED BY <1>1, <2>2 DEF G!EnqueueTextureQuad, f
<1>2. CASE ~ clip
  BY <1>2, QuadEnqueued DEF G!EnqueueTextureQuad
<1> QED BY <1>1, <1>2

LEMMA QuadDrawn ==
  ASSUME NEW s, Placed(s), NEW q \in G!Quads, SkiaIsKnown, caps.stencil \in BOOLEAN
  PROVE  Between(G!DoDrawQuad(s, q))
<1> DEFINE t == G!FlushTextureQuadCache(s, "shared")
           u == G!DoDrawQuad(s, q)
<1>1. Calm(t)
  BY PlacedFlushed
<1>2. q.material # "texture" => G!FlushFor(s, q) = t
  BY DEF G!FlushFor
<1> HIDE DEF t
<1>3. \A p \in SUBSET {"solid", "aa", "tile", "opaque", "yuv", "alpha", "stream", "io", "a", "b"} : p \in Programs
  BY DEF Programs, G!ProgramParts
<1>4. CASE q.material = "debug"
  <2>1. q.blend \in BOOLEAN
    BY <1>4 DEF G!Quads
  <2>2. u = G!DrawDebugBorderQuad(t, q.blend)
    BY <1>2, <1>4 DEF G!DoDrawQuad
  <2> QED BY <1>1, <2>1, <2>2, BorderDrawn, CalmIsBetween
<1>5. CASE q.material = "solid"
  <2> DEFINE p == IF q.aa THEN {"solid", "aa"} ELSE {"solid"}
             blend == q.blend \/ q.aa
             w == G!SetBlendEnabled(G!SetUseProgram(t, p), blend)
  <2>1. blend \in BOOLEAN /\ p \in Programs
    BY <1>3
  <2>2. u = IF q.visible THEN G!DrawQuadGeometry(w, p, blend) ELSE t
    BY <1>2, <1>5 DEF G!DoDrawQuad, G!DrawSolidColorQuad
  <2> HIDE DEF p, blend
  <2>3. Dressed(w, p, blend)
    BY <1>1, <2>1, ProgramThenBlend
  <2> HIDE DEF w
  <2>4. Calm(u)
    BY <1>1, <2>2, <2>3, GeometryDrawn
  <2> QED BY <2>4, CalmIsBetween
<1>6. CASE q.material = "tile"
  <2>1. q.blend \in BOOLEAN
    BY <1>6 DEF G!Quads
  <2>2. u = G!DrawContentQuad(t, q.blend, q.aa, q.clip, q.visible)
    BY <1>2, <1>6 DEF G!DoDrawQuad
  <2>3. CASE q.aa
    <3> DEFINE p == {"tile", "aa"}
               w == G!SetBlendEnabled(G!SetUseProgram(t, p), TRUE)
    <3>1. p \in Programs
      BY <1>3
    <3>2. u = IF q.visible THEN G!DrawQuadGeometry(w, p, TRUE) ELSE t
      BY <2>2, <2>3 DEF G!DrawContentQuad, G!DrawContentQuadAA
    <3> HIDE DEF p
    <3>3. Dressed(w, p, TRUE)
      BY <1>1, <3>1, ProgramThenBlend
    <3> HIDE DEF w
    <3>4. Calm(u)
      BY <1>1, <3>2, <3>3, GeometryDrawn
    <3> QED BY <3>4, CalmIsBetween
  <2>4. CASE ~ q.aa
    <3> DEFINE p == IF q.blend THEN {"tile"} ELSE {"tile", "opaque"}
               w == G!SetBlendEnabled(G!SetUseProgram(t, p), q.blend)
    <3>1. p \in Programs
      BY <1>3
    <3>2. u = G!DrawGeometry(w, p, q.blend, q.clip)
      BY <2>2, <2>4 DEF G!DrawContentQuad, G!DrawContentQuadNoAA
    <3> HIDE DEF p
    <3>3. Dressed(w, p, q.blend)
      BY <1>1, <2>1, <3>1, ProgramThenBlend
    <3> HIDE DEF w
    <3>4. Calm(u)
      BY <3>2, <3>3, GeometryDrawn
    <3> QED BY <3>4, CalmIsBetween
  <2> QED BY <2>3, <2>4
<1>7. ASSUME NEW p \in Programs, q.blend \in BOOLEAN,
             u = G!DrawGeometry(G!SetUseProgram(G!SetBlendEnabled(t, q.blend), p), p, q.blend, q.clip)
      PROVE  Between(u)
  <2> DEFINE w == G!SetUseProgram(G!SetBlendEnabled(t, q.blend), p)
  <2>1. Dressed(w, p, q.blend)
    BY <1>1, <1>7, BlendThenProgram
  <2> HIDE DEF w
  <2>2. Calm(G!DrawGeometry(w, p, q.blend, q.clip))
    BY <2>1, GeometryDrawn
  <2> QED BY <1>7, <2>2, CalmIsBetween DEF w
<1>8. CASE q.material = "yuv"
  <2> DEFINE p == IF q.alpha THEN {"yuv", "alpha"} ELSE {"yuv"}
  <2>1. q.blend \in BOOLEAN /\ p \in Programs
    BY <1>3, <1>8 DEF G!Quads
  <2>2. u = G!DrawGeometry(G!SetUseProgram(G!SetBlendEnabled(t, q.blend), p), p, q.blend, q.clip)
    BY <1>2, <1>8 DEF G!DoDrawQuad, G!DrawYUVVideoQuad
  <2> HIDE DEF p
  <2> QED BY <1>7, <2>1, <2>2
<1>9. CASE q.material \in {"stream", "io"}
  <2> DEFINE p == {q.material}
  <2>1. q.blend \in BOOLEAN /\ p \in Programs
    BY <1>3, <1>9 DEF G!Quads
  <2>2. u = G!DrawGeometry(G!SetUseProgram(G!SetBlendEnabled(t, q.blend), p), p, q.blend, q.clip)
    BY <1>2, <1>9 DEF G!DoDrawQuad, G!DrawStreamVideoQuad, G!DrawIOSurfaceQuad
  <2> HIDE DEF p
  <2> QED BY <1>7, <2>1, <2>2
<1>10. CASE q.material = "texture"
  <2>1. q.blend \in BOOLEAN /\ q.clip \in BOOLEAN /\ q.texture \in {"a", "b"}
    BY <1>10 DEF G!Quads
  <2>2. {q.texture} \in Programs
    BY <1>3, <2>1
  <2>3. u = G!EnqueueTextureQuad(s, {q.texture}, q.blend, q.clip)
    BY <1>10 DEF G!DoDrawQuad, G!FlushFor
  <2> QED BY <2>1, <2>2, <2>3, TextureDrawn
<1>11. CASE q.material = "pass"
  <2>1. q.quad \in G!PassQuads
    BY <1>11 DEF G!Quads
  <2>2. u = G!DrawRenderPassQuad(t, q.quad)
    BY <1>2, <1>11 DEF G!DoDrawQuad
  <2> QED BY <1>1, <2>1, <2>2, PassDrawn, CalmIsBetween
<1>12. q.material \in {"debug", "solid", "tile", "yuv", "stream", "io", "texture", "pass"}
  BY DEF G!Quads
<1> QED BY <1>4, <1>5, <1>6, <1>8, <1>9, <1>10, <1>11, <1>12

-----------------------------------------------------------------------------
(* Frames.                                                                 *)

\* Between two passes of a frame.
Framed(s) ==
  /\ s \in States /\ Copies(s) /\ s.wrong = {} /\ RectKnown(s)
  /\ Blends(s, G!Default, "add") /\ s.batch = G!NoBatch

Known(at, s) ==
  /\ at \in {"idle", "frame", "pass"}
  /\ s \in States /\ s.wrong = {}
  /\ at = "idle" => s.batch = G!NoBatch
  /\ at = "frame" => Framed(s)
  /\ at = "pass" => Between(s)

FrameType == [phase : {"idle", "frame", "pass"}, quads : Nat]

DrawnSoFar == caps.stencil \in BOOLEAN /\ frame \in FrameType /\ Known(frame.phase, G!Now)

LEMMA DrawnFirst == G!Init => DrawnSoFar
<1> SUFFICES ASSUME G!Init PROVE DrawnSoFar
  OBVIOUS
<1>1. cached \in CachedType
  BY DEF G!Init, CachedType, Clips
<1>2. context \in [ContextKeys -> Values]
  BY DEF G!Init, ContextKeys, Values
<1>3. batch \in BatchType /\ batch = G!NoBatch
  BY DEF G!Init, BatchType, G!NoBatch
<1>4. /\ pass \in PassType /\ wrong = {} /\ frame.phase = "idle" /\ frame \in FrameType
      /\ caps.stencil \in BOOLEAN
  BY DEF G!Init, PassType, Clips, FrameType
<1>5. G!Now \in States /\ G!Now.wrong = {} /\ G!Now.batch = G!NoBatch
  BY <1>1, <1>2, <1>3, <1>4 DEF G!Now, States
<1> QED BY <1>4, <1>5 DEF DrawnSoFar, Known

\* A handler ends in the state it computes.
LEMMA Becoming ==
  ASSUME NEW t \in States, G!Becomes(t), NEW at, frame' \in FrameType, frame'.phase = at, UNCHANGED caps,
         Known(at, t), caps.stencil \in BOOLEAN
  PROVE  DrawnSoFar'
<1>1. G!Now' = t
  BY DEF G!Becomes, G!Now, States
<1> QED BY <1>1 DEF DrawnSoFar, Known, Framed, Between, Bound

LEMMA DrawnBegin == DrawnSoFar /\ G!BeginDrawingFrame => DrawnSoFar'
<1> SUFFICES ASSUME DrawnSoFar, G!BeginDrawingFrame PROVE DrawnSoFar'
  OBVIOUS
<1> DEFINE x  == [[k \in DOMAIN context |-> Foreign] EXCEPT !.equation = "add"]
           s  == [G!Now EXCEPT !.context = x, !.pass = [target |-> None, scissor |-> None]]
           c  == [s.cached EXCEPT !.scissorOn = FALSE, !.reset = TRUE, !.stencil = FALSE,
                                  !.blend = TRUE, !.program = None]
           s1 == [s EXCEPT !.cached.scissorOn = FALSE, !.cached.reset = TRUE, !.cached.stencil = FALSE,
                           !.cached.blend = TRUE, !.cached.program = None]
           t  == G!RestoreGLState(s1)
<1>1. /\ frame.phase = "idle" /\ frame' \in FrameType /\ frame'.phase = "frame" /\ UNCHANGED caps
      /\ G!Becomes(G!ReinitializeGLState(s))
  BY DEF G!BeginDrawingFrame, G!Now, FrameType
<1>2. /\ G!Now \in States /\ G!Now.wrong = {} /\ G!Now.batch = G!NoBatch /\ caps.stencil \in BOOLEAN
      /\ context \in [ContextKeys -> Values]
  BY <1>1 DEF DrawnSoFar, Known, States, G!Now
<1>3. x \in [ContextKeys -> Values] /\ x.equation = "add"
  <2>1. Foreign \in Values /\ "add" \in Values /\ "equation" \in ContextKeys
    BY DEF Values, ContextKeys
  <2> QED BY <1>2, <2>1
<1> HIDE DEF x
<1>4. s \in States /\ s.wrong = {} /\ s.batch = G!NoBatch /\ s.context = x
  BY <1>2, <1>3 DEF States, PassType, Clips
<1> HIDE DEF s
<1>5. c \in CachedType /\ c.scissorOn = FALSE /\ c.reset = TRUE
  BY <1>4 DEF States, CachedType
<1>6. s1 = [s EXCEPT !.cached = c, !.context = x]
  BY <1>4 DEF States
<1> HIDE DEF c, s1
<1>7. s1 \in States /\ Changed(s, s1, c, x)
  BY <1>3, <1>4, <1>5, <1>6, Put
<1>8. Restored(s1, t)
  BY <1>7, StateRestored
<1>9. G!ReinitializeGLState(s) = t
  BY DEF G!ReinitializeGLState, s1
<1> HIDE DEF t
<1>10. /\ t.cached.reset = TRUE /\ t.cached.scissorOn = FALSE
       /\ t.context.equation = "add" /\ t.context.func = G!Default
       /\ t.wrong = {} /\ t.batch = G!NoBatch /\ t \in States /\ Copies(t)
  BY <1>3, <1>4, <1>5, <1>7, <1>8 DEF Restored, Changed, CachedKeys
<1>11. Known("frame", t)
  BY <1>10 DEF Known, Framed, RectKnown, Blends
<1> QED BY <1>1, <1>2, <1>9, <1>10, <1>11, Becoming

LEMMA Cleared ==
  ASSUME NEW s, Between(s), NEW r, G!Scissor(s) = r
  PROVE  G!ClearFramebuffer(s, r) = s
<1>1. s \in States /\ s.wrong = {}
  BY DEF Between
<1> QED BY <1>1 DEF G!ClearFramebuffer, States

LEMMA SurfacePrepared ==
  ASSUME NEW s, Framed(s), NEW target \in G!Targets, NEW mode \in {"preserve", "full", "scissored"}, NEW r \in Rects,
         caps.stencil \in BOOLEAN
  PROVE  Between(G!PrepareSurfaceForPass(G!UseRenderPass(s, target), mode, r))
<1> DEFINE u == G!SetViewport(G!UseRenderPass(s, target))
<1>1. Viewed(s, u, target)
  BY ViewportSet DEF Framed
<1>2. G!PrepareSurfaceForPass(G!UseRenderPass(s, target), mode, r) =
        CASE mode = "preserve"  -> G!EnsureScissorTestDisabled(u)
          [] mode = "full"      -> G!ClearFramebuffer(G!EnsureScissorTestDisabled(u), None)
          [] mode = "scissored" -> G!ClearFramebuffer(G!SetScissorTestRect(u, r), r)
  BY DEF G!PrepareSurfaceForPass
<1> HIDE DEF u
<1>3. Between(u)
  <2>1. /\ u.context.scissorOn = s.context.scissorOn /\ u.context.scissorRect = s.context.scissorRect
        /\ u.context.func = s.context.func /\ u.context.equation = s.context.equation
        /\ u.cached.scissorOn = s.cached.scissorOn /\ u.cached.scissorRect = s.cached.scissorRect
        /\ u.cached.reset = s.cached.reset
    BY <1>1 DEF Viewed, ContextKeys, CachedKeys
  <2> QED BY <1>1, <2>1 DEF Viewed, Framed, Between, RectKnown, Blends, Batched, G!NoBatch
<1>4. CASE mode = "preserve"
  BY <1>2, <1>3, <1>4, ScissorOff
<1>5. CASE mode = "full"
  <2> DEFINE w == G!EnsureScissorTestDisabled(u)
  <2>1. Between(w) /\ G!Scissor(w) = None
    BY <1>3, ScissorOff
  <2> HIDE DEF w
  <2>2. G!ClearFramebuffer(w, None) = w
    BY <2>1, Cleared
  <2> QED BY <1>2, <1>5, <2>1, <2>2 DEF w
<1>6. CASE mode = "scissored"
  <2> DEFINE w == G!SetScissorTestRect(u, r)
  <2>1. Between(w) /\ G!Scissor(w) = r
    BY <1>3, ScissorSet
  <2> HIDE DEF w
  <2>2. G!ClearFramebuffer(w, r) = w
    BY <2>1, Cleared
  <2> QED BY <1>2, <1>6, <2>1, <2>2 DEF w
<1> QED BY <1>4, <1>5, <1>6

LEMMA DrawnPass == DrawnSoFar /\ G!DrawRenderPass => DrawnSoFar'
<1> SUFFICES ASSUME DrawnSoFar, G!DrawRenderPass PROVE DrawnSoFar'
  OBVIOUS
<1>1. /\ frame.phase = "frame" /\ frame' = [frame EXCEPT !.phase = "pass"] /\ UNCHANGED caps
  BY DEF G!DrawRenderPass
<1>2. PICK target \in G!Targets, mode \in {"preserve", "full", "scissored"}, r \in Rects :
        G!Becomes(G!PrepareSurfaceForPass(G!UseRenderPass(G!Now, target), mode, r))
  BY DEF G!DrawRenderPass
<1> DEFINE t == G!PrepareSurfaceForPass(G!UseRenderPass(G!Now, target), mode, r)
<1>3. Framed(G!Now) /\ caps.stencil \in BOOLEAN
  BY <1>1 DEF DrawnSoFar, Known
<1>4. Between(t)
  BY <1>3, SurfacePrepared
<1> HIDE DEF t
<1>5. t \in States /\ Known("pass", t)
  BY <1>4 DEF Known, Between
<1>6. frame' \in FrameType /\ frame'.phase = "pass"
  BY <1>1 DEF DrawnSoFar, FrameType
<1> QED BY <1>1, <1>2, <1>3, <1>5, <1>6, Becoming DEF t

LEMMA DrawnQuad == DrawnSoFar /\ SkiaIsKnown /\ G!DrawQuad => DrawnSoFar'
<1> SUFFICES ASSUME DrawnSoFar, SkiaIsKnown, G!DrawQuad PROVE DrawnSoFar'
  OBVIOUS
<1>1. frame.phase = "pass" /\ frame' = [frame EXCEPT !.quads = @ + 1] /\ UNCHANGED caps
  BY DEF G!DrawQuad
<1>2. PICK r \in Rects \cup {None}, q \in G!Quads : G!Becomes(G!DoDrawQuad(G!SetScissorStateForQuad(G!Now, r), q))
  BY DEF G!DrawQuad
<1> DEFINE s == G!SetScissorStateForQuad(G!Now, r)
           t == G!DoDrawQuad(s, q)
<1>3. Between(G!Now) /\ caps.stencil \in BOOLEAN
  BY <1>1 DEF DrawnSoFar, Known
<1>4. Placed(s)
  BY <1>3, ScissorForQuad
<1> HIDE DEF s
<1>5. Between(t)
  BY <1>3, <1>4, QuadDrawn
<1> HIDE DEF t
<1>6. t \in States /\ Known("pass", t)
  BY <1>5 DEF Known, Between
<1>7. frame' \in FrameType /\ frame'.phase = "pass"
  BY <1>1 DEF DrawnSoFar, FrameType
<1> QED BY <1>1, <1>2, <1>3, <1>6, <1>7, Becoming DEF s, t

LEMMA DrawnList == DrawnSoFar /\ G!FinishDrawingQuadList => DrawnSoFar'
<1> SUFFICES ASSUME DrawnSoFar, G!FinishDrawingQuadList PROVE DrawnSoFar'
  OBVIOUS
<1> DEFINE t == G!FlushTextureQuadCache(G!Now, "shared")
           u == G!PrepareGeometry(t, None)
<1>1. frame.phase = "pass" /\ frame' = [frame EXCEPT !.phase = "frame"] /\ UNCHANGED caps
  BY DEF G!FinishDrawingQuadList
<1>2. G!Becomes(t) \/ G!Becomes(u)
  BY DEF G!FinishDrawingQuadList
<1>3. Between(G!Now) /\ caps.stencil \in BOOLEAN
  BY <1>1 DEF DrawnSoFar, Known
<1>4. Between(t) /\ t.batch = G!NoBatch
  BY <1>3, FlushBetween
<1> HIDE DEF t
<1>5. Framed(t) /\ t \in States /\ t.wrong = {}
  BY <1>4 DEF Between, Framed
<1>6. Framed(u) /\ u \in States /\ u.wrong = {}
  <2>1. CASE t.cached.geometry = None
    BY <1>5, <2>1 DEF G!PrepareGeometry
  <2>2. CASE t.cached.geometry # None
    <3> DEFINE c == [t.cached EXCEPT !.geometry = None]
    <3>1. /\ t.cached \in CachedType /\ t.context \in [ContextKeys -> Values]
          /\ [t.context EXCEPT !.geometry = t.context.geometry] = t.context
      BY <1>5 DEF States
    <3>2. u = [t EXCEPT !.cached = c, !.context = t.context]
      BY <2>2, <3>1 DEF G!PrepareGeometry
    <3>3. c \in CachedType /\ c.geometry = None /\ \A k \in CachedKeys \ {"geometry"} : c[k] = t.cached[k]
      BY <3>1 DEF CachedType, CachedKeys
    <3> HIDE DEF u, c
    <3>4. u \in States /\ Changed(t, u, c, t.context)
      BY <1>5, <3>1, <3>2, <3>3, Put
    <3> QED BY <1>5, <3>3, <3>4 DEF Framed, Changed, Copies, RectKnown, Blends, CachedKeys
  <2> QED BY <2>1, <2>2
<1> HIDE DEF u
<1>7. Known("frame", t) /\ Known("frame", u)
  BY <1>5, <1>6 DEF Known
<1>8. frame' \in FrameType /\ frame'.phase = "frame"
  BY <1>1 DEF DrawnSoFar, FrameType
<1> QED BY <1>1, <1>2, <1>3, <1>5, <1>6, <1>7, <1>8, Becoming

LEMMA DrawnFrame == DrawnSoFar /\ G!FinishDrawingFrame => DrawnSoFar'
<1> SUFFICES ASSUME DrawnSoFar, G!FinishDrawingFrame PROVE DrawnSoFar'
  OBVIOUS
<1> DEFINE t == [G!Now EXCEPT !.cached.blend = FALSE, !.context.blend = FALSE]
<1>1. /\ frame.phase = "frame" /\ frame' \in FrameType /\ frame'.phase = "idle"
      /\ UNCHANGED caps /\ G!Becomes(t)
  BY DEF G!FinishDrawingFrame, FrameType
<1>2. Framed(G!Now) /\ G!Now \in States /\ Copies(G!Now) /\ caps.stencil \in BOOLEAN
  BY <1>1 DEF DrawnSoFar, Known, Framed
<1>3. SetBoth(G!Now, t, "blend", FALSE)
  <2> DEFINE n == G!Now
  <2>1. t = [n EXCEPT !.cached = [n.cached EXCEPT !.blend = FALSE], !.context = [n.context EXCEPT !.blend = FALSE]]
    OBVIOUS
  <2>2. n \in States /\ Copies(n) /\ [n.cached EXCEPT !.blend = FALSE] \in CachedType /\ FALSE \in Values
    BY <1>2 DEF States, CachedType, Values
  <2> HIDE DEF n, t
  <2>3. SetBoth(n, t, "blend", FALSE)
    BY <2>1, <2>2, BothChanged
  <2> QED BY <2>3 DEF n
<1> HIDE DEF t
<1>4. t \in States /\ t.wrong = {} /\ t.batch = G!NoBatch
  BY <1>2, <1>3 DEF SetBoth, Same, Framed
<1>5. Known("idle", t)
  BY <1>4 DEF Known
<1> QED BY <1>1, <1>2, <1>4, <1>5, Becoming

LEMMA DrawnIsSound == DrawnSoFar => DrawnAsAsked
<1> SUFFICES ASSUME DrawnSoFar PROVE DrawnAsAsked
  OBVIOUS
<1>1. /\ frame.phase \in {"idle", "frame", "pass"} /\ G!Now \in States /\ wrong = {}
      /\ frame.phase = "pass" => Between(G!Now)
      /\ frame.phase = "frame" => Framed(G!Now)
      /\ frame.phase # "pass" => batch = G!NoBatch
  BY DEF DrawnSoFar, Known, Framed, G!Now
<1>2. /\ cached \in CachedType /\ batch \in BatchType /\ pass \in PassType
      /\ G!Now.cached = cached /\ G!Now.context = context /\ G!Now.batch = batch
  BY <1>1 DEF States, G!Now
<1>3. G!CopyIsTrue
  BY <1>1, <1>2 DEF Between, Framed, Copies, G!CopyIsTrue
<1>4. Len(batch.quads) <= MaxBatch /\ (batch.program = None) = (batch.quads = <<>>)
  <2>1. CASE batch = G!NoBatch
    BY <2>1, GLConstants DEF G!NoBatch
  <2>2. CASE batch # G!NoBatch
    <3>1. batch.program # None /\ Len(batch.quads) \in 1 .. MaxBatch
      BY <1>1, <1>2, <2>2 DEF Between, Batched
    <3>2. batch.quads # <<>>
      BY <3>1
    <3> QED BY <3>1, <3>2, GLConstants
  <2> QED BY <2>1, <2>2
<1>5. G!TypeOK
  BY <1>1, <1>2, <1>4 DEF G!TypeOK, PassType, Clips
<1> QED BY <1>1, <1>3, <1>5 DEF DrawnAsAsked, G!DrawnAsAsked

LEMMA DrawnRests == DrawnSoFar /\ UNCHANGED glVars => DrawnSoFar'
  BY DEF DrawnSoFar, Known, Framed, Between, Bound, G!Now, glVars

LEMMA DrawnNext == DrawnSoFar /\ SkiaIsKnown /\ [Next]_vars => DrawnSoFar'
<1> SUFFICES ASSUME DrawnSoFar, SkiaIsKnown, [Next]_vars PROVE DrawnSoFar'
  OBVIOUS
<1>1. CASE GLMoves
  <2>1. G!Next
    BY <1>1 DEF GLMoves
  <2> QED BY <2>1, DrawnBegin, DrawnPass, DrawnQuad, DrawnList, DrawnFrame DEF G!Next
<1>2. CASE LayersMove \/ ResourcesMove \/ HostMoves \/ Scrolls \/ UNCHANGED vars
  <2>1. UNCHANGED glVars
    BY <1>2 DEF LayersMove, ResourcesMove, HostMoves, Scrolls, vars
  <2> QED BY <2>1, DrawnRests
<1> QED BY <1>1, <1>2 DEF Next

\* Every quad and every clear is drawn with the state it was asked with (GLRenderer's
\* *_shadow_ members, draw_cache_ and RestoreGLState), for any rectangles, batches and
\* frames, and whatever else Skia changes in the context: of the scissor rectangle and the
\* blend equation RestoreGLState does not take care.
THEOREM QuadsAreDrawnAsAsked ==
  ASSUME SkiaTouches \cap {"scissorRect", "equation"} = {}
  PROVE  Spec => []DrawnAsAsked
<1>1. SkiaIsKnown
  BY DEF SkiaIsKnown
<1>2. Init => DrawnSoFar
  BY DrawnFirst DEF Init
<1>3. DrawnSoFar /\ [Next]_vars => DrawnSoFar'
  BY <1>1, DrawnNext
<1>4. DrawnSoFar => DrawnAsAsked
  BY DrawnIsSound
<1> QED BY <1>2, <1>3, <1>4, PTL DEF Spec

-----------------------------------------------------------------------------
(* Scrolling: the chain of the layers.                                     *)

Chain == MCChain
Layers == S!Layers
Depth == Len(Chain)

LEMMA ChainShape ==
  /\ Chain \in Seq(Layers) /\ Depth \in Nat /\ Depth >= 2 /\ DOMAIN Chain = 1 .. Depth
  /\ \A l \in Layers : \E i \in 1 .. Depth : Chain[i] = l
  /\ S!Inner \in Layers /\ S!Outer \in Layers
  /\ S!NoLayer \notin Layers /\ MCMaxScrollOffset \in [Layers -> Nat]
  /\ MaxMoves \in Nat
<1>1. S!ScrollAssumption /\ IsFiniteSet(Nested)
  BY CompositorAssumption
<1>2. Ext!SetToSeq(Nested) \in Seq(Nested)
  <2> DEFINE n == Cardinality(Nested)
  <2>1. n \in Nat /\ ExistsBijection(1 .. n, Nested)
    BY <1>1, FS_CardinalityType
  <2>2. PICK f : f \in Bijection(1 .. n, Nested)
    BY <2>1, Fun_ExistsBij
  <2>3. f \in [1 .. n -> Nested] /\ \A i, k \in 1 .. n : f[i] = f[k] => i = k
    BY <2>2, Fun_BijectionProperties
  <2> HIDE DEF n
  <2>4. f \in [1 .. n -> Nested] /\ Ext!IsInjective(f)
    <3>1. DOMAIN f = 1 .. n
      BY <2>3
    <3> QED BY <2>3, <3>1 DEF Ext!IsInjective
  <2>5. Ext!SetToSeq(Nested) = CHOOSE g \in [1 .. n -> Nested] : Ext!IsInjective(g)
    BY DEF Ext!SetToSeq, n, Ext!Cardinality, Cardinality
  <2>6. Ext!SetToSeq(Nested) \in [1 .. n -> Nested]
    BY <2>4, <2>5
  <2> QED BY <2>1, <2>6
<1> DEFINE q == Ext!SetToSeq(Nested)
           X == Nested \cup {outer, inner}
<1> HIDE DEF q
<1>3. q \in Seq(X) /\ <<outer, inner>> \in Seq(X) /\ Len(<<outer, inner>>) = 2
  BY <1>2 DEF q
<1>4. Chain \in Seq(X) /\ Depth = Len(q) + 2 /\ Chain = q \o <<outer, inner>>
  BY <1>3, ConcatProperties DEF Chain, MCChain, Depth, q
<1>5. Depth \in Nat /\ Depth >= 2 /\ DOMAIN Chain = 1 .. Depth
  BY <1>3, <1>4 DEF Depth
<1>6. Layers = {Chain[i] : i \in 1 .. Depth}
  BY <1>5 DEF Layers, S!Layers, S!ToSet, Chain
<1>7. Chain \in Seq(Layers)
  <2>1. Chain = [i \in 1 .. Depth |-> Chain[i]]
    BY <1>4, <1>5
  <2> DEFINE c == Chain
             n == Depth
  <2>2. c \in [1 .. n -> Layers]
    BY <1>6, <2>1
  <2> HIDE DEF c, n
  <2>3. n \in Nat => c \in Seq(Layers)
    BY <2>2
  <2> QED BY <1>5, <2>3 DEF c, n
<1>8. S!Inner \in Layers /\ S!Outer \in Layers
  BY <1>5, <1>6 DEF S!Inner, S!Outer, S!Last, Chain, Depth
<1>9. S!NoLayer \notin Layers /\ MCMaxScrollOffset \in [Layers -> Nat] /\ MaxMoves \in Nat
  BY <1>1 DEF S!ScrollAssumption, Layers
<1> QED BY <1>5, <1>6, <1>7, <1>8, <1>9

\* The least and the greatest of some places of the chain.
LEMMA Ends ==
  ASSUME NEW P \in SUBSET (1 .. Depth), P # {}
  PROVE  /\ S!Min(P) \in P /\ \A i \in P : S!Min(P) <= i
         /\ S!Max(P) \in P /\ \A i \in P : i <= S!Max(P)
<1>1. Depth \in Nat
  BY ChainShape
<1>2. \E n \in P : \A m \in P : n <= m
  <2>1. P \subseteq Nat
    BY <1>1
  <2> QED BY <2>1, LeastNatural
<1>3. \E n \in P : \A m \in P : n >= m
  <2> DEFINE D == {Depth - i : i \in P}
  <2>1. D \subseteq Nat /\ D # {}
    <3>1. \A i \in P : i \in Nat /\ Depth - i \in Nat
      BY <1>1
    <3> QED BY <3>1
  <2>2. PICK d \in D : \A m \in D : d <= m
    BY <2>1, LeastNatural
  <2>3. PICK n \in P : d = Depth - n
    BY <2>2
  <2>4. \A m \in P : n >= m
    BY <1>1, <2>2, <2>3
  <2> QED BY <2>4
<1>4. S!Min(P) \in P /\ \A i \in P : S!Min(P) <= i
  BY <1>2 DEF S!Min
<1>5. S!Max(P) \in P /\ \A i \in P : S!Max(P) >= i
  BY <1>3 DEF S!Max
<1> QED BY <1>1, <1>4, <1>5

\* From a layer outwards there is at least the layer.
LEMMA OutwardsShape ==
  ASSUME NEW l \in Layers
  PROVE  \E i \in 1 .. Depth : S!Outwards(l) = i .. Depth /\ Chain[i] = l
  BY ChainShape DEF S!Outwards, Chain, Depth

-----------------------------------------------------------------------------
(* A delta on its way through the chain.                                   *)

SyncType == [active_base : Int, active_delta : Int, pending_base : Int, in_main : Int, in_pending : Int]
SyncsType == [Layers -> SyncType]

\* What both threads know, but for how far the impl thread has scrolled.
OnlyDeltas(v, w) ==
  /\ v \in SyncsType /\ w \in SyncsType
  /\ \A l \in Layers :
       /\ w[l].active_base = v[l].active_base /\ w[l].pending_base = v[l].pending_base
       /\ w[l].in_main = v[l].in_main /\ w[l].in_pending = v[l].in_pending

LEMMA ClampIsInt == ASSUME NEW l \in Layers, NEW o \in Int PROVE S!Clamp(l, o) \in Int
<1> DEFINE m == MCMaxScrollOffset[l]
           n == S!Min({o, m})
<1>1. m \in Int
  BY ChainShape
<1> HIDE DEF m
<1>2. n \in {o, m}
  <2>1. \E x \in {o, m} : \A y \in {o, m} : x <= y
    BY <1>1
  <2> QED BY <2>1 DEF S!Min
<1> HIDE DEF n
<1>3. S!Max({0, n}) \in {0, n}
  <2>1. \E x \in {0, n} : \A y \in {0, n} : x >= y
    BY <1>1, <1>2
  <2> QED BY <2>1 DEF S!Max
<1> QED BY <1>1, <1>2, <1>3 DEF S!Clamp, n, m

LEMMA ScrolledShape ==
  ASSUME NEW v \in SyncsType, NEW l \in Layers, NEW d \in Int
  PROVE  S!Taken(v, l, d) \in Int /\ OnlyDeltas(v, S!Scrolled(v, l, d))
<1>1. v[l] \in SyncType /\ S!Current(v, l) \in Int
  BY DEF SyncsType, SyncType, S!Current
<1>2. S!Current(v, l) + d \in Int
  BY <1>1
<1>3. S!Clamp(l, S!Current(v, l) + d) \in Int
  BY <1>2, ClampIsInt
<1>4. S!Taken(v, l, d) \in Int
  BY <1>1, <1>3 DEF S!Taken
<1> DEFINE t == S!Taken(v, l, d)
           w == S!Scrolled(v, l, d)
<1>5. w = [v EXCEPT ![l] = [v[l] EXCEPT !.active_delta = v[l].active_delta + t]]
  BY DEF S!Scrolled
<1>6. t \in Int
  BY <1>4
<1> HIDE DEF t, w
<1>7. [v[l] EXCEPT !.active_delta = v[l].active_delta + t] \in SyncType
  BY <1>1, <1>6 DEF SyncType
<1>8. w \in SyncsType
  BY <1>5, <1>7 DEF SyncsType
<1>9. \A k \in Layers : w[k] = IF k = l THEN [v[l] EXCEPT !.active_delta = v[l].active_delta + t] ELSE v[k]
  BY <1>5 DEF SyncsType
<1>10. OnlyDeltas(v, w)
  BY <1>1, <1>8, <1>9 DEF OnlyDeltas, SyncType
<1> QED BY <1>4, <1>10 DEF w

LEMMA DeltasOnDeltas ==
  ASSUME NEW u, NEW v, NEW w, OnlyDeltas(u, v), OnlyDeltas(v, w)
  PROVE  OnlyDeltas(u, w)
BY DEF OnlyDeltas

LEMMA ViewportShape ==
  ASSUME NEW v \in SyncsType, NEW d \in Int
  PROVE  /\ OnlyDeltas(v, S!ScrollViewportInnerFirst(v, d))
         /\ S!Taken(v, S!Inner, d) \in Int /\ S!Taken(v, S!Outer, d - S!Taken(v, S!Inner, d)) \in Int
<1> DEFINE t == S!Taken(v, S!Inner, d)
           w == S!Scrolled(v, S!Inner, d)
<1>1. t \in Int /\ OnlyDeltas(v, w)
  BY ChainShape, ScrolledShape
<1> HIDE DEF t, w
<1>2. d - t \in Int /\ w \in SyncsType /\ S!Outer \in Layers
  BY <1>1, ChainShape DEF OnlyDeltas
<1>3. OnlyDeltas(w, S!Scrolled(w, S!Outer, d - t)) /\ S!Taken(v, S!Outer, d - t) \in Int
  BY <1>2, ScrolledShape
<1> QED BY <1>1, <1>3, DeltasOnDeltas DEF S!ScrollViewportInnerFirst, t, w

WalkType == [sync : SyncsType, delta : Int, layer : Layers, consumed : BOOLEAN, caused : BOOLEAN,
             propagates : BOOLEAN]

\* How far a delta may have come from where it started.
Reached(start, st) ==
  /\ st \in WalkType /\ st.propagates = start.propagates
  /\ OnlyDeltas(start.sync, st.sync)
  /\ ~ st.caused => st = start
  /\ st.caused => st.consumed
  /\ ~ start.propagates /\ start.consumed => st.layer = start.layer

LEMMA ApplyReaches ==
  ASSUME NEW start \in WalkType, NEW st, Reached(start, st), NEW l \in Layers,
         ~ (~ st.propagates /\ st.consumed /\ st.layer # l)
  PROVE  Reached(start, S!ApplyScroll(st, l))
<1>1. st \in WalkType /\ st.sync \in SyncsType /\ st.delta \in Int
  BY DEF Reached, WalkType
<1>2. ~ start.propagates /\ start.consumed => l = start.layer
  <2> SUFFICES ASSUME ~ start.propagates, start.consumed PROVE l = start.layer
    OBVIOUS
  <2>1. ~ st.propagates /\ st.layer = start.layer /\ st.consumed
    BY DEF Reached
  <2> QED BY <2>1
<1>3. ASSUME NEW w, OnlyDeltas(st.sync, w), NEW d \in Int
      PROVE  Reached(start, [st EXCEPT !.sync = w, !.delta = d, !.layer = l, !.consumed = TRUE, !.caused = TRUE])
  <2> DEFINE s == [st EXCEPT !.sync = w, !.delta = d, !.layer = l, !.consumed = TRUE, !.caused = TRUE]
  <2>1. w \in SyncsType /\ OnlyDeltas(start.sync, w)
    BY <1>3, DeltasOnDeltas DEF OnlyDeltas, Reached
  <2>2. s \in WalkType /\ s.propagates = st.propagates /\ s.sync = w /\ s.caused /\ s.consumed /\ s.layer = l
    BY <1>1, <2>1, <1>3 DEF WalkType
  <2> HIDE DEF s
  <2>3. Reached(start, s)
    BY <1>2, <2>1, <2>2 DEF Reached
  <2> QED BY <2>3 DEF s
<1>4. CASE l = S!Inner
  <2> DEFINE v == S!ScrollViewportInnerFirst(st.sync, st.delta)
             a == S!Taken(st.sync, S!Inner, st.delta)
                  + S!Taken(st.sync, S!Outer, st.delta - S!Taken(st.sync, S!Inner, st.delta))
  <2>1. OnlyDeltas(st.sync, v) /\ a \in Int
    BY <1>1, ViewportShape
  <2>2. S!ApplyScroll(st, l) = IF a = 0 THEN st
          ELSE [st EXCEPT !.sync = v, !.delta = st.delta - a, !.layer = l, !.consumed = TRUE, !.caused = TRUE]
    BY <1>4 DEF S!ApplyScroll
  <2> HIDE DEF v, a
  <2> DEFINE e == st.delta - a
  <2>3. e \in Int
    BY <1>1, <2>1
  <2> HIDE DEF e
  <2>4. Reached(start, [st EXCEPT !.sync = v, !.delta = e, !.layer = l, !.consumed = TRUE, !.caused = TRUE])
    BY <1>3, <2>1, <2>3
  <2>5. CASE a = 0
    BY <2>2, <2>5
  <2>6. CASE a # 0
    BY <2>2, <2>4, <2>6 DEF e
  <2> QED BY <2>5, <2>6
<1>5. CASE l # S!Inner
  <2> DEFINE v == S!Scrolled(st.sync, l, st.delta)
  <2>1. OnlyDeltas(st.sync, v)
    BY <1>1, ScrolledShape
  <2>2. S!ApplyScroll(st, l) = IF S!Taken(st.sync, l, st.delta) = 0 THEN st
          ELSE [st EXCEPT !.sync = v, !.delta = 0, !.layer = l, !.consumed = TRUE, !.caused = TRUE]
    BY <1>5 DEF S!ApplyScroll
  <2> HIDE DEF v
  <2>3. Reached(start, [st EXCEPT !.sync = v, !.delta = 0, !.layer = l, !.consumed = TRUE, !.caused = TRUE])
    <3>1. 0 \in Int
      OBVIOUS
    <3> QED BY <1>3, <2>1, <3>1
  <2>4. CASE S!Taken(st.sync, l, st.delta) = 0
    BY <2>2, <2>4
  <2>5. CASE S!Taken(st.sync, l, st.delta) # 0
    BY <2>2, <2>3, <2>5
  <2> QED BY <2>4, <2>5
<1> QED BY <1>4, <1>5

LEMMA DistributeReaches ==
  ASSUME NEW start \in WalkType, NEW st, Reached(start, st), NEW l \in Layers
  PROVE  Reached(start, S!DistributeScroll(st, l))
BY ApplyReaches DEF S!DistributeScroll

\* A fold of the chain takes the delta from layer to layer.
LEMMA DistributedAlong ==
  ASSUME NEW start \in WalkType, ~ start.caused, NEW chain \in Seq(Layers)
  PROVE  Reached(start, S!FoldLeft(S!DistributeScroll, start, chain))
<1> DEFINE n == Len(chain)
           Last(s) == S!Max(s)
           Walked(f, s) == IF s = {} THEN start ELSE S!DistributeScroll(f[s \ {Last(s)}], chain[Last(s)])
           Walks(f, m) == f = [s \in SUBSET (1 .. m) |-> Walked(f, s)]
<1>1. n \in Nat /\ DOMAIN chain = 1 .. n /\ \A i \in 1 .. n : chain[i] \in Layers
  OBVIOUS
<1>2. \A m \in 0 .. n : \A s \in SUBSET (1 .. m) : s # {} => Last(s) \in s /\ \A i \in s : i <= Last(s)
  <2> SUFFICES ASSUME NEW m \in 0 .. n, NEW s \in SUBSET (1 .. m), s # {}
               PROVE  S!Max(s) \in s /\ \A i \in s : i <= S!Max(s)
    OBVIOUS
  <2> DEFINE D == {m - i : i \in s}
  <2>1. \A i \in s : i \in Nat /\ m - i \in Nat
    BY <1>1
  <2>2. D \subseteq Nat /\ D # {}
    BY <2>1
  <2>3. PICK d \in D : \A e \in D : d <= e
    BY <2>2, LeastNatural
  <2>4. PICK k \in s : d = m - k
    BY <2>3
  <2>5. \A i \in s : k >= i
    <3>1. \A i \in s : m - k <= m - i
      BY <2>3, <2>4
    <3> QED BY <1>1, <2>1, <3>1
  <2>6. S!Max(s) \in s /\ \A i \in s : S!Max(s) >= i
    BY <2>5 DEF S!Max
  <2> QED BY <2>1, <2>6
<1> HIDE DEF n, Last
<1>3. \E f : Walks(f, 0)
  <2> DEFINE f == [s \in SUBSET (1 .. 0) |-> start]
  <2>1. \A s \in SUBSET (1 .. 0) : s = {}
    OBVIOUS
  <2>2. Walks(f, 0)
    BY <2>1
  <2> QED BY <2>2
<1>4. \A m \in 0 .. n - 1 : (\E f : Walks(f, m)) => \E f : Walks(f, m + 1)
  <2> SUFFICES ASSUME NEW m \in 0 .. n - 1, NEW f, Walks(f, m) PROVE \E g : Walks(g, m + 1)
    OBVIOUS
  <2> DEFINE g == [s \in SUBSET (1 .. m + 1) |->
                     IF m + 1 \in s THEN S!DistributeScroll(f[s \ {m + 1}], chain[m + 1]) ELSE f[s]]
  <2>1. m \in Nat /\ m + 1 \in 0 .. n /\ m \in 0 .. n
    BY <1>1
  <2>2. \A s \in SUBSET (1 .. m) : f[s] = Walked(f, s)
    OBVIOUS
  <2>3. ASSUME NEW s \in SUBSET (1 .. m + 1) PROVE g[s] = Walked(g, s)
    <3>1. CASE m + 1 \in s
      <4>1. Last(s) = m + 1
        <5>1. Last(s) \in s /\ m + 1 <= Last(s)
          BY <1>2, <2>1, <3>1
        <5>2. Last(s) \in 1 .. m + 1
          BY <5>1
        <5> QED BY <2>1, <5>1, <5>2
      <4>2. s \ {m + 1} \in SUBSET (1 .. m + 1) /\ m + 1 \notin s \ {m + 1}
        OBVIOUS
      <4>3. g[s \ {m + 1}] = f[s \ {m + 1}]
        BY <4>2
      <4>4. g[s] = S!DistributeScroll(f[s \ {m + 1}], chain[m + 1])
        BY <3>1
      <4> HIDE DEF g
      <4> QED BY <3>1, <4>1, <4>3, <4>4
    <3>2. CASE m + 1 \notin s
      <4>1. s \in SUBSET (1 .. m)
        <5>1. \A i \in s : i \in 1 .. m + 1 /\ i # m + 1
          BY <3>2
        <5> QED BY <2>1, <5>1
      <4>2. g[s] = f[s] /\ f[s] = Walked(f, s)
        BY <2>2, <3>2, <4>1
      <4>3. CASE s = {}
        BY <4>2, <4>3
      <4>4. CASE s # {}
        <5> DEFINE r == s \ {Last(s)}
        <5>1. r \in SUBSET (1 .. m) /\ r \in SUBSET (1 .. m + 1) /\ m + 1 \notin r
          BY <2>1, <3>2, <4>1
        <5>2. g[r] = f[r]
          BY <5>1
        <5> HIDE DEF g, r
        <5>3. Walked(f, s) = S!DistributeScroll(f[r], chain[Last(s)])
          BY <4>4 DEF r
        <5>4. Walked(g, s) = S!DistributeScroll(g[r], chain[Last(s)])
          BY <4>4 DEF r
        <5> QED BY <4>2, <5>2, <5>3, <5>4
      <4> QED BY <4>3, <4>4
    <3> QED BY <3>1, <3>2
  <2>4. g = [s \in SUBSET (1 .. m + 1) |-> g[s]]
    OBVIOUS
  <2> HIDE DEF g
  <2>5. Walks(g, m + 1)
    BY <2>3, <2>4
  <2> QED BY <2>5
<1>5. \E f : Walks(f, n)
  <2> DEFINE Missing == {m \in 0 .. n : ~ \E f : Walks(f, m)}
  <2>1. Missing # {} => FALSE
    <3> SUFFICES ASSUME Missing # {} PROVE FALSE
      OBVIOUS
    <3>1. Missing \subseteq Nat
      BY <1>1
    <3>2. PICK m \in Missing : \A k \in Missing : m <= k
      BY <3>1, LeastNatural
    <3>3. m # 0
      BY <1>3, <3>2
    <3>4. m \in 0 .. n /\ m - 1 \in 0 .. n - 1 /\ m - 1 \in 0 .. n /\ (m - 1) + 1 = m /\ ~ (m <= m - 1)
      BY <1>1, <3>2, <3>3
    <3>5. \E f : Walks(f, m - 1)
      BY <3>2, <3>4
    <3>6. \E f : Walks(f, m)
      <4> DEFINE l == m - 1
      <4>1. l \in 0 .. n - 1 /\ l + 1 = m /\ \E f : Walks(f, l)
        BY <3>4, <3>5
      <4> HIDE DEF l
      <4>2. \E f : Walks(f, l + 1)
        BY <1>4, <4>1
      <4> QED BY <4>1, <4>2
    <3> QED BY <3>2, <3>6
  <2> HIDE DEF Missing
  <2>2. n \in 0 .. n
    BY <1>1
  <2>3. n \notin Missing
    BY <2>1
  <2> QED BY <2>2, <2>3 DEF Missing
<1> DEFINE w == CHOOSE f : Walks(f, n)
<1>6. Walks(w, n)
  BY <1>5
<1>7. S!FoldLeft(S!DistributeScroll, start, chain) = w[1 .. n]
  BY <1>1 DEF S!FoldLeft, S!MapThenFoldSet, Last
<1> HIDE DEF w
<1>8. \A s \in SUBSET (1 .. n) : w[s] = Walked(w, s)
  BY <1>6
<1>9. Reached(start, start)
  BY DEF Reached, WalkType, OnlyDeltas, SyncsType
<1>10. \A m \in 0 .. n : Reached(start, w[1 .. m])
  <2> DEFINE Lost == {m \in 0 .. n : ~ Reached(start, w[1 .. m])}
  <2>1. Lost # {} => FALSE
    <3> SUFFICES ASSUME Lost # {} PROVE FALSE
      OBVIOUS
    <3>1. Lost \subseteq Nat
      BY <1>1
    <3>2. PICK m \in Lost : \A k \in Lost : m <= k
      BY <3>1, LeastNatural
    <3>3. m \in 0 .. n /\ m \in Nat /\ ~ Reached(start, w[1 .. m])
      BY <1>1, <3>2
    <3>4. m # 0
      <4>1. 1 .. 0 = {} /\ {} \in SUBSET (1 .. n)
        OBVIOUS
      <4>2. w[{}] = start
        BY <1>8, <4>1
      <4> QED BY <1>9, <3>3, <4>1, <4>2
    <3>5. m - 1 \in 0 .. n /\ m - 1 < m
      BY <1>1, <3>3, <3>4
    <3>6. Reached(start, w[1 .. m - 1])
      BY <3>2, <3>3, <3>5
    <3>7. 1 .. m # {} /\ m \in 1 .. m /\ 1 .. m \in SUBSET (1 .. n) /\ (1 .. m) \ {m} = 1 .. m - 1 /\ m \in 1 .. n
      <4>1. m >= 1 /\ m <= n
        BY <1>1, <3>3, <3>4
      <4>2. \A i \in 1 .. m : i \in 1 .. n /\ (i # m => i \in 1 .. m - 1)
        BY <1>1, <3>3, <4>1
      <4>3. \A i \in 1 .. m - 1 : i \in 1 .. m /\ i # m
        BY <3>3, <4>1
      <4> QED BY <1>1, <3>3, <4>1, <4>2, <4>3
    <3>8. Last(1 .. m) = m
      <4>1. Last(1 .. m) \in 1 .. m /\ m <= Last(1 .. m)
        BY <1>2, <3>3, <3>7
      <4> QED BY <3>3, <4>1
    <3>9. w[1 .. m] = S!DistributeScroll(w[1 .. m - 1], chain[m])
      BY <1>8, <3>7, <3>8
    <3>10. Reached(start, w[1 .. m])
      BY <1>1, <3>6, <3>7, <3>9, DistributeReaches
    <3> QED BY <3>3, <3>10
  <2> QED BY <2>1
<1> QED BY <1>1, <1>7, <1>10

-----------------------------------------------------------------------------
(* The books of the offsets, on both threads.                              *)

OnMain(l) == IF client.frame \in {"applied", "changed"} THEN sync[l].in_main ELSE 0

\* The offset that the main thread last committed.
Base(l) == IF client.pending THEN sync[l].pending_base ELSE sync[l].active_base

Unsent(l) == sync[l].active_delta - sync[l].in_pending

\* A page scale animation runs: its last tick asks for a commit.
Zooms == page_scale_animation # S!NoTarget

\* Every scroll is in the books of a thread or on its way to them, once; a delta that is not
\* on its way has a commit asked for, or to be asked for when the animation ends.
Books ==
  /\ sync \in SyncsType /\ offsets \in [Layers -> Int] /\ total \in [Layers -> Int]
  /\ client \in [commit : BOOLEAN, frame : {"none", "sent", "applied", "changed"}, pending : BOOLEAN]
  /\ \A l \in Layers :
       /\ offsets[l] + Unsent(l) - OnMain(l) = total[l]
       /\ ~ client.pending => sync[l].in_pending = 0
       /\ client.frame \in {"none", "sent"} => Base(l) = offsets[l]
       /\ client.frame = "applied" => Base(l) + sync[l].in_main = offsets[l]
       /\ ~ client.commit /\ ~ Zooms => Unsent(l) = IF client.frame = "none" THEN 0 ELSE sync[l].in_main

LEMMA BooksFirst == S!Init => Books
<1> SUFFICES ASSUME S!Init PROVE Books
  OBVIOUS
<1>1. /\ sync = [l \in Layers |-> [active_base |-> 0, active_delta |-> 0, pending_base |-> 0,
                                   in_main |-> 0, in_pending |-> 0]]
      /\ client = [commit |-> FALSE, frame |-> "none", pending |-> FALSE]
      /\ offsets = [l \in Layers |-> 0] /\ total = offsets
  BY DEF S!Init, Layers
<1> QED BY <1>1 DEF Books, SyncsType, SyncType, OnMain, Base, Unsent

\* Scrolling is told of where it is booked: a commit is asked for, nothing moved, or an
\* animation goes on.
LEMMA BooksShown ==
  ASSUME Books, NEW v, OnlyDeltas(sync, v), NEW asks \in BOOLEAN,
         asks \/ (Zooms' = Zooms /\ (v = sync \/ Zooms)),
         S!Show(v), S!NeedsCommit(asks), UNCHANGED offsets
  PROVE  Books'
<1>1. /\ sync' = v /\ v \in SyncsType
      /\ total' = [l \in Layers |-> total[l] + S!Current(v, l) - S!Current(sync, l)]
  BY DEF S!Show, OnlyDeltas, Layers
<1>2. /\ client' = [client EXCEPT !.commit = client.commit \/ asks] /\ offsets' = offsets
      /\ client' \in [commit : BOOLEAN, frame : {"none", "sent", "applied", "changed"}, pending : BOOLEAN]
      /\ client'.frame = client.frame /\ client'.pending = client.pending
      /\ client'.commit = (client.commit \/ asks)
  BY DEF S!NeedsCommit, Books
<1>3. ASSUME NEW l \in Layers
      PROVE  /\ sync[l] \in SyncType /\ v[l] \in SyncType /\ offsets[l] \in Int /\ total[l] \in Int
             /\ v[l].active_base = sync[l].active_base /\ v[l].pending_base = sync[l].pending_base
             /\ v[l].in_main = sync[l].in_main /\ v[l].in_pending = sync[l].in_pending
             /\ total'[l] = total[l] + v[l].active_delta - sync[l].active_delta
  <2>1. /\ sync[l] \in SyncType /\ v[l] \in SyncType /\ offsets[l] \in Int /\ total[l] \in Int
        /\ v[l].active_base = sync[l].active_base /\ v[l].pending_base = sync[l].pending_base
        /\ v[l].in_main = sync[l].in_main /\ v[l].in_pending = sync[l].in_pending
    BY <1>1 DEF Books, SyncsType, OnlyDeltas
  <2>2. total'[l] = total[l] + (v[l].active_base + v[l].active_delta) - (sync[l].active_base + sync[l].active_delta)
    BY <1>1 DEF S!Current
  <2> QED BY <2>1, <2>2 DEF SyncType
<1>4. total' \in [Layers -> Int]
  <2>1. \A l \in Layers : total'[l] \in Int
    BY <1>3 DEF SyncType
  <2>2. total' = [l \in Layers |-> total'[l]]
    BY <1>1
  <2> QED BY <2>1, <2>2
<1>5. ASSUME NEW l \in Layers
      PROVE  /\ offsets'[l] + Unsent(l)' - OnMain(l)' = total'[l]
             /\ ~ client'.pending => sync'[l].in_pending = 0
             /\ client'.frame \in {"none", "sent"} => Base(l)' = offsets'[l]
             /\ client'.frame = "applied" => Base(l)' + sync'[l].in_main = offsets'[l]
             /\ ~ client'.commit /\ ~ Zooms' => Unsent(l)' = IF client'.frame = "none" THEN 0 ELSE sync'[l].in_main
  <2>1. /\ offsets[l] + Unsent(l) - OnMain(l) = total[l]
        /\ ~ client.pending => sync[l].in_pending = 0
        /\ client.frame \in {"none", "sent"} => Base(l) = offsets[l]
        /\ client.frame = "applied" => Base(l) + sync[l].in_main = offsets[l]
        /\ ~ client.commit /\ ~ Zooms => Unsent(l) = IF client.frame = "none" THEN 0 ELSE sync[l].in_main
    BY DEF Books
  <2>2. /\ OnMain(l)' = OnMain(l) /\ Base(l)' = Base(l) /\ Base(l) \in Int /\ OnMain(l) \in Int
        /\ Unsent(l)' = v[l].active_delta - sync[l].in_pending
    BY <1>1, <1>2, <1>3 DEF OnMain, Base, Unsent, SyncType
  <2>3. offsets'[l] + Unsent(l)' - OnMain(l)' = total'[l]
    BY <1>2, <1>3, <2>1, <2>2 DEF Unsent, SyncType
  <2>4. ~ client'.commit /\ ~ Zooms' => v = sync /\ ~ Zooms
    BY <1>2
  <2>5. ~ client'.commit /\ ~ Zooms' => Unsent(l)' = IF client'.frame = "none" THEN 0 ELSE sync'[l].in_main
    BY <1>1, <1>2, <2>1, <2>2, <2>4 DEF Unsent
  <2> QED BY <1>1, <1>2, <1>3, <2>1, <2>2, <2>3, <2>5
<1> QED BY <1>1, <1>2, <1>4, <1>5 DEF Books

LEMMA BooksRest == Books /\ Zooms' = Zooms /\ UNCHANGED <<sync, client, offsets, total>> => Books'
BY DEF Books, OnMain, Base, Unsent

\* The main thread takes a step: what is shown there changes with the books.
LEMMA BooksSend == Books /\ S!SendBeginMainFrame => Books'
<1> SUFFICES ASSUME Books, S!SendBeginMainFrame PROVE Books'
  OBVIOUS
<1>1. /\ client.frame = "none" /\ client' = [client EXCEPT !.frame = "sent", !.commit = FALSE]
      /\ sync' = [l \in Layers |-> [sync[l] EXCEPT !.in_main = sync[l].active_delta - sync[l].in_pending]]
      /\ offsets' = offsets /\ total' = total /\ Zooms' = Zooms
  BY DEF S!SendBeginMainFrame, Zooms, S!ProcessScrollDeltas, S!Pulled, S!PendingDelta, Layers
<1>2. /\ client' \in [commit : BOOLEAN, frame : {"none", "sent", "applied", "changed"}, pending : BOOLEAN]
      /\ client'.frame = "sent" /\ client'.pending = client.pending /\ client'.commit = FALSE
  BY <1>1 DEF Books
<1>3. sync' \in SyncsType
  BY <1>1 DEF Books, SyncsType, SyncType
<1>4. \A l \in Layers :
        /\ sync[l] \in SyncType
        /\ sync'[l].active_base = sync[l].active_base /\ sync'[l].pending_base = sync[l].pending_base
        /\ sync'[l].active_delta = sync[l].active_delta /\ sync'[l].in_pending = sync[l].in_pending
        /\ sync'[l].in_main = sync[l].active_delta - sync[l].in_pending
  BY <1>1 DEF Books, SyncsType, SyncType
<1> QED BY <1>1, <1>2, <1>3, <1>4 DEF Books, OnMain, Base, Unsent

LEMMA BooksApply == Books /\ S!ApplyScrollAndScale => Books'
<1> SUFFICES ASSUME Books, S!ApplyScrollAndScale PROVE Books'
  OBVIOUS
<1>1. /\ client.frame = "sent" /\ client' = [client EXCEPT !.frame = "applied"]
      /\ offsets' = [l \in Layers |-> offsets[l] + sync[l].in_main]
      /\ sync' = sync /\ total' = total /\ Zooms' = Zooms
  BY DEF S!ApplyScrollAndScale, Layers, Zooms
<1>2. /\ client' \in [commit : BOOLEAN, frame : {"none", "sent", "applied", "changed"}, pending : BOOLEAN]
      /\ client'.frame = "applied" /\ client'.pending = client.pending /\ client'.commit = client.commit
  BY <1>1 DEF Books
<1>3. \A l \in Layers : sync[l] \in SyncType /\ offsets[l] \in Int /\ total[l] \in Int
  BY DEF Books, SyncsType
<1>4. offsets' \in [Layers -> Int] /\ \A l \in Layers : offsets'[l] = offsets[l] + sync[l].in_main
  BY <1>1, <1>3 DEF SyncType
<1> QED BY <1>1, <1>2, <1>3, <1>4 DEF Books, OnMain, Base, Unsent, SyncType

LEMMA BooksScript == Books /\ S!ScrollByScript => Books'
<1> SUFFICES ASSUME Books, S!ScrollByScript PROVE Books'
  OBVIOUS
<1>1. PICK k \in Layers, offset \in 0 .. 2 :
        /\ offsets' = [offsets EXCEPT ![k] = offset]
        /\ total' = [total EXCEPT ![k] = @ + offset - offsets[k]]
  BY DEF S!ScrollByScript, Layers
<1>2. /\ client.frame = "applied" /\ client' = [client EXCEPT !.frame = "changed"] /\ sync' = sync
      /\ Zooms' = Zooms
  BY DEF S!ScrollByScript, Zooms
<1>3. /\ client' \in [commit : BOOLEAN, frame : {"none", "sent", "applied", "changed"}, pending : BOOLEAN]
      /\ client'.frame = "changed" /\ client'.pending = client.pending /\ client'.commit = client.commit
  BY <1>2 DEF Books
<1>4. \A l \in Layers : sync[l] \in SyncType /\ offsets[l] \in Int /\ total[l] \in Int
  BY DEF Books, SyncsType
<1>5. /\ offsets' \in [Layers -> Int] /\ total' \in [Layers -> Int]
      /\ \A l \in Layers : total'[l] - offsets'[l] = total[l] - offsets[l]
  BY <1>1, <1>4 DEF Books
<1>6. \A l \in Layers : offsets[l] + Unsent(l) - OnMain(l) = total[l] /\ OnMain(l)' = OnMain(l) /\ OnMain(l) \in Int
                        /\ Unsent(l)' = Unsent(l) /\ Unsent(l) \in Int
  BY <1>2, <1>3, <1>4 DEF Books, OnMain, Unsent, SyncType
<1>7. \A l \in Layers : offsets'[l] + Unsent(l)' - OnMain(l)' = total'[l]
  <2> TAKE l \in Layers
  <2>1. offsets'[l] \in Int /\ total'[l] \in Int /\ offsets[l] \in Int /\ total[l] \in Int
    BY <1>4, <1>5
  <2> QED BY <1>5, <1>6, <2>1
<1> QED BY <1>2, <1>3, <1>5, <1>7 DEF Books, Unsent

\* External: what a commit, an activation and an abort do to the offset of a layer.
LEMMA SyncedShape ==
  ASSUME NEW v \in SyncType, NEW o \in Int
  PROVE  /\ LET w == S!Committed(v, o)
            IN  /\ w \in SyncType /\ w.active_base = v.active_base /\ w.pending_base = o
                /\ w.active_delta = v.active_delta /\ w.in_pending = v.in_main /\ w.in_main = 0
         /\ LET w == S!Activated(v)
            IN  /\ w \in SyncType /\ w.active_base = v.pending_base
                /\ w.active_delta = v.active_delta - v.in_pending
                /\ w.in_pending = 0 /\ w.in_main = v.in_main
         /\ LET w == S!Aborted(v)
            IN  /\ w \in SyncType /\ w.active_base = v.active_base + v.in_main
                /\ w.pending_base = v.pending_base + v.in_main
                /\ w.active_delta = v.active_delta - v.in_main
                /\ w.in_pending = v.in_pending /\ w.in_main = 0
<1>1. /\ v.active_base \in Int /\ v.active_delta \in Int /\ v.pending_base \in Int
      /\ v.in_main \in Int /\ v.in_pending \in Int
  BY DEF SyncType
<1>2. LET w == S!Committed(v, o)
      IN  /\ w \in SyncType /\ w.active_base = v.active_base /\ w.pending_base = o
          /\ w.active_delta = v.active_delta /\ w.in_pending = v.in_main /\ w.in_main = 0
  <2> DEFINE a == v.active_base
             d == v.active_delta
             p == o
             m == 0
             q == v.in_main
             w == S!Committed(v, o)
  <2>1. w = [v EXCEPT !.active_base = a, !.active_delta = d, !.pending_base = p, !.in_main = m, !.in_pending = q]
    BY DEF S!Committed, SyncType
  <2>2. a \in Int /\ d \in Int /\ p \in Int /\ m \in Int /\ q \in Int
    BY <1>1
  <2> HIDE DEF a, d, p, m, q, w
  <2>3. /\ w \in SyncType /\ w.active_base = a /\ w.active_delta = d /\ w.pending_base = p
        /\ w.in_main = m /\ w.in_pending = q
    BY <2>1, <2>2 DEF SyncType
  <2> QED BY <2>3 DEF a, d, p, m, q, w
<1>3. LET w == S!Activated(v)
      IN  /\ w \in SyncType /\ w.active_base = v.pending_base
          /\ w.active_delta = v.active_delta - v.in_pending
          /\ w.in_pending = 0 /\ w.in_main = v.in_main
  <2> DEFINE a == v.pending_base
             d == v.active_delta - v.in_pending
             p == v.pending_base
             m == v.in_main
             q == 0
             w == S!Activated(v)
  <2>1. w = [v EXCEPT !.active_base = a, !.active_delta = d, !.pending_base = p, !.in_main = m, !.in_pending = q]
    BY DEF S!Activated, S!PendingDelta, SyncType
  <2>2. a \in Int /\ d \in Int /\ p \in Int /\ m \in Int /\ q \in Int
    BY <1>1
  <2> HIDE DEF a, d, p, m, q, w
  <2>3. /\ w \in SyncType /\ w.active_base = a /\ w.active_delta = d /\ w.pending_base = p
        /\ w.in_main = m /\ w.in_pending = q
    BY <2>1, <2>2 DEF SyncType
  <2> QED BY <2>3 DEF a, d, p, m, q, w
<1>4. LET w == S!Aborted(v)
      IN  /\ w \in SyncType /\ w.active_base = v.active_base + v.in_main
          /\ w.pending_base = v.pending_base + v.in_main
          /\ w.active_delta = v.active_delta - v.in_main
          /\ w.in_pending = v.in_pending /\ w.in_main = 0
  <2> DEFINE a == v.active_base + v.in_main
             d == v.active_delta - v.in_main
             p == v.pending_base + v.in_main
             m == 0
             q == v.in_pending
             w == S!Aborted(v)
  <2>1. w = [v EXCEPT !.active_base = a, !.active_delta = d, !.pending_base = p, !.in_main = m, !.in_pending = q]
    BY DEF S!Aborted, SyncType
  <2>2. a \in Int /\ d \in Int /\ p \in Int /\ m \in Int /\ q \in Int
    BY <1>1
  <2> HIDE DEF a, d, p, m, q, w
  <2>3. /\ w \in SyncType /\ w.active_base = a /\ w.active_delta = d /\ w.pending_base = p
        /\ w.in_main = m /\ w.in_pending = q
    BY <2>1, <2>2 DEF SyncType
  <2> QED BY <2>3 DEF a, d, p, m, q, w
<1> QED BY <1>2, <1>3, <1>4

LEMMA BooksAbort == Books /\ S!AbortMainFrame => Books'
<1> SUFFICES ASSUME Books, S!AbortMainFrame PROVE Books'
  OBVIOUS
<1>1. offsets' = offsets /\ total' = total /\ Zooms' = Zooms
  BY DEF S!AbortMainFrame, Zooms
<1>2. \A l \in Layers : sync[l] \in SyncType /\ offsets[l] \in Int /\ total[l] \in Int
  BY DEF Books, SyncsType
<1>3. CASE client.frame = "applied" /\ S!BeginMainFrameAborted(TRUE) /\ client' = [client EXCEPT !.frame = "none"]
  <2>1. /\ client' \in [commit : BOOLEAN, frame : {"none", "sent", "applied", "changed"}, pending : BOOLEAN]
        /\ client'.frame = "none" /\ client'.pending = client.pending /\ client'.commit = client.commit
    BY <1>3 DEF Books
  <2>2. sync' = [l \in Layers |-> S!Aborted(sync[l])]
    BY <1>3 DEF S!BeginMainFrameAborted, Layers
  <2>3. \A l \in Layers :
          /\ sync'[l] \in SyncType
          /\ sync'[l].active_base = sync[l].active_base + sync[l].in_main
          /\ sync'[l].pending_base = sync[l].pending_base + sync[l].in_main
          /\ sync'[l].active_delta = sync[l].active_delta - sync[l].in_main
          /\ sync'[l].in_pending = sync[l].in_pending /\ sync'[l].in_main = 0
    <3> TAKE l \in Layers
    <3>1. sync'[l] = S!Aborted(sync[l]) /\ sync[l] \in SyncType /\ offsets[l] \in Int
      BY <1>2, <2>2
    <3> QED BY <3>1, SyncedShape
  <2>4. sync' \in SyncsType
    BY <2>2, <2>3 DEF SyncsType
  <2> QED BY <1>1, <1>2, <1>3, <2>1, <2>3, <2>4 DEF Books, OnMain, Base, Unsent, SyncType
<1>4. CASE /\ client.frame = "sent" /\ S!BeginMainFrameAborted(FALSE)
           /\ client' = [client EXCEPT !.frame = "none", !.commit = TRUE]
  <2>1. /\ client' \in [commit : BOOLEAN, frame : {"none", "sent", "applied", "changed"}, pending : BOOLEAN]
        /\ client'.frame = "none" /\ client'.pending = client.pending /\ client'.commit
    BY <1>4 DEF Books
  <2>2. sync' = sync
    BY <1>4 DEF S!BeginMainFrameAborted
  <2> QED BY <1>1, <1>4, <2>1, <2>2 DEF Books, OnMain, Base, Unsent
<1> QED BY <1>3, <1>4 DEF S!AbortMainFrame

LEMMA BooksCommit == Books /\ S!Commit => Books'
<1> SUFFICES ASSUME Books, S!Commit PROVE Books'
  OBVIOUS
<1>1. /\ client.frame \in {"applied", "changed"} /\ ~ client.pending
      /\ client' = [client EXCEPT !.frame = "none", !.pending = TRUE]
      /\ sync' = [l \in Layers |-> S!Committed(sync[l], offsets[l])]
      /\ offsets' = offsets /\ total' = total /\ Zooms' = Zooms
  BY DEF S!Commit, Layers, Zooms
<1>2. /\ client' \in [commit : BOOLEAN, frame : {"none", "sent", "applied", "changed"}, pending : BOOLEAN]
      /\ client'.frame = "none" /\ client'.pending /\ client'.commit = client.commit
  BY <1>1 DEF Books
<1>3. \A l \in Layers : sync[l] \in SyncType /\ offsets[l] \in Int /\ total[l] \in Int
  BY DEF Books, SyncsType
<1>4. \A l \in Layers :
        /\ sync'[l] \in SyncType
        /\ sync'[l].active_base = sync[l].active_base /\ sync'[l].pending_base = offsets[l]
        /\ sync'[l].active_delta = sync[l].active_delta
        /\ sync'[l].in_pending = sync[l].in_main /\ sync'[l].in_main = 0
  <2> TAKE l \in Layers
  <2> DEFINE v == sync[l]
             o == offsets[l]
  <2>1. sync'[l] = S!Committed(v, o) /\ v \in SyncType /\ o \in Int
    BY <1>1, <1>3
  <2> HIDE DEF v, o
  <2>2. LET w == S!Committed(v, o)
        IN  /\ w \in SyncType /\ w.active_base = v.active_base /\ w.pending_base = o
            /\ w.active_delta = v.active_delta /\ w.in_pending = v.in_main /\ w.in_main = 0
    BY <2>1, SyncedShape
  <2> QED BY <2>1, <2>2 DEF v, o
<1>5. sync' \in SyncsType
  BY <1>1, <1>4 DEF SyncsType
<1> QED BY <1>1, <1>2, <1>3, <1>4, <1>5 DEF Books, OnMain, Base, Unsent, SyncType

LEMMA BooksActivate == Books /\ S!Activate => Books'
<1> SUFFICES ASSUME Books, S!Activate PROVE Books'
  OBVIOUS
<1>1. /\ client.pending /\ client' = [client EXCEPT !.pending = FALSE]
      /\ sync' = [l \in Layers |-> S!Activated(sync[l])]
      /\ offsets' = offsets /\ total' = total /\ Zooms' = Zooms
  BY DEF S!Activate, Layers, Zooms
<1>2. /\ client' \in [commit : BOOLEAN, frame : {"none", "sent", "applied", "changed"}, pending : BOOLEAN]
      /\ client'.frame = client.frame /\ ~ client'.pending /\ client'.commit = client.commit
  BY <1>1 DEF Books
<1>3. \A l \in Layers : sync[l] \in SyncType /\ offsets[l] \in Int /\ total[l] \in Int
  BY DEF Books, SyncsType
<1>4. \A l \in Layers :
        /\ sync'[l] \in SyncType
        /\ sync'[l].active_base = sync[l].pending_base
        /\ sync'[l].active_delta = sync[l].active_delta - sync[l].in_pending
        /\ sync'[l].in_pending = 0 /\ sync'[l].in_main = sync[l].in_main
  <2> TAKE l \in Layers
  <2>1. sync'[l] = S!Activated(sync[l]) /\ sync[l] \in SyncType /\ offsets[l] \in Int
    BY <1>1, <1>3
  <2> QED BY <2>1, SyncedShape
<1>5. sync' \in SyncsType
  BY <1>1, <1>4 DEF SyncsType
<1> QED BY <1>1, <1>2, <1>3, <1>4, <1>5 DEF Books, OnMain, Base, Unsent, SyncType

LEMMA BooksAreSound ==
  Books => S!EveryScrollCounts /\ S!QuietThreadsAgree /\ S!DeltasAreSent
<1> SUFFICES ASSUME Books PROVE S!EveryScrollCounts /\ S!QuietThreadsAgree /\ S!DeltasAreSent
  OBVIOUS
<1>1. \A l \in Layers :
        /\ sync[l] \in SyncType /\ offsets[l] \in Int /\ total[l] \in Int
        /\ offsets[l] + Unsent(l) - OnMain(l) = total[l]
        /\ ~ client.pending => sync[l].in_pending = 0
        /\ client.frame \in {"none", "sent"} => Base(l) = offsets[l]
        /\ ~ client.commit /\ ~ Zooms => Unsent(l) = IF client.frame = "none" THEN 0 ELSE sync[l].in_main
  BY DEF Books, SyncsType
<1>2. client.frame \in {"none", "sent", "applied", "changed"}
  BY DEF Books
<1>3. S!EveryScrollCounts
  BY <1>1 DEF S!EveryScrollCounts, S!PendingDelta, Unsent, OnMain, Layers
<1>4. S!QuietThreadsAgree
  BY <1>1, <1>2 DEF S!QuietThreadsAgree, S!Current, Unsent, OnMain, Base, SyncType, Layers
<1>5. S!DeltasAreSent
  BY <1>1 DEF S!DeltasAreSent, S!PendingDelta, Unsent, Layers, Zooms
<1> QED BY <1>3, <1>4, <1>5

-----------------------------------------------------------------------------
(* The layer of a gesture.                                                 *)

GestureType == [layer : Layers \cup {S!NoLayer}, locked : BOOLEAN, wheel : BOOLEAN, overscroll : Int,
                pinch : BOOLEAN, pinch_clears : BOOLEAN]

\* A scroll has its layer, and what does not propagate is locked to the one it moved; a
\* scroll ends every animation, of which there is one.
Gestures ==
  /\ animates
  /\ gesture \in GestureType
  /\ animation \in [Layers -> Int] /\ page_scale_animation \in Int
  /\ input \in [on : BOOLEAN, propagates : BOOLEAN, moved : SUBSET Layers]
  /\ \A k, l \in Layers : animation[k] # S!NoTarget /\ animation[l] # S!NoTarget => k = l
  /\ gesture.locked => gesture.layer # S!NoLayer
  /\ input.on => gesture.layer # S!NoLayer /\ \A l \in Layers : animation[l] = S!NoTarget
  /\ gesture.pinch_clears => gesture.pinch /\ ~ input.on
  /\ input.moved # {} => input.on /\ ~ input.propagates /\ gesture.locked /\ input.moved = {gesture.layer}

\* Animations go through the animation host.
HasHost == AnimationHosts \subseteq {TRUE}

LEMMA GesturesFirst == HasHost /\ S!Init => Gestures
<1> SUFFICES ASSUME HasHost, S!Init PROVE Gestures
  OBVIOUS
<1>1. /\ animates \in AnimationHosts
      /\ gesture = [layer |-> S!NoLayer, locked |-> FALSE, wheel |-> FALSE, overscroll |-> 0,
                    pinch |-> FALSE, pinch_clears |-> FALSE]
      /\ animation = [l \in Layers |-> S!NoTarget] /\ page_scale_animation = S!NoTarget
      /\ input = [on |-> FALSE, propagates |-> TRUE, moved |-> {}]
  BY DEF S!Init, Layers
<1>2. S!NoTarget \in Int
  BY DEF S!NoTarget
<1>3. animates
  BY <1>1 DEF HasHost
<1>4. gesture \in GestureType /\ gesture.layer = S!NoLayer /\ ~ gesture.locked /\ ~ gesture.pinch_clears
  BY <1>1 DEF GestureType
<1>5. input \in [on : BOOLEAN, propagates : BOOLEAN, moved : SUBSET Layers] /\ ~ input.on /\ input.moved = {}
  BY <1>1
<1> QED BY <1>1, <1>2, <1>3, <1>4, <1>5 DEF Gestures

LEMMA PlacesOutwards ==
  ASSUME NEW l \in Layers
  PROVE  S!Outwards(l) \subseteq 1 .. Depth /\ S!Outwards(l) # {}
<1>1. PICK i \in 1 .. Depth : S!Outwards(l) = i .. Depth
  BY OutwardsShape
<1>2. Depth \in Nat
  BY ChainShape
<1>3. i \in i .. Depth /\ \A k \in i .. Depth : k \in 1 .. Depth
  BY <1>2
<1> QED BY <1>1, <1>3

LEMMA LayerAt ==
  ASSUME NEW P \in SUBSET (1 .. Depth), P # {}
  PROVE  Chain[S!Min(P)] \in Layers /\ Chain[S!Max(P)] \in Layers
<1>1. S!Min(P) \in 1 .. Depth /\ S!Max(P) \in 1 .. Depth
  BY Ends
<1>2. \A i \in 1 .. Depth : Chain[i] \in Layers
  BY ChainShape
<1> QED BY <1>1, <1>2

LEMMA LayerIsFound ==
  ASSUME NEW l \in Layers, NEW animated \in BOOLEAN
  PROVE  S!FindScrollLayer(l, animated) \in Layers
<1> DEFINE able == {i \in S!Outwards(l) : MCMaxScrollOffset[Chain[i]] > 0}
           found == IF able = {} \/ Chain[S!Min(able)] = S!Outer THEN S!Inner ELSE Chain[S!Min(able)]
<1>1. able \in SUBSET (1 .. Depth)
  BY PlacesOutwards
<1> HIDE DEF able
<1>2. found \in Layers
  BY <1>1, LayerAt, ChainShape
<1>3. S!FindScrollLayer(l, animated) = IF animated /\ found = S!Inner THEN S!Outer ELSE found
  BY DEF S!FindScrollLayer, able, Chain
<1> QED BY <1>2, <1>3, ChainShape

LEMMA ClearedShape ==
  ASSUME NEW g \in GestureType
  PROVE  LET c == S!Cleared(g)
         IN  /\ c \in GestureType /\ c.layer = S!NoLayer /\ ~ c.locked
             /\ c.pinch = g.pinch /\ c.pinch_clears = g.pinch_clears
<1> DEFINE n == S!NoLayer
           z == 0
           c == S!Cleared(g)
<1>1. c = [g EXCEPT !.layer = n, !.locked = FALSE, !.overscroll = z] /\ z \in Int
  BY DEF S!Cleared
<1>2. n \in Layers \cup {S!NoLayer}
  OBVIOUS
<1> HIDE DEF z, n, c
<1>3. /\ c \in GestureType /\ c.layer = n /\ ~ c.locked
      /\ c.pinch = g.pinch /\ c.pinch_clears = g.pinch_clears
  BY <1>1, <1>2 DEF GestureType
<1> QED BY <1>3 DEF c, n

\* Nothing is animated any more.
LEMMA AnimationsAbort ==
  ASSUME Gestures, NEW l
  PROVE  S!ScrollAnimationAbort(l) = [k \in Layers |-> S!NoTarget]
BY DEF Gestures, S!ScrollAnimationAbort, Layers

LEMMA GestureBegins ==
  ASSUME Gestures, NEW l \in Layers, NEW wheel \in BOOLEAN, S!ScrollBeginImpl(l, wheel), ~ input.on, ~ gesture.pinch,
         UNCHANGED <<animates, page_scale_animation>>
  PROVE  Gestures'
<1>1. animation' = [k \in Layers |-> S!NoTarget] /\ S!NoTarget \in Int
  BY AnimationsAbort DEF S!ScrollBeginImpl, S!NoTarget
<1> DEFINE c == S!Cleared(gesture)
<1>2. gesture' = [c EXCEPT !.layer = l, !.wheel = wheel]
  BY DEF S!ScrollBeginImpl
<1>3. c \in GestureType /\ ~ c.locked /\ ~ c.pinch_clears
  BY ClearedShape DEF Gestures
<1> HIDE DEF c
<1>4. gesture' \in GestureType /\ gesture'.layer = l /\ ~ gesture'.locked /\ ~ gesture'.pinch_clears
  BY <1>2, <1>3 DEF GestureType
<1>5. PICK propagates \in BOOLEAN : input' = [on |-> TRUE, propagates |-> propagates, moved |-> {}]
  BY DEF S!ScrollBeginImpl
<1> QED BY <1>1, <1>4, <1>5, ChainShape DEF Gestures

LEMMA GestureScrolls ==
  ASSUME Gestures, NEW st \in WalkType, st.delta \in Int, st.layer # S!NoLayer, UNCHANGED <<animates, animation, page_scale_animation>>,
         gesture' = S!ScrolledGesture(st), input.on,
         gesture.locked => st.consumed, st.caused => st.consumed,
         input.moved # {} => st.layer = gesture.layer,
         input' = IF ~ input.propagates /\ st.caused THEN [input EXCEPT !.moved = @ \cup {st.layer}] ELSE input
  PROVE  Gestures'
<1> DEFINE over == (IF st.caused THEN 0 ELSE gesture.overscroll) + IF MCMaxScrollOffset[S!Inner] > 0 THEN st.delta ELSE 0
<1>1. gesture' = [gesture EXCEPT !.layer = st.layer, !.locked = st.consumed, !.overscroll = over]
  BY DEF S!ScrolledGesture
<1>2. over \in Int /\ st.layer \in Layers /\ st.consumed \in BOOLEAN /\ gesture \in GestureType
  BY DEF Gestures, GestureType, WalkType
<1> HIDE DEF over
<1>3. /\ gesture' \in GestureType /\ gesture'.layer = st.layer /\ gesture'.locked = st.consumed
      /\ gesture'.pinch = gesture.pinch /\ gesture'.pinch_clears = gesture.pinch_clears
  BY <1>1, <1>2 DEF GestureType
<1>4. /\ input' \in [on : BOOLEAN, propagates : BOOLEAN, moved : SUBSET Layers]
      /\ input'.on = input.on /\ input'.propagates = input.propagates
      /\ input'.moved = IF ~ input.propagates /\ st.caused THEN input.moved \cup {st.layer} ELSE input.moved
  BY <1>2 DEF Gestures
<1>5. input'.moved # {} => input'.on /\ ~ input'.propagates /\ gesture'.locked /\ input'.moved = {gesture'.layer}
  <2>1. input.moved # {} => input.on /\ ~ input.propagates /\ gesture.locked /\ input.moved = {st.layer}
    BY DEF Gestures
  <2>2. CASE ~ input.propagates /\ st.caused
    BY <1>3, <1>4, <2>1, <2>2
  <2>3. CASE ~ (~ input.propagates /\ st.caused)
    BY <1>3, <1>4, <2>1, <2>3
  <2> QED BY <2>2, <2>3
<1>6. gesture'.pinch_clears => gesture'.pinch /\ ~ input'.on
  BY <1>3, <1>4 DEF Gestures
<1> QED BY <1>3, <1>4, <1>5, <1>6 DEF Gestures

LEMMA ScrollsBy == Books /\ Gestures /\ S!ScrollBy => Books' /\ Gestures'
<1> SUFFICES ASSUME Books, Gestures, S!ScrollBy PROVE Books' /\ Gestures'
  OBVIOUS
<1>1. /\ input.on /\ UNCHANGED <<animates, animation, page_scale_animation, offsets>>
      /\ gesture.layer \in Layers /\ gesture.layer # S!NoLayer
      /\ gesture.locked \in BOOLEAN /\ input.propagates \in BOOLEAN /\ Zooms' = Zooms
  BY DEF S!ScrollBy, Gestures, GestureType, Zooms
<1> DEFINE Start(d) == [sync |-> sync, delta |-> d, layer |-> gesture.layer, consumed |-> gesture.locked,
                        caused |-> FALSE, propagates |-> input.propagates]
           End(d) == S!DistributeScrollDelta(Start(d), gesture.layer)
<1>2. PICK d \in {-1, 1, 2} :
        /\ gesture' = S!ScrolledGesture(End(d)) /\ S!Show(End(d).sync) /\ S!NeedsCommit(End(d).caused)
        /\ input' = IF ~ input.propagates /\ End(d).caused
                    THEN [input EXCEPT !.moved = @ \cup {End(d).layer}] ELSE input
  BY <1>1 DEF S!ScrollBy
<1> DEFINE start == Start(d)
           st == End(d)
<1>3. start \in WalkType /\ ~ start.caused
  BY <1>1 DEF WalkType, Books
<1>4. Reached(start, st)
  <2>1. PICK i \in 1 .. Depth : S!Outwards(gesture.layer) = i .. Depth
    BY <1>1, OutwardsShape
  <2>2. Depth \in Nat /\ Chain \in Seq(Layers)
    BY ChainShape
  <2>3. i .. Depth \in SUBSET (1 .. Depth) /\ i .. Depth # {} /\ i \in i .. Depth
    <3>1. i \in i .. Depth /\ \A k \in i .. Depth : k \in 1 .. Depth
      BY <2>2
    <3> QED BY <3>1
  <2>4. S!Min(i .. Depth) = i
    <3>1. S!Min(i .. Depth) \in i .. Depth /\ S!Min(i .. Depth) <= i
      BY <2>3, Ends
    <3> QED BY <2>2, <3>1
  <2> DEFINE n == i - 1
  <2>5. n \in 0 .. Len(Chain) /\ n + 1 = i
    BY <2>2 DEF Depth
  <2>6. SubSeq(Chain, n + 1, Len(Chain)) \in Seq(Layers)
    BY <2>2, <2>5, RestShape
  <2>7. SubSeq(MCChain, S!Min(S!Outwards(gesture.layer)), Len(MCChain)) \in Seq(Layers)
    BY <2>1, <2>4, <2>5, <2>6 DEF Chain
  <2> DEFINE way == SubSeq(MCChain, S!Min(S!Outwards(gesture.layer)), Len(MCChain))
  <2> HIDE DEF way
  <2>8. st = S!FoldLeft(S!DistributeScroll, start, way)
    BY DEF S!DistributeScrollDelta, way
  <2> HIDE DEF start, st
  <2> QED BY <1>3, <2>7, <2>8, DistributedAlong DEF way
<1>5. /\ start.sync = sync /\ start.layer = gesture.layer /\ start.consumed = gesture.locked
      /\ start.propagates = input.propagates
  OBVIOUS
<1> HIDE DEF Start, End, start, st
<1>6. st \in WalkType /\ st.sync \in SyncsType /\ st.caused \in BOOLEAN /\ st.layer \in Layers /\ st.delta \in Int
  BY <1>4 DEF Reached, WalkType
<1>7. /\ OnlyDeltas(sync, st.sync) /\ (~ st.caused => st.sync = sync) /\ (st.caused => st.consumed)
      /\ ~ input.propagates /\ gesture.locked => st.layer = gesture.layer
      /\ gesture.locked => st.consumed
  BY <1>4, <1>5 DEF Reached
<1>8. /\ gesture' = S!ScrolledGesture(st) /\ S!Show(st.sync) /\ S!NeedsCommit(st.caused)
      /\ input' = IF ~ input.propagates /\ st.caused
                  THEN [input EXCEPT !.moved = @ \cup {st.layer}] ELSE input
  BY <1>2 DEF st
<1>9. Books'
  <2> DEFINE v == st.sync
             asks == st.caused
  <2>1. OnlyDeltas(sync, v) /\ asks \in BOOLEAN /\ (asks \/ v = sync) /\ S!Show(v) /\ S!NeedsCommit(asks)
    BY <1>6, <1>7, <1>8
  <2> HIDE DEF v, asks
  <2> QED BY <1>1, <2>1, BooksShown
<1>10. input.moved # {} => st.layer = gesture.layer
  BY <1>7 DEF Gestures
<1>11. Gestures'
  <2>1. st.layer # S!NoLayer
    BY <1>6, ChainShape
  <2> QED BY <1>1, <1>6, <1>7, <1>8, <1>10, <2>1, GestureScrolls
<1> QED BY <1>9, <1>11

LEMMA ScrollsByPage == Books /\ Gestures /\ S!ScrollVerticallyByPage => Books' /\ Gestures'
<1> SUFFICES ASSUME Books, Gestures, S!ScrollVerticallyByPage PROVE Books' /\ Gestures'
  OBVIOUS
<1>1. /\ input.on /\ UNCHANGED <<animates, animation, page_scale_animation, offsets>>
      /\ gesture \in GestureType /\ gesture.layer \in Layers /\ gesture.layer # S!NoLayer
      /\ input' = [input EXCEPT !.moved = IF gesture'.layer = gesture.layer THEN @ ELSE {}]
      /\ Zooms' = Zooms
  BY DEF S!ScrollVerticallyByPage, Gestures, GestureType, Zooms
<1> DEFINE chain == {i \in S!Outwards(gesture.layer) : Chain[i] # S!Outer}
           Able(d) == {i \in chain : S!Taken(sync, Chain[i], d) # 0}
           Before(d) == {i \in chain : \A k \in Able(d) : i < k}
<1>2. PICK d \in {-1, 1} :
        /\ gesture' = [gesture EXCEPT !.layer = IF Before(d) = {} THEN gesture.layer ELSE Chain[S!Max(Before(d))]]
        /\ IF Able(d) = {} THEN UNCHANGED <<sync, client, total>>
           ELSE S!Show(S!Scrolled(sync, Chain[S!Min(Able(d))], d)) /\ S!NeedsCommit(TRUE)
  BY DEF S!ScrollVerticallyByPage, Chain
<1> DEFINE able == Able(d)
           passed == Before(d)
<1>3. able \in SUBSET (1 .. Depth) /\ passed \in SUBSET (1 .. Depth)
  BY <1>1, PlacesOutwards
<1>4. /\ gesture' = [gesture EXCEPT !.layer = IF passed = {} THEN gesture.layer ELSE Chain[S!Max(passed)]]
      /\ IF able = {} THEN UNCHANGED <<sync, client, total>>
         ELSE S!Show(S!Scrolled(sync, Chain[S!Min(able)], d)) /\ S!NeedsCommit(TRUE)
  BY <1>2
<1> HIDE DEF able, passed, chain, Able, Before
<1>5. Books'
  <2>1. CASE able = {}
    BY <1>1, <1>4, <2>1, BooksRest
  <2>2. CASE able # {}
    <3> DEFINE l == Chain[S!Min(able)]
               v == S!Scrolled(sync, l, d)
    <3>1. l \in Layers /\ sync \in SyncsType /\ d \in Int
      <4>1. l \in Layers
        BY <1>3, <2>2, LayerAt
      <4>2. sync \in SyncsType
        BY DEF Books
      <4>3. d \in Int
        BY <1>2
      <4> QED BY <4>1, <4>2, <4>3
    <3> HIDE DEF l
    <3>2. OnlyDeltas(sync, v)
      BY <3>1, ScrolledShape
    <3>3. S!Show(v) /\ S!NeedsCommit(TRUE)
      BY <1>4, <2>2 DEF l
    <3> HIDE DEF v
    <3> QED BY <1>1, <3>2, <3>3, BooksShown
  <2> QED BY <2>1, <2>2
<1>6. Gestures'
  <2> DEFINE l == IF passed = {} THEN gesture.layer ELSE Chain[S!Max(passed)]
  <2>1. l \in Layers /\ gesture' = [gesture EXCEPT !.layer = l]
    BY <1>1, <1>3, <1>4, LayerAt
  <2> HIDE DEF l
  <2>2. /\ gesture' \in GestureType /\ gesture'.layer = l /\ gesture'.locked = gesture.locked
        /\ gesture'.pinch = gesture.pinch /\ gesture'.pinch_clears = gesture.pinch_clears /\ l # S!NoLayer
    BY <1>1, <2>1, ChainShape DEF GestureType
  <2>3. /\ input' \in [on : BOOLEAN, propagates : BOOLEAN, moved : SUBSET Layers]
        /\ input'.on = input.on /\ input'.propagates = input.propagates
        /\ input'.moved = IF gesture'.layer = gesture.layer THEN input.moved ELSE {}
    BY <1>1 DEF Gestures
  <2> QED BY <1>1, <2>2, <2>3 DEF Gestures
<1> QED BY <1>5, <1>6

LEMMA GesturesRest ==
  Gestures /\ UNCHANGED <<animates, gesture, animation, page_scale_animation, input>> => Gestures'
BY DEF Gestures

LEMMA ScrollBegins == Gestures /\ (S!ScrollBegin \/ S!RootScrollBegin) => Gestures'
<1> SUFFICES ASSUME Gestures, S!ScrollBegin \/ S!RootScrollBegin PROVE Gestures'
  OBVIOUS
<1>1. ~ input.on /\ ~ gesture.pinch /\ UNCHANGED <<animates, page_scale_animation>>
  BY DEF S!ScrollBegin, S!RootScrollBegin
<1>2. CASE \E hit \in S!Layers, wheel \in BOOLEAN : S!ScrollBeginImpl(S!FindScrollLayer(hit, FALSE), wheel)
  <2>1. PICK hit \in Layers, wheel \in BOOLEAN : S!ScrollBeginImpl(S!FindScrollLayer(hit, FALSE), wheel)
    BY <1>2 DEF Layers
  <2>2. S!FindScrollLayer(hit, FALSE) \in Layers
    BY LayerIsFound
  <2> QED BY <1>1, <2>1, <2>2, GestureBegins
<1>3. CASE S!ScrollBeginImpl(S!Inner, FALSE)
  BY <1>1, <1>3, ChainShape, GestureBegins
<1>4. CASE gesture' = S!Cleared(gesture) /\ UNCHANGED <<animation, input>>
  BY <1>1, <1>4, ClearedShape DEF Gestures
<1> QED BY <1>2, <1>3, <1>4 DEF S!ScrollBegin, S!RootScrollBegin

LEMMA ScrollEnds == Gestures /\ S!ScrollEnd => Gestures'
<1> SUFFICES ASSUME Gestures, S!ScrollEnd PROVE Gestures'
  OBVIOUS
<1>1. /\ gesture' = S!Cleared(gesture) /\ input' = [input EXCEPT !.on = FALSE, !.moved = {}] /\ input.on
      /\ UNCHANGED <<animates, animation, page_scale_animation>>
  BY DEF S!ScrollEnd
<1>2. /\ gesture' \in GestureType /\ gesture'.layer = S!NoLayer /\ ~ gesture'.locked
      /\ gesture'.pinch = gesture.pinch /\ gesture'.pinch_clears = gesture.pinch_clears
  BY <1>1, ClearedShape DEF Gestures
<1>3. /\ input' \in [on : BOOLEAN, propagates : BOOLEAN, moved : SUBSET Layers]
      /\ ~ input'.on /\ input'.moved = {}
  BY <1>1 DEF Gestures
<1> QED BY <1>1, <1>2, <1>3 DEF Gestures

LEMMA PinchBegins == Gestures /\ S!PinchGestureBegin => Gestures'
<1> SUFFICES ASSUME Gestures, S!PinchGestureBegin PROVE Gestures'
  OBVIOUS
<1> DEFINE clears == (gesture.layer = S!NoLayer)
           l == S!Inner
<1>1. /\ gesture' = [gesture EXCEPT !.pinch = TRUE, !.pinch_clears = clears, !.layer = l]
      /\ input' = [input EXCEPT !.moved = {}]
      /\ UNCHANGED <<animates, animation, page_scale_animation>>
  BY DEF S!PinchGestureBegin
<1>2. clears \in BOOLEAN /\ l \in Layers /\ l # S!NoLayer /\ (clears => ~ input.on)
  BY ChainShape DEF Gestures
<1> HIDE DEF clears, l
<1>3. /\ gesture' \in GestureType /\ gesture'.layer = l /\ gesture'.locked = gesture.locked
      /\ gesture'.pinch /\ gesture'.pinch_clears = clears
  BY <1>1, <1>2 DEF Gestures, GestureType
<1>4. /\ input' \in [on : BOOLEAN, propagates : BOOLEAN, moved : SUBSET Layers]
      /\ input'.on = input.on /\ input'.moved = {}
  BY <1>1 DEF Gestures
<1> QED BY <1>1, <1>2, <1>3, <1>4 DEF Gestures

LEMMA PinchEnds == Gestures /\ S!PinchGestureEnd => Gestures'
<1> SUFFICES ASSUME Gestures, S!PinchGestureEnd PROVE Gestures'
  OBVIOUS
<1> DEFINE g == IF gesture.pinch_clears THEN S!Cleared(gesture) ELSE gesture
<1>1. /\ gesture' = [g EXCEPT !.pinch = FALSE, !.pinch_clears = FALSE]
      /\ UNCHANGED <<animates, animation, page_scale_animation, input>>
  BY DEF S!PinchGestureEnd, S!PinchEnded
<1>2. /\ g \in GestureType
      /\ gesture.pinch_clears => g.layer = S!NoLayer /\ ~ g.locked
      /\ ~ gesture.pinch_clears => g = gesture
  BY ClearedShape DEF Gestures
<1> HIDE DEF g
<1>3. /\ gesture' \in GestureType /\ gesture'.layer = g.layer /\ gesture'.locked = g.locked
      /\ ~ gesture'.pinch_clears
  BY <1>1, <1>2 DEF GestureType
<1> QED BY <1>1, <1>2, <1>3 DEF Gestures

LEMMA ScrollIsAnimated == Books /\ Gestures /\ S!ScrollAnimated => Gestures'
<1> SUFFICES ASSUME Books, Gestures, S!ScrollAnimated PROVE Gestures'
  OBVIOUS
<1>1. ~ input.on /\ ~ gesture.pinch /\ UNCHANGED <<animates, page_scale_animation, input>> /\ gesture \in GestureType
      /\ S!NoTarget \in Int
  BY DEF S!ScrollAnimated, Gestures, S!NoTarget
<1> DEFINE From(hit) == S!FindScrollLayer(hit, TRUE)
           Able(hit, d) == {i \in S!Outwards(From(hit)) : S!Taken(sync, Chain[i], d) # 0}
           First(hit, d) == Chain[S!Min(Able(hit, d))]
<1>2. PICK hit \in Layers, d \in {-1, 1} :
        IF gesture.layer # S!NoLayer
        THEN /\ animation' = IF animation[gesture.layer] = S!NoTarget THEN animation
                  ELSE [animation EXCEPT ![gesture.layer] = S!Clamp(gesture.layer, @ + d)]
             /\ UNCHANGED gesture
        ELSE IF Able(hit, d) = {}
             THEN animation' = S!ScrollAnimationAbort(From(hit)) /\ gesture' = S!Cleared(gesture)
             ELSE /\ animation' = [S!ScrollAnimationAbort(From(hit)) EXCEPT ![First(hit, d)] =
                                     S!Clamp(First(hit, d), S!Current(sync, First(hit, d)) + d)]
                  /\ gesture' = [S!Cleared(gesture) EXCEPT !.layer = First(hit, d), !.wheel = TRUE]
  BY DEF S!ScrollAnimated, Layers, Chain
<1> DEFINE from == From(hit)
           able == Able(hit, d)
           first == First(hit, d)
<1>3. from \in Layers /\ able \in SUBSET (1 .. Depth)
  BY LayerIsFound, PlacesOutwards
<1>4. able # {} => first \in Layers
  <2> HIDE DEF Able
  <2> QED BY <1>3, LayerAt
<1>5. CASE gesture.layer # S!NoLayer
  <2> DEFINE l == gesture.layer
             target == S!Clamp(l, animation[l] + d)
  <2>1. l \in Layers /\ UNCHANGED gesture
    BY <1>1, <1>2, <1>5 DEF GestureType
  <2>2. animation' = IF animation[l] = S!NoTarget THEN animation ELSE [animation EXCEPT ![l] = target]
    BY <1>2, <1>5
  <2>3. animation[l] + d \in Int
    BY <2>1 DEF Gestures
  <2>4. target \in Int
    BY <2>1, <2>3, ClampIsInt
  <2> HIDE DEF l, target
  <2>5. animation' \in [Layers -> Int] /\ \A k \in Layers : animation'[k] # S!NoTarget => animation[k] # S!NoTarget
    BY <2>1, <2>2, <2>4 DEF Gestures
  <2> QED BY <1>1, <2>1, <2>5 DEF Gestures
<1>6. CASE gesture.layer = S!NoLayer /\ able = {}
  <2>1. animation' = S!ScrollAnimationAbort(from) /\ gesture' = S!Cleared(gesture)
    BY <1>2, <1>6
  <2>2. animation' = [k \in Layers |-> S!NoTarget]
    BY <2>1, AnimationsAbort
  <2> HIDE DEF from, able, first, From, Able, First
  <2> QED BY <1>1, <2>1, <2>2, ClearedShape DEF Gestures
<1>7. CASE gesture.layer = S!NoLayer /\ able # {}
  <2> DEFINE target == S!Clamp(first, S!Current(sync, first) + d)
             c == S!Cleared(gesture)
             none == S!ScrollAnimationAbort(from)
  <2>1. animation' = [none EXCEPT ![first] = target] /\ gesture' = [c EXCEPT !.layer = first, !.wheel = TRUE]
    BY <1>2, <1>7
  <2>2. none = [k \in Layers |-> S!NoTarget]
    BY AnimationsAbort
  <2>3. first \in Layers /\ first # S!NoLayer
    BY <1>4, <1>7, ChainShape
  <2>4. /\ c \in GestureType /\ ~ c.locked /\ c.pinch = gesture.pinch /\ c.pinch_clears = gesture.pinch_clears
    BY <1>1, ClearedShape
  <2> HIDE DEF from, able, first, From, Able, First, c, none
  <2>5. /\ gesture' \in GestureType /\ gesture'.layer = first /\ ~ gesture'.locked
        /\ gesture'.pinch = gesture.pinch /\ gesture'.pinch_clears = gesture.pinch_clears
    BY <2>1, <2>3, <2>4 DEF GestureType
  <2>6. S!Clamp(first, S!Current(sync, first) + d) \in Int
    <3>1. S!Current(sync, first) + d \in Int
      BY <2>3 DEF Books, SyncsType, SyncType, S!Current
    <3> QED BY <2>3, <3>1, ClampIsInt
  <2> HIDE DEF target
  <2>7. animation' \in [Layers -> Int] /\ \A k \in Layers : animation'[k] # S!NoTarget => k = first
    BY <1>1, <2>1, <2>2, <2>3, <2>6 DEF target
  <2> QED BY <1>1, <2>5, <2>7 DEF Gestures
<1> QED BY <1>5, <1>6, <1>7

\* A delta for the viewport is in the books.
LEMMA ViewportMoves ==
  ASSUME Books, NEW d \in Int, S!Show(S!ScrollViewportInnerFirst(sync, d)), S!NeedsCommit(TRUE), UNCHANGED offsets
  PROVE  Books'
<1> DEFINE v == S!ScrollViewportInnerFirst(sync, d)
<1>1. OnlyDeltas(sync, v) /\ S!Show(v)
  BY ViewportShape DEF Books
<1> HIDE DEF v
<1> QED BY <1>1, BooksShown

LEMMA PinchMoves == Books /\ S!PinchGestureUpdate => Books'
<1> SUFFICES ASSUME Books, S!PinchGestureUpdate PROVE Books'
  OBVIOUS
<1>1. PICK d \in {-1, 1} : S!Show(S!ScrollViewportInnerFirst(sync, d))
  BY DEF S!PinchGestureUpdate
<1>2. S!NeedsCommit(TRUE) /\ UNCHANGED offsets
  BY DEF S!PinchGestureUpdate
<1>3. d \in Int
  OBVIOUS
<1> QED BY <1>1, <1>2, <1>3, ViewportMoves

LEMMA PageScaleMoves == Books /\ Gestures /\ S!AnimatePageScale => Books' /\ Gestures'
<1> SUFFICES ASSUME Books, Gestures, S!AnimatePageScale PROVE Books' /\ Gestures'
  OBVIOUS
<1>1. PICK next_scroll \in 0 .. 2 :
        /\ S!Show(S!ScrollViewportInnerFirst(
                    sync, next_scroll - S!Current(sync, S!Inner) - S!Current(sync, S!Outer)))
        /\ \/ UNCHANGED <<page_scale_animation, client>>
           \/ page_scale_animation' = S!NoTarget /\ S!NeedsCommit(TRUE)
  BY DEF S!AnimatePageScale
<1>2. UNCHANGED <<animates, gesture, animation, offsets, input>> /\ Zooms
  BY DEF S!AnimatePageScale, Zooms
<1> DEFINE d == next_scroll - S!Current(sync, S!Inner) - S!Current(sync, S!Outer)
           v == S!ScrollViewportInnerFirst(sync, d)
<1>3. d \in Int
  <2>1. \A l \in Layers : S!Current(sync, l) \in Int
    BY DEF Books, SyncsType, SyncType, S!Current
  <2>2. S!Current(sync, S!Inner) \in Int /\ S!Current(sync, S!Outer) \in Int /\ next_scroll \in Int
    BY <2>1, ChainShape
  <2> QED BY <2>2
<1>4. S!Show(v)
  BY <1>1
<1> HIDE DEF d
<1>5. CASE UNCHANGED <<page_scale_animation, client>>
  <2>1. OnlyDeltas(sync, v) /\ S!Show(v)
    BY <1>3, <1>4, ViewportShape DEF Books
  <2> HIDE DEF v
  <2>2. S!NeedsCommit(FALSE) /\ Zooms' = Zooms
    BY <1>5 DEF S!NeedsCommit, Zooms, Books
  <2>3. Books'
    BY <1>2, <2>1, <2>2, BooksShown
  <2>4. Gestures'
    BY <1>2, <1>5, GesturesRest
  <2> QED BY <2>3, <2>4
<1>6. CASE page_scale_animation' = S!NoTarget /\ S!NeedsCommit(TRUE)
  <2>1. Books'
    BY <1>2, <1>3, <1>4, <1>6, ViewportMoves
  <2>2. page_scale_animation' \in Int
    BY <1>6 DEF S!NoTarget
  <2>3. Gestures'
    BY <1>2, <2>2 DEF Gestures
  <2> QED BY <2>1, <2>3
<1> QED BY <1>1, <1>5, <1>6

\* A commit is asked for, and nothing moves.
LEMMA BooksAsk ==
  ASSUME Books, S!NeedsCommit(TRUE), UNCHANGED <<sync, offsets, total>>
  PROVE  Books'
<1>1. /\ client' \in [commit : BOOLEAN, frame : {"none", "sent", "applied", "changed"}, pending : BOOLEAN]
      /\ client'.frame = client.frame /\ client'.pending = client.pending /\ client'.commit
  BY DEF Books, S!NeedsCommit
<1> QED BY <1>1 DEF Books, OnMain, Base, Unsent

LEMMA PageScaleStarts == Books /\ Gestures /\ S!StartPageScaleAnimation => Books' /\ Gestures'
<1> SUFFICES ASSUME Books, Gestures, S!StartPageScaleAnimation PROVE Books' /\ Gestures'
  OBVIOUS
<1>1. S!NeedsCommit(TRUE) /\ UNCHANGED <<sync, offsets, total>>
  BY DEF S!StartPageScaleAnimation
<1>2. UNCHANGED <<animates, gesture, animation, input>> /\ page_scale_animation' \in Int
  BY DEF S!StartPageScaleAnimation
<1>3. Books'
  BY <1>1, BooksAsk
<1>4. Gestures'
  BY <1>2 DEF Gestures
<1> QED BY <1>3, <1>4

LEMMA PinchEndIsBooked == Books /\ S!PinchGestureEnd => Books'
<1> SUFFICES ASSUME Books, S!PinchGestureEnd PROVE Books'
  OBVIOUS
<1>1. S!NeedsCommit(TRUE) /\ UNCHANGED <<sync, offsets, total>>
  BY DEF S!PinchGestureEnd
<1> QED BY <1>1, BooksAsk

LEMMA ScrollTicks == Books /\ Gestures /\ S!ScrollAnimationTicks => Books' /\ Gestures'
<1> SUFFICES ASSUME Books, Gestures, S!ScrollAnimationTicks PROVE Books' /\ Gestures'
  OBVIOUS
<1>1. PICK l \in Layers, offset \in Int :
        /\ animation[l] # S!NoTarget
        /\ S!Show([sync EXCEPT ![l].active_delta = offset - sync[l].active_base])
        /\ \/ UNCHANGED <<gesture, animation>>
           \/ animation' = [animation EXCEPT ![l] = S!NoTarget] /\ gesture' = S!Cleared(gesture)
  BY DEF S!ScrollAnimationTicks, Layers
<1>2. S!NeedsCommit(TRUE) /\ UNCHANGED <<animates, page_scale_animation, offsets, input>>
  BY DEF S!ScrollAnimationTicks
<1> DEFINE t == offset - sync[l].active_base
           v == [sync EXCEPT ![l].active_delta = t]
<1>3. sync \in SyncsType /\ sync[l] \in SyncType /\ t \in Int
  BY DEF Books, Gestures, SyncsType, SyncType
<1>4. v = [sync EXCEPT ![l] = [sync[l] EXCEPT !.active_delta = t]] /\ S!Show(v)
  BY <1>1
<1> HIDE DEF t, v
<1>5. [sync[l] EXCEPT !.active_delta = t] \in SyncType
  BY <1>3 DEF SyncType
<1>6. v \in SyncsType
  BY <1>3, <1>4, <1>5 DEF SyncsType
<1>7. \A k \in Layers : v[k] = IF k = l THEN [sync[l] EXCEPT !.active_delta = t] ELSE sync[k]
  BY <1>3, <1>4 DEF SyncsType
<1>8. OnlyDeltas(sync, v)
  BY <1>3, <1>6, <1>7 DEF OnlyDeltas, SyncType
<1>9. Books'
  BY <1>2, <1>4, <1>8, BooksShown
<1>10. CASE UNCHANGED <<gesture, animation>>
  BY <1>2, <1>9, <1>10, GesturesRest
<1>11. CASE animation' = [animation EXCEPT ![l] = S!NoTarget] /\ gesture' = S!Cleared(gesture)
  <2>1. /\ gesture' \in GestureType /\ gesture'.layer = S!NoLayer /\ ~ gesture'.locked
        /\ gesture'.pinch = gesture.pinch /\ gesture'.pinch_clears = gesture.pinch_clears
    BY <1>11, ClearedShape DEF Gestures
  <2>2. ~ input.on
    BY <1>1 DEF Gestures
  <2>3. /\ animation' \in [Layers -> Int]
        /\ \A k \in Layers : animation'[k] # S!NoTarget => animation[k] # S!NoTarget
    BY <1>11 DEF Gestures, S!NoTarget
  <2>4. Gestures'
    BY <1>2, <2>1, <2>2, <2>3 DEF Gestures
  <2> QED BY <1>9, <2>4
<1> QED BY <1>1, <1>10, <1>11

LEMMA ScrolledSoFar == Books /\ Gestures /\ [Next]_vars => Books' /\ Gestures'
<1> SUFFICES ASSUME Books, Gestures, [Next]_vars PROVE Books' /\ Gestures'
  OBVIOUS
<1>1. CASE LayersMove \/ GLMoves \/ ResourcesMove \/ HostMoves \/ UNCHANGED vars
  <2>1. UNCHANGED scrollVars
    BY <1>1 DEF LayersMove, GLMoves, ResourcesMove, HostMoves, vars
  <2> QED BY <2>1, BooksRest, GesturesRest DEF scrollVars, Zooms
<1>2. CASE Scrolls
  <2>1. S!Next
    BY <1>2 DEF Scrolls
  <2>2. CASE S!ScrollBegin \/ S!RootScrollBegin \/ S!ScrollEnd \/ S!PinchGestureBegin \/ S!ScrollAnimated
    <3>1. UNCHANGED <<sync, client, offsets, total>> /\ Zooms' = Zooms
      BY <2>2 DEF Zooms, S!ScrollBegin, S!RootScrollBegin, S!ScrollEnd, S!PinchGestureBegin, S!ScrollAnimated
    <3> QED BY <2>2, <3>1, BooksRest, ScrollBegins, ScrollEnds, PinchBegins, ScrollIsAnimated
  <2>3. CASE S!ScrollBy \/ S!ScrollVerticallyByPage
    BY <2>3, ScrollsBy, ScrollsByPage
  <2>4. CASE S!PinchGestureEnd \/ S!ScrollAnimationTicks \/ S!StartPageScaleAnimation \/ S!AnimatePageScale
    BY <2>4, PinchEnds, PinchEndIsBooked, ScrollTicks, PageScaleStarts, PageScaleMoves
  <2>5. CASE \/ S!PinchGestureUpdate \/ S!SendBeginMainFrame \/ S!ApplyScrollAndScale \/ S!ScrollByScript
             \/ S!AbortMainFrame \/ S!Commit \/ S!Activate
    <3>1. UNCHANGED <<animates, gesture, animation, page_scale_animation, input>>
      BY <2>5 DEF S!PinchGestureUpdate, S!SendBeginMainFrame, S!ApplyScrollAndScale, S!ScrollByScript,
                  S!AbortMainFrame, S!Commit, S!Activate
    <3>2. Books'
      BY <2>5, PinchMoves, BooksSend, BooksApply, BooksScript, BooksAbort, BooksCommit, BooksActivate
    <3> QED BY <3>1, <3>2, GesturesRest
  <2> QED BY <2>1, <2>2, <2>3, <2>4, <2>5 DEF S!Next
<1> QED BY <1>1, <1>2 DEF Next

LEMMA FewAreOne ==
  ASSUME NEW P, \A k, l \in P : k = l
  PROVE  Cardinality(P) <= 1
<1>1. CASE P = {}
  BY <1>1, FS_EmptySet
<1>2. CASE P # {}
  <2>1. PICK k \in P : P = {k}
    BY <1>2
  <2> QED BY <2>1, FS_Singleton
<1> QED BY <1>1, <1>2

LEMMA ScrolledIsSound == Books /\ Gestures => ScrollsAreCounted
<1> SUFFICES ASSUME Books, Gestures PROVE ScrollsAreCounted
  OBVIOUS
<1>0. \A P : S!Cardinality(P) = Cardinality(P)
  BY DEF S!Cardinality, Cardinality
<1>1. Cardinality({l \in Layers : animation[l] # S!NoTarget}) <= 1
  <2>1. \A k, l \in {l \in Layers : animation[l] # S!NoTarget} : k = l
    BY DEF Gestures
  <2> QED BY <2>1, FewAreOne
<1>2. Cardinality(input.moved) <= 1
  <2>1. \A k, l \in input.moved : k = l
    BY DEF Gestures
  <2> QED BY <2>1, FewAreOne
<1>3. S!TypeOK
  BY <1>0, <1>1 DEF S!TypeOK, Gestures, GestureType, Layers
<1>4. S!ScrollsAreCounted
  BY BooksAreSound DEF S!ScrollsAreCounted
<1>5. S!GestureKeepsItsLayer
  BY <1>0, <1>2 DEF S!GestureKeepsItsLayer, S!ScrollKeepsItsLayer, S!OneLayerAtATime, Gestures
<1> QED BY <1>3, <1>4, <1>5 DEF ScrollsAreCounted

\* Both threads count every scroll once, whatever meets it on its way (SyncedProperty,
\* ProcessScrollDeltas, BeginMainFrameAborted), and the layer of a gesture stays its layer,
\* one at a time where scrolls do not propagate (ScrollBegin, DistributeScrollDelta,
\* ScrollVerticallyByPage): for any layers one in the other and any number of moves, on a
\* host with an animation host, without which ScrollAnimationAbort leaves other layers'
\* animations.  While a page scale animation runs its ticks are counted too, but asked for
\* only with the last of them (AnimatePageScale, layer_tree_host_impl.cc:3288-3297).
THEOREM ScrollsStayCounted ==
  ASSUME AnimationHosts \subseteq {TRUE}
  PROVE  Spec => []ScrollsAreCounted
<1>1. Init => Books /\ Gestures
  BY BooksFirst, GesturesFirst DEF Init, HasHost
<1>2. Books /\ Gestures /\ [Next]_vars => Books' /\ Gestures'
  BY ScrolledSoFar
<1>3. Books /\ Gestures => ScrollsAreCounted
  BY ScrolledIsSound
<1> QED BY <1>1, <1>2, <1>3, PTL DEF Spec

=============================================================================
