----------------------------- MODULE Page_proofs -----------------------------
(***************************************************************************)
(* Proofs about the parts of MCPage, for any bounds: what the page and the *)
(* browser ask of a widget's host is answered once and by what it was      *)
(* asked about, the widget takes its input in order, what a frame says of  *)
(* session history is true, and each widget is counted once.               *)
(***************************************************************************)
EXTENDS MCPage, FiniteSetTheorems, FunctionTheorems, SequenceTheorems, TLAPS

-----------------------------------------------------------------------------
(* Messages of a type, counted.                                            *)

LEMMA CountIs ==
  ASSUME NEW q, NEW type
  PROVE  R!Count(q, type) = Cardinality({i \in DOMAIN q : q[i].type = type})
<1>1. \A S : R!Cardinality(S) = Cardinality(S)
  BY DEF R!Cardinality, Cardinality
<1> QED BY <1>1 DEF R!Count

LEMMA CountEmpty ==
  ASSUME NEW type
  PROVE  R!Count(<<>>, type) = 0
<1>1. {i \in DOMAIN <<>> : (<<>>)[i].type = type} = {}
  OBVIOUS
<1> QED BY <1>1, CountIs, FS_EmptySet

LEMMA CountIsNat ==
  ASSUME NEW S, NEW q \in Seq(S), NEW type
  PROVE  /\ R!Count(q, type) \in Nat
         /\ IsFiniteSet({i \in DOMAIN q : q[i].type = type})
<1>1. IsFiniteSet(1 .. Len(q))
  BY FS_Interval
<1>2. {i \in DOMAIN q : q[i].type = type} \subseteq 1 .. Len(q)
  OBVIOUS
<1>3. IsFiniteSet({i \in DOMAIN q : q[i].type = type})
  BY <1>1, <1>2, FS_Subset
<1> QED BY <1>3, CountIs, FS_CardinalityType

LEMMA CountAppend ==
  ASSUME NEW S, NEW q \in Seq(S), NEW m \in S, NEW type
  PROVE  R!Count(Append(q, m), type) = R!Count(q, type) + R!Flag(m.type = type)
<1> DEFINE A == {i \in DOMAIN q : q[i].type = type}
           B == {i \in DOMAIN Append(q, m) : Append(q, m)[i].type = type}
           n == Len(q) + 1
<1>1. /\ DOMAIN Append(q, m) = 1 .. n /\ DOMAIN q = 1 .. Len(q) /\ n \notin DOMAIN q
      /\ Append(q, m)[n] = m /\ \A i \in DOMAIN q : Append(q, m)[i] = q[i]
      /\ 1 .. n = (1 .. Len(q)) \cup {n}
  OBVIOUS
<1>2. IsFiniteSet(A) /\ Cardinality(A) \in Nat /\ n \notin A
  BY <1>1, CountIsNat, CountIs
<1>3. R!Count(q, type) = Cardinality(A) /\ R!Count(Append(q, m), type) = Cardinality(B)
  BY CountIs
<1>4. CASE m.type = type
  <2>1. B = A \cup {n}
    BY <1>1, <1>4
  <2>2. Cardinality(A \cup {n}) = Cardinality(A) + 1
    BY <1>2, FS_AddElement
  <2> HIDE DEF A, B
  <2> QED BY <1>3, <1>4, <2>1, <2>2 DEF R!Flag
<1>5. CASE m.type # type
  <2>1. B = A
    BY <1>1, <1>5
  <2> HIDE DEF A, B
  <2> QED BY <1>2, <1>3, <1>5, <2>1 DEF R!Flag
<1> QED BY <1>4, <1>5

LEMMA CountTail ==
  ASSUME NEW S, NEW q \in Seq(S), q # <<>>, NEW type
  PROVE  R!Count(q, type) = R!Count(Tail(q), type) + R!Flag(Head(q).type = type)
<1> DEFINE A == {i \in DOMAIN q : q[i].type = type}
           B == {i \in DOMAIN Tail(q) : Tail(q)[i].type = type}
           f == [i \in B |-> i + 1]
<1>1. /\ Len(q) \in Nat /\ Len(q) >= 1 /\ DOMAIN q = 1 .. Len(q) /\ Head(q) = q[1]
      /\ Tail(q) \in Seq(S) /\ DOMAIN Tail(q) = 1 .. (Len(q) - 1)
      /\ \A i \in 1 .. (Len(q) - 1) : Tail(q)[i] = q[i + 1]
  OBVIOUS
<1>2. IsFiniteSet(B) /\ IsFiniteSet(A) /\ Cardinality(B) \in Nat
  BY <1>1, CountIsNat, CountIs
<1>3. Cardinality(A \ {1}) = Cardinality(B)
  <2>1. \A i \in B : f[i] \in A \ {1}
    BY <1>1
  <2>2. ASSUME NEW k \in A \ {1} PROVE \E i \in B : f[i] = k
    <3>1. k - 1 \in B /\ f[k - 1] = k
      BY <1>1
    <3> QED BY <3>1
  <2>3. \A i, j \in B : f[i] = f[j] => i = j
    BY <1>1
  <2>4. f \in Bijection(B, A \ {1})
    BY <2>1, <2>2, <2>3, Fun_IsBij
  <2>5. ExistsBijection(B, A \ {1})
    BY <2>4 DEF ExistsBijection
  <2> QED BY <1>2, <2>5, FS_Bijection
<1>4. R!Count(q, type) = Cardinality(A) /\ R!Count(Tail(q), type) = Cardinality(B)
  BY CountIs
<1>5. CASE Head(q).type = type
  <2>1. 1 \in A
    BY <1>1, <1>5
  <2>2. Cardinality(A \ {1}) = Cardinality(A) - 1 /\ Cardinality(A) \in Nat
    BY <1>2, <2>1, FS_RemoveElement, FS_CardinalityType
  <2> HIDE DEF A, B
  <2> QED BY <1>2, <1>3, <1>4, <1>5, <2>2 DEF R!Flag
<1>6. CASE Head(q).type # type
  <2>1. A \ {1} = A
    BY <1>1, <1>6
  <2> HIDE DEF A, B
  <2>2. Cardinality(A) = Cardinality(B)
    BY <1>3, <2>1, Zenon
  <2> QED BY <1>2, <1>4, <1>6, <2>2 DEF R!Flag
<1> QED BY <1>5, <1>6

-----------------------------------------------------------------------------
(* What the messages on their way will make the page believe.              *)

Word(m) == m.type \in {"LockMouse_ACK", "MouseLockLost"}

LEMMA WillHoldEmpty ==
  ASSUME NEW b \in BOOLEAN
  PROVE  R!WillHold(<<>>, b) = b
<1>1. R!Words(<<>>) = {}
  BY DEF R!Words
<1> QED BY <1>1 DEF R!WillHold

LEMMA WillHoldAppend ==
  ASSUME NEW S, NEW q \in Seq(S), NEW m \in S, NEW b \in BOOLEAN
  PROVE  R!WillHold(Append(q, m), b) = IF Word(m) THEN m = R!Ack(TRUE) ELSE R!WillHold(q, b)
<1> DEFINE r == Append(q, m)
           n == Len(q) + 1
<1>1. /\ Len(q) \in Nat /\ DOMAIN r = 1 .. n /\ DOMAIN q = 1 .. Len(q)
      /\ r[n] = m /\ \A i \in DOMAIN q : r[i] = q[i]
  OBVIOUS
<1> HIDE DEF r
<1>2. CASE Word(m)
  <2>1. n \in R!Words(r) /\ \A j \in R!Words(r) : j <= n
    BY <1>1, <1>2 DEF R!Words, Word
  <2>2. ASSUME NEW i \in R!Words(r), \A j \in R!Words(r) : j <= i PROVE i = n
    BY <1>1, <2>1, <2>2 DEF R!Words
  <2>3. R!WillHold(r, b) = (m = R!Ack(TRUE))
    BY <1>1, <2>1, <2>2 DEF R!WillHold
  <2> QED BY <1>2, <2>3 DEF r
<1>3. CASE ~ Word(m)
  <2>1. R!Words(r) = R!Words(q) /\ \A i \in R!Words(q) : r[i] = q[i]
    BY <1>1, <1>3 DEF R!Words, Word
  <2>2. R!WillHold(r, b) = R!WillHold(q, b)
    BY <2>1 DEF R!WillHold
  <2> QED BY <1>3, <2>2 DEF r
<1> QED BY <1>2, <1>3

\* What the page believes when it has read the first message.
Believed(m, b) == IF m.type = "LockMouse_ACK" THEN m.granted
                  ELSE IF m.type = "MouseLockLost" THEN FALSE ELSE b

LEMMA WillHoldTail ==
  ASSUME NEW S, NEW q \in Seq(S), q # <<>>, NEW b \in BOOLEAN,
         Head(q).type = "LockMouse_ACK" =>
           \E granted \in BOOLEAN : Head(q) = R!Ack(granted)
  PROVE  R!WillHold(q, b) = R!WillHold(Tail(q), Believed(Head(q), b))
<1> DEFINE r == Tail(q)
           c == Believed(Head(q), b)
<1>1. /\ Len(q) \in Nat /\ Len(q) >= 1 /\ DOMAIN q = 1 .. Len(q) /\ Head(q) = q[1]
      /\ DOMAIN r = 1 .. (Len(q) - 1) /\ \A i \in 1 .. (Len(q) - 1) : r[i] = q[i + 1]
  OBVIOUS
<1> HIDE DEF r
<1>2. \A i \in R!Words(r) : i \in Nat /\ i >= 1 /\ i + 1 \in R!Words(q) /\ q[i + 1] = r[i]
  BY <1>1 DEF R!Words
<1>3. \A i \in R!Words(q) : i \in Nat /\ (i = 1 \/ (i > 1 /\ i - 1 \in R!Words(r) /\ r[i - 1] = q[i]))
  BY <1>1 DEF R!Words
<1>4. CASE R!Words(r) # {}
  <2>1. PICK k \in R!Words(r) : TRUE
    BY <1>4
  <2>2. R!Words(q) # {}
    BY <1>2, <2>1
  <2>3. ASSUME NEW i \in R!Words(q), q[i] = R!Ack(TRUE), \A j \in R!Words(q) : j <= i
        PROVE  R!WillHold(r, c)
    <3>1. k \in Nat /\ k >= 1 /\ k + 1 \in R!Words(q) /\ i \in Nat
      BY <1>2, <1>3, <2>1, <2>3
    <3>2. k + 1 <= i
      BY <2>3, <3>1
    <3>3. i # 1
      BY <3>1, <3>2
    <3>4. i - 1 \in R!Words(r) /\ r[i - 1] = q[i]
      BY <1>3, <2>3, <3>3
    <3>5. \A j \in R!Words(r) : j <= i - 1
      BY <1>2, <1>3, <2>3
    <3> QED BY <1>4, <2>3, <3>4, <3>5 DEF R!WillHold
  <2>4. ASSUME NEW i \in R!Words(r), r[i] = R!Ack(TRUE), \A j \in R!Words(r) : j <= i
        PROVE  R!WillHold(q, b)
    <3>1. i + 1 \in R!Words(q) /\ q[i + 1] = R!Ack(TRUE)
      BY <1>2, <2>4
    <3>2. \A j \in R!Words(q) : j <= i + 1
      BY <1>2, <1>3, <2>4
    <3> QED BY <2>2, <3>1, <3>2 DEF R!WillHold
  <2>5. R!WillHold(q, b) => R!WillHold(r, c)
    BY <2>2, <2>3 DEF R!WillHold
  <2>6. R!WillHold(r, c) => R!WillHold(q, b)
    BY <1>4, <2>4 DEF R!WillHold
  <2>7. R!WillHold(q, b) \in BOOLEAN /\ R!WillHold(r, c) \in BOOLEAN
    BY <1>4, <2>2 DEF R!WillHold
  <2> QED BY <2>5, <2>6, <2>7 DEF r
<1>5. CASE R!Words(r) = {}
  <2>1. \A i \in R!Words(q) : i = 1
    BY <1>3, <1>5
  <2>2. R!WillHold(r, c) = c
    BY <1>5 DEF R!WillHold
  <2>3. CASE Word(q[1])
    <3>1. 1 \in R!Words(q)
      BY <1>1, <2>3 DEF R!Words, Word
    <3>2. R!WillHold(q, b) = (q[1] = R!Ack(TRUE))
      <4>1. R!Words(q) = {1}
        BY <2>1, <3>1
      <4> QED BY <4>1, 1 <= 1 DEF R!WillHold
    <3>3. c = (q[1] = R!Ack(TRUE))
      <4>1. CASE q[1].type = "LockMouse_ACK"
        <5>1. PICK granted \in BOOLEAN : q[1] = R!Ack(granted)
          BY <1>1, <4>1
        <5>2. q[1].granted = granted /\ R!Ack(TRUE).granted = TRUE
          BY <5>1 DEF R!Ack
        <5>3. c = granted
          BY <1>1, <4>1, <5>2 DEF Believed
        <5>4. granted = TRUE => q[1] = R!Ack(TRUE)
          BY <5>1
        <5> QED BY <5>2, <5>3, <5>4
      <4>2. CASE q[1].type = "MouseLockLost"
        <5>1. R!Ack(TRUE).type = "LockMouse_ACK" /\ c = FALSE
          BY <1>1, <4>2 DEF Believed, R!Ack
        <5> QED BY <4>2, <5>1
      <4> QED BY <2>3, <4>1, <4>2 DEF Word
    <3> QED BY <2>2, <3>2, <3>3 DEF r
  <2>4. CASE ~ Word(q[1])
    <3>1. R!Words(q) = {}
      BY <1>1, <2>1, <2>4 DEF R!Words, Word
    <3>2. c = b
      BY <1>1, <2>4 DEF Word, Believed
    <3> QED BY <2>2, <3>1, <3>2 DEF R!WillHold, r
  <2> QED BY <2>3, <2>4
<1> QED BY <1>4, <1>5

-----------------------------------------------------------------------------
(* The inductive invariant.                                                *)

Ids    == 1 .. MaxSnapshots
Lock   == [pending : BOOLEAN, locked : BOOLEAN]
Wants  == [asking : BOOLEAN, locked : BOOLEAN, unlocking : BOOLEAN]
Load   == [commits : 0 .. MaxLoads, paints : 0 .. MaxLoads, timer : BOOLEAN,
           received : BOOLEAN, steady : BOOLEAN]
ToPage == [type : {"LockMouse_ACK"}, granted : BOOLEAN] \cup [type : {"MouseLockLost"}]
            \cup [type : {"ForceRedraw"}, id : Ids]
ToHost == [type : {"LockMouse", "UnlockMouse"}] \cup [type : {"SwapCompositorFrame"}, id : Ids]

RequestsTyped ==
  /\ alive \in BOOLEAN /\ viewed \in BOOLEAN
  /\ lock \in Lock /\ wants \in Wants
  /\ prompts \in Nat /\ asks \in 0 .. MaxAsks
  /\ to_renderer \in Seq(ToPage) /\ to_browser \in Seq(ToHost)
  /\ waiting \subseteq 1 .. snapshots /\ snapshots \in 0 .. MaxSnapshots
  /\ redraw \in 0 .. MaxSnapshots /\ frames \in Seq(Ids)
  /\ \A g \in grabs : g.id \in Ids /\ g.data = g.id
  /\ answers \in [Ids -> 0 .. MaxSnapshots]
  /\ load \in Load

\* A page p that asked has one answer under way: among n requests, with the host's lock l,
\* or among the messages q to it; and the lock is what those messages will tell it.
Agreed(p, n, l, q) ==
  /\ R!Flag(p.asking) = n + R!Flag(l.pending) + R!Count(q, "LockMouse_ACK")
  /\ l.locked = R!WillHold(q, p.locked)
  /\ ~ (l.pending /\ l.locked)

Questions(q) == R!Count(q, "LockMouse")

\* A renderer that is gone has no view, and nothing is under way to it or from it.
MouseKept ==
  /\ Agreed(wants, Questions(to_browser), lock, to_renderer)
  /\ lock.locked => viewed
  /\ prompts + Questions(to_browser) <= asks
  /\ ~ alive => ~ viewed /\ to_renderer = <<>> /\ to_browser = <<>> /\ ~ wants.asking

\* Ids that were not given out have no answer.
PicturesKept ==
  /\ R!SnapshotsAreFresh
  /\ \A i \in Ids : i > snapshots => answers[i] = 0

TimerKept == R!ContentIsTimed /\ (load.steady => R!Even(load))

RInv == RequestsTyped /\ MouseKept /\ PicturesKept /\ TimerKept
LEMMA BoundsAreNat == MaxAsks \in Nat /\ MaxSnapshots \in Nat /\ MaxLoads \in Nat
BY PageAssumption DEF PageAssumption, R!RequestsAssumption

-----------------------------------------------------------------------------
(* The mouse: what the host may say to the page.                           *)

LEMMA Sent ==
  ASSUME to_renderer \in Seq(ToPage)
  PROVE  /\ R!Send(<<>>) => to_renderer' = to_renderer
         /\ \A m \in ToPage :
              R!Send(<<m>>) => to_renderer' = IF alive THEN Append(to_renderer, m) ELSE to_renderer
<1>1. to_renderer \o <<>> = to_renderer
  OBVIOUS
<1>2. \A m \in ToPage : to_renderer \o <<m>> = Append(to_renderer, m)
  OBVIOUS
<1> QED BY <1>1, <1>2 DEF R!Send

LEMMA AppendType ==
  ASSUME NEW S, NEW q \in Seq(S), NEW m \in S
  PROVE  Append(q, m) \in Seq(S)
OBVIOUS

LEMMA MouseWords ==
  /\ \A granted \in BOOLEAN :
       /\ R!Ack(granted) \in ToPage /\ Word(R!Ack(granted))
       /\ R!Ack(granted).type = "LockMouse_ACK" /\ R!Ack(granted).granted = granted
       /\ (R!Ack(granted) = R!Ack(TRUE)) = granted
  /\ R!MouseLockLost \in ToPage /\ Word(R!MouseLockLost)
  /\ R!MouseLockLost.type = "MouseLockLost" /\ R!MouseLockLost # R!Ack(TRUE)
<1>1. ASSUME NEW granted \in BOOLEAN
      PROVE  /\ R!Ack(granted) \in ToPage /\ Word(R!Ack(granted))
             /\ R!Ack(granted).type = "LockMouse_ACK" /\ R!Ack(granted).granted = granted
  BY DEF R!Ack, ToPage, Word
<1>2. \A granted \in BOOLEAN : (R!Ack(granted) = R!Ack(TRUE)) = granted
  <2> TAKE granted \in BOOLEAN
  <2>1. R!Ack(granted).granted = granted /\ R!Ack(TRUE).granted = TRUE
    BY <1>1
  <2>2. CASE granted
    BY <2>2
  <2>3. CASE ~ granted
    BY <2>1, <2>3
  <2> QED BY <2>2, <2>3
<1>3. /\ R!MouseLockLost \in ToPage /\ Word(R!MouseLockLost)
      /\ R!MouseLockLost.type = "MouseLockLost"
  BY DEF R!MouseLockLost, ToPage, Word
<1>4. R!MouseLockLost # R!Ack(TRUE)
  BY <1>1, <1>3
<1> QED BY <1>1, <1>2, <1>3, <1>4

LEMMA AckAppended ==
  ASSUME NEW q \in Seq(ToPage), NEW b \in BOOLEAN, NEW able \in BOOLEAN
  PROVE  /\ R!Count(Append(q, R!Ack(able)), "LockMouse_ACK") = R!Count(q, "LockMouse_ACK") + 1
         /\ R!Count(q, "LockMouse_ACK") \in Nat
         /\ R!WillHold(Append(q, R!Ack(able)), b) = able
<1> DEFINE m == R!Ack(able)
<1>1. m \in ToPage /\ Word(m) /\ m.type = "LockMouse_ACK" /\ (m = R!Ack(TRUE)) = able
  BY MouseWords
<1> HIDE DEF m
<1>2. R!Count(Append(q, m), "LockMouse_ACK") = R!Count(q, "LockMouse_ACK") + 1
  <2>1. R!Count(Append(q, m), "LockMouse_ACK")
          = R!Count(q, "LockMouse_ACK") + R!Flag(m.type = "LockMouse_ACK")
    BY <1>1, CountAppend
  <2> QED BY <1>1, <2>1 DEF R!Flag
<1>3. R!WillHold(Append(q, m), b) = able
  <2>1. R!WillHold(Append(q, m), b) = IF Word(m) THEN m = R!Ack(TRUE) ELSE R!WillHold(q, b)
    BY <1>1, WillHoldAppend
  <2>2. R!WillHold(Append(q, m), b) = (m = R!Ack(TRUE))
    BY <1>1, <2>1, Zenon
  <2> QED BY <1>1, <2>2, Zenon
<1> QED BY <1>2, <1>3, CountIsNat DEF m

LEMMA AfterGrant ==
  ASSUME NEW p \in Wants, NEW n \in Nat, NEW l \in Lock, NEW q \in Seq(ToPage),
         Agreed(p, n, l, q), l.pending, NEW able \in BOOLEAN
  PROVE  Agreed(p, n, [pending |-> FALSE, locked |-> able], Append(q, R!Ack(able)))
<1>1. p.locked \in BOOLEAN
  BY DEF Wants
<1> QED BY <1>1, AckAppended DEF Agreed, R!Flag

LEMMA AfterLoss ==
  ASSUME NEW p \in Wants, NEW n \in Nat, NEW l \in Lock, NEW q \in Seq(ToPage),
         Agreed(p, n, l, q)
  PROVE  Agreed(p, n, [l EXCEPT !.locked = FALSE], Append(q, R!MouseLockLost))
<1> DEFINE m == R!MouseLockLost
<1>0. /\ m \in ToPage /\ Word(m) /\ m.type = "MouseLockLost" /\ m # R!Ack(TRUE)
      /\ p.locked \in BOOLEAN
  BY MouseWords DEF Wants
<1> HIDE DEF m
<1>1. R!Count(Append(q, m), "LockMouse_ACK") = R!Count(q, "LockMouse_ACK") + 0
  <2>1. R!Count(Append(q, m), "LockMouse_ACK")
          = R!Count(q, "LockMouse_ACK") + R!Flag(m.type = "LockMouse_ACK")
    BY <1>0, CountAppend
  <2> QED BY <1>0, <2>1 DEF R!Flag
<1>2. R!Count(q, "LockMouse_ACK") \in Nat
  BY CountIsNat
<1>3. R!WillHold(Append(q, m), p.locked) = FALSE
  <2>1. R!WillHold(Append(q, m), p.locked) = IF Word(m) THEN m = R!Ack(TRUE) ELSE R!WillHold(q, p.locked)
    BY <1>0, WillHoldAppend
  <2>2. R!WillHold(Append(q, m), p.locked) = (m = R!Ack(TRUE))
    BY <1>0, <2>1, Zenon
  <2> QED BY <1>0, <2>2, Zenon
<1>4. /\ [l EXCEPT !.locked = FALSE].pending = l.pending
      /\ [l EXCEPT !.locked = FALSE].locked = FALSE
  BY DEF Lock
<1> DEFINE k == [l EXCEPT !.locked = FALSE]
<1>5. k.pending = l.pending /\ k.locked = FALSE
  BY <1>4
<1> HIDE DEF k
<1>6. Agreed(p, n, k, Append(q, m))
  <2>1. R!Flag(k.pending) = R!Flag(l.pending) /\ R!Flag(l.pending) \in Nat
    BY <1>5 DEF R!Flag
  <2>2. R!Flag(p.asking) = n + R!Flag(k.pending) + R!Count(Append(q, m), "LockMouse_ACK")
    BY <1>1, <1>2, <2>1 DEF Agreed
  <2> QED BY <1>3, <1>5, <2>2 DEF Agreed
<1> QED BY <1>6 DEF m, k

(* Whatever the host rejects, the page is told of (                        *)
(* RejectMouseLockOrUnlockIfNecessary).                                    *)
LEMMA AfterRejection ==
  ASSUME NEW p \in Wants, NEW n \in Nat, NEW l \in Lock,
         to_renderer \in Seq(ToPage), alive \in BOOLEAN,
         Agreed(p, n, l, to_renderer),
         alive \/ ~ (l.pending \/ l.locked),
         R!Send(R!Rejection(l))
  PROVE  /\ Agreed(p, n, R!Rejected(l), to_renderer')
         /\ R!Rejected(l) \in Lock /\ ~ R!Rejected(l).locked /\ ~ R!Rejected(l).pending
         /\ to_renderer' \in Seq(ToPage)
         /\ ~ alive => to_renderer' = to_renderer
<1> DEFINE r == R!Rejected(l)
<1>1. r = [pending |-> FALSE, locked |-> FALSE] /\ r \in Lock
  <2>1. ~ (l.pending /\ l.locked)
    BY DEF Agreed
  <2>2. r = [[l EXCEPT !.pending = FALSE] EXCEPT !.locked = l.locked /\ l.pending]
    BY DEF R!Rejected, Lock
  <2>3. (l.locked /\ l.pending) = FALSE
    BY <2>1
  <2>4. r = [[l EXCEPT !.pending = FALSE] EXCEPT !.locked = FALSE]
    BY <2>2, <2>3
  <2> QED BY <2>4 DEF Lock
<1>0. r.pending = FALSE /\ r.locked = FALSE
  BY <1>1
<1> HIDE DEF r
<1>2. CASE l.pending
  <2>1. to_renderer' = Append(to_renderer, R!Ack(FALSE))
    BY <1>2, Sent, MouseWords DEF R!Rejection
  <2>2. to_renderer' \in Seq(ToPage)
    <3>1. R!Ack(FALSE) \in ToPage
      BY MouseWords
    <3> QED BY <2>1, <3>1, AppendType, Zenon
  <2>3. Agreed(p, n, [pending |-> FALSE, locked |-> FALSE], Append(to_renderer, R!Ack(FALSE)))
    BY <1>2, AfterGrant
  <2>4. Agreed(p, n, r, to_renderer')
    BY <1>1, <2>1, <2>3
  <2> QED BY <1>0, <1>1, <1>2, <2>2, <2>4 DEF r
<1>3. CASE ~ l.pending /\ l.locked
  <2>1. to_renderer' = Append(to_renderer, R!MouseLockLost)
    BY <1>3, Sent, MouseWords DEF R!Rejection
  <2>2. to_renderer' \in Seq(ToPage)
    BY <2>1, MouseWords
  <2>3. [l EXCEPT !.locked = FALSE] = r
    <3>1. l.pending = FALSE
      BY <1>3 DEF Lock
    <3> QED BY <1>1, <3>1 DEF Lock
  <2>4. Agreed(p, n, r, to_renderer')
    BY <2>1, <2>3, AfterLoss
  <2> QED BY <1>0, <1>1, <1>3, <2>2, <2>4 DEF r
<1>4. CASE ~ l.pending /\ ~ l.locked
  <2>1. to_renderer' = to_renderer
    BY <1>4, Sent DEF R!Rejection
  <2>2. r = l
    <3>1. l.pending = FALSE /\ l.locked = FALSE
      BY <1>4 DEF Lock
    <3> QED BY <1>1, <3>1 DEF Lock
  <2> QED BY <1>0, <1>1, <2>1, <2>2 DEF r
<1> QED BY <1>2, <1>3, <1>4 DEF Lock, r

(* The user's or the browser's answer to a request                         *)
(* (GotResponseToLockMouseRequest).                                        *)
LEMMA AfterResponse ==
  ASSUME NEW p \in Wants, NEW n \in Nat, NEW l \in Lock, NEW allowed \in BOOLEAN,
         to_renderer \in Seq(ToPage), alive \in BOOLEAN, viewed \in BOOLEAN,
         Agreed(p, n, l, to_renderer),
         alive \/ ~ (l.pending \/ l.locked),
         l.locked => viewed,
         R!GotResponseToLockMouseRequest(l, allowed)
  PROVE  /\ Agreed(p, n, lock', to_renderer')
         /\ lock' \in Lock /\ (lock'.locked => viewed)
         /\ to_renderer' \in Seq(ToPage)
         /\ ~ alive => to_renderer' = to_renderer
<1>1. CASE ~ allowed
  <2>1. lock' = R!Rejected(l) /\ R!Send(R!Rejection(l))
    BY <1>1 DEF R!GotResponseToLockMouseRequest
  <2> QED BY <2>1, AfterRejection
<1>2. CASE allowed /\ ~ l.pending
  <2>1. lock' = l /\ to_renderer' = to_renderer
    BY <1>2 DEF R!GotResponseToLockMouseRequest, R!Granted
  <2> QED BY <2>1
<1>3. CASE allowed /\ l.pending
  <2>1. PICK able \in BOOLEAN :
          /\ able => viewed
          /\ lock' = [pending |-> FALSE, locked |-> able] /\ R!Send(<<R!Ack(able)>>)
    BY <1>3 DEF R!GotResponseToLockMouseRequest, R!Granted
  <2>2. to_renderer' = Append(to_renderer, R!Ack(able))
    BY <1>3, <2>1, Sent, MouseWords
  <2>3. to_renderer' \in Seq(ToPage)
    <3>1. R!Ack(able) \in ToPage
      BY MouseWords
    <3> QED BY <2>2, <3>1, AppendType, Zenon
  <2>4. lock' \in Lock /\ lock'.locked = able
    BY <2>1 DEF Lock
  <2> QED BY <1>3, <2>1, <2>2, <2>3, <2>4, AfterGrant
<1> QED BY <1>1, <1>2, <1>3
-----------------------------------------------------------------------------
(* The mouse: the steps.                                                   *)

LEMMA InitMouse == PageAssumption /\ R!Init => MouseKept
<1> SUFFICES ASSUME PageAssumption, R!Init PROVE MouseKept
  OBVIOUS
<1>1. /\ to_renderer = <<>> /\ to_browser = <<>> /\ alive = TRUE /\ prompts = 0 /\ asks = 0
      /\ lock.pending = FALSE /\ lock.locked = FALSE
      /\ wants.asking = FALSE /\ wants.locked = FALSE
  BY DEF R!Init
<1>2. Questions(to_browser) = 0 /\ R!Count(to_renderer, "LockMouse_ACK") = 0
  BY <1>1, CountEmpty DEF Questions
<1>3. R!WillHold(to_renderer, wants.locked) = FALSE
  BY <1>1, WillHoldEmpty
<1>4. Agreed(wants, Questions(to_browser), lock, to_renderer)
  <2>1. R!Flag(wants.asking) = 0 /\ R!Flag(lock.pending) = 0
    BY <1>1 DEF R!Flag
  <2>2. R!Flag(wants.asking) = Questions(to_browser) + R!Flag(lock.pending)
                                 + R!Count(to_renderer, "LockMouse_ACK")
    BY <1>2, <2>1
  <2>3. lock.locked = R!WillHold(to_renderer, wants.locked)
    BY <1>1, <1>3
  <2>4. ~ (lock.pending /\ lock.locked)
    BY <1>1
  <2> QED BY <2>2, <2>3, <2>4 DEF Agreed
<1> QED BY <1>1, <1>2, <1>4 DEF MouseKept

MouseVars == <<alive, viewed, lock, wants, prompts, asks, to_renderer, to_browser>>

LEMMA MouseRests == MouseKept /\ UNCHANGED MouseVars => MouseKept'
BY DEF MouseVars, MouseKept, Questions

LEMMA MouseFrom ==
  ASSUME Agreed(wants', Questions(to_browser'), lock', to_renderer'),
         lock'.locked => viewed', prompts' + Questions(to_browser') <= asks', alive'
  PROVE  MouseKept'
BY DEF MouseKept

LEMMA QuestionsAreNat ==
  ASSUME RequestsTyped
  PROVE  Questions(to_browser) \in Nat /\ prompts \in Nat /\ asks \in Nat
<1>1. asks \in Nat /\ prompts \in Nat
  BY DEF RequestsTyped
<1>2. to_browser \in Seq(ToHost)
  BY DEF RequestsTyped
<1> QED BY <1>1, <1>2, CountIsNat DEF Questions

(* A page that is free to ask has no answer under way.                     *)
LEMMA LockMouseKeeps ==
  ASSUME RequestsTyped, MouseKept, R!LockMouse
  PROVE  MouseKept'
<1> DEFINE m == [type |-> "LockMouse"]
<1>1. /\ alive /\ asks' = asks + 1 /\ wants' = [wants EXCEPT !.asking = TRUE]
      /\ ~ wants.asking /\ to_browser' = Append(to_browser, m)
      /\ UNCHANGED <<alive, viewed, lock, prompts, to_renderer>>
  BY DEF R!LockMouse
<1>2. to_browser \in Seq(ToHost) /\ m \in ToHost /\ m.type = "LockMouse"
  BY DEF RequestsTyped, ToHost
<1>3. Questions(to_browser') = Questions(to_browser) + 1
  <2>1. R!Count(Append(to_browser, m), "LockMouse")
          = R!Count(to_browser, "LockMouse") + R!Flag(m.type = "LockMouse")
    BY <1>2, CountAppend
  <2> QED BY <1>1, <2>1 DEF Questions, R!Flag
<1>4. wants'.asking = TRUE /\ wants'.locked = wants.locked
  BY <1>1 DEF RequestsTyped, Wants
<1>5. R!Count(to_renderer, "LockMouse_ACK") \in Nat
  BY CountIsNat DEF RequestsTyped
<1>6. Agreed(wants', Questions(to_browser'), lock, to_renderer)
  BY <1>1, <1>3, <1>4, <1>5, QuestionsAreNat DEF MouseKept, Agreed, R!Flag
<1>7. prompts' + Questions(to_browser') <= asks'
  BY <1>1, <1>3, QuestionsAreNat DEF MouseKept
<1> QED BY <1>1, <1>6, <1>7 DEF MouseKept

LEMMA UnlockMouseKeeps ==
  ASSUME RequestsTyped, MouseKept, R!UnlockMouse
  PROVE  MouseKept'
<1> DEFINE m == [type |-> "UnlockMouse"]
<1>1. /\ alive /\ wants' = [wants EXCEPT !.unlocking = TRUE]
      /\ to_browser' = Append(to_browser, m)
      /\ UNCHANGED <<alive, viewed, lock, prompts, asks, to_renderer>>
  BY DEF R!UnlockMouse
<1>2. to_browser \in Seq(ToHost) /\ m \in ToHost /\ m.type # "LockMouse"
  BY DEF RequestsTyped, ToHost
<1>3. Questions(to_browser') = Questions(to_browser)
  <2>1. R!Count(Append(to_browser, m), "LockMouse")
          = R!Count(to_browser, "LockMouse") + R!Flag(m.type = "LockMouse")
    BY <1>2, CountAppend
  <2> QED BY <1>1, <1>2, <2>1, QuestionsAreNat DEF Questions, R!Flag
<1>4. wants'.asking = wants.asking /\ wants'.locked = wants.locked
  BY <1>1 DEF RequestsTyped, Wants
<1>5. Agreed(wants', Questions(to_browser'), lock, to_renderer)
  BY <1>3, <1>4 DEF MouseKept, Agreed
<1> QED BY <1>1, <1>3, <1>5 DEF MouseKept

(* The host of a renderer that is gone has no request and no lock.         *)
LEMMA GoneIsFree ==
  ASSUME RequestsTyped, MouseKept
  PROVE  alive \/ ~ (lock.pending \/ lock.locked)
<1> SUFFICES ASSUME ~ alive PROVE ~ lock.pending /\ ~ lock.locked
  OBVIOUS
<1>1. ~ viewed /\ to_renderer = <<>> /\ ~ wants.asking
  BY DEF MouseKept
<1>2. R!Count(to_renderer, "LockMouse_ACK") = 0
  BY <1>1, CountEmpty
<1> QED BY <1>1, <1>2, QuestionsAreNat DEF MouseKept, Agreed, R!Flag

LEMMA UserAnswersKeeps ==
  ASSUME RequestsTyped, MouseKept, R!UserAnswers
  PROVE  MouseKept' /\ lock' \in Lock /\ to_renderer' \in Seq(ToPage)
<1>1. PICK allowed \in BOOLEAN : R!GotResponseToLockMouseRequest(lock, allowed)
  BY DEF R!UserAnswers
<1>2. /\ prompts > 0 /\ prompts' = prompts - 1
      /\ UNCHANGED <<alive, viewed, wants, asks, to_browser>>
  BY DEF R!UserAnswers
<1>3. /\ Agreed(wants, Questions(to_browser), lock', to_renderer')
      /\ lock' \in Lock /\ (lock'.locked => viewed)
      /\ to_renderer' \in Seq(ToPage)
      /\ ~ alive => to_renderer' = to_renderer
  BY <1>1, AfterResponse, GoneIsFree, QuestionsAreNat DEF MouseKept, RequestsTyped
<1>4. Questions(to_browser') = Questions(to_browser)
  BY <1>2 DEF Questions
<1>5. prompts' + Questions(to_browser') <= asks'
  BY <1>2, <1>4, QuestionsAreNat DEF MouseKept
<1> QED BY <1>2, <1>3, <1>4, <1>5 DEF MouseKept

LEMMA LostMouseLockKeeps ==
  ASSUME RequestsTyped, MouseKept, R!LostMouseLock
  PROVE  MouseKept' /\ lock' \in Lock /\ to_renderer' \in Seq(ToPage)
<1>1. /\ lock.locked /\ lock' = [lock EXCEPT !.locked = FALSE]
      /\ R!Send(<<R!MouseLockLost>>)
      /\ UNCHANGED <<alive, viewed, wants, prompts, asks, to_browser>>
  BY DEF R!LostMouseLock
<1>2. /\ to_renderer \in Seq(ToPage) /\ lock \in Lock /\ wants \in Wants
      /\ R!MouseLockLost \in ToPage
  BY MouseWords DEF RequestsTyped
<1>3. alive /\ to_renderer' = Append(to_renderer, R!MouseLockLost)
  BY <1>1, <1>2, GoneIsFree, Sent
<1>4. Agreed(wants, Questions(to_browser), lock', to_renderer')
  BY <1>1, <1>2, <1>3, AfterLoss, QuestionsAreNat DEF MouseKept
<1>5. lock' \in Lock /\ lock'.locked = FALSE
  BY <1>1, <1>2 DEF Lock
<1>6. to_renderer' \in Seq(ToPage)
  BY <1>2, <1>3, AppendType, Zenon
<1>7. Questions(to_browser') = Questions(to_browser)
  BY <1>1 DEF Questions
<1> QED BY <1>1, <1>3, <1>4, <1>5, <1>6, <1>7 DEF MouseKept

(* The next message from the page.                                         *)
LEMMA OnHostMessageKeeps ==
  ASSUME RequestsTyped, MouseKept, R!OnHostMessage
  PROVE  MouseKept' /\ lock' \in Lock /\ to_renderer' \in Seq(ToPage) /\ prompts' \in Nat
<1> DEFINE m == Head(to_browser)
<1>1. /\ to_browser # <<>> /\ to_browser' = Tail(to_browser)
      /\ UNCHANGED <<alive, viewed, wants, asks>>
      /\ \/ m.type = "LockMouse" /\ R!OnLockMouse
         \/ /\ m.type = "UnlockMouse" /\ lock' = R!Rejected(lock)
            /\ R!Send(R!Rejection(lock)) /\ prompts' = prompts
         \/ m.type = "SwapCompositorFrame" /\ UNCHANGED <<lock, prompts, to_renderer>>
  BY DEF R!OnHostMessage
<1>2. /\ to_renderer \in Seq(ToPage) /\ lock \in Lock /\ wants \in Wants
      /\ to_browser \in Seq(ToHost) /\ alive \in BOOLEAN /\ viewed \in BOOLEAN
  BY DEF RequestsTyped
<1>3. alive
  BY <1>1 DEF MouseKept
<1>4. Questions(to_browser) = Questions(to_browser') + R!Flag(m.type = "LockMouse") /\ Questions(to_browser') \in Nat
  <2>1. Tail(to_browser) \in Seq(ToHost)
    BY <1>1, <1>2
  <2> QED BY <1>1, <1>2, <2>1, CountTail, CountIsNat DEF Questions
<1> HIDE DEF m
<1>0. /\ Questions(to_browser) \in Nat /\ prompts \in Nat /\ asks \in Nat /\ prompts + Questions(to_browser) <= asks
      /\ Agreed(wants, Questions(to_browser), lock, to_renderer) /\ (lock.locked => viewed)
  BY QuestionsAreNat DEF MouseKept
<1>5. CASE m.type = "LockMouse" /\ R!OnLockMouse
  <2>1. Questions(to_browser) = Questions(to_browser') + 1
    BY <1>4, <1>5 DEF R!Flag
  <2>2. wants.asking /\ ~ lock.pending /\ R!Count(to_renderer, "LockMouse_ACK") = 0
    <3>1. R!Count(to_renderer, "LockMouse_ACK") \in Nat
      BY <1>2, CountIsNat
    <3> QED BY <1>2, <1>4, <2>1, <3>1 DEF MouseKept, Agreed, R!Flag, Wants, Lock
  <2>3. CASE lock.locked
    <3>1. R!Send(<<R!Ack(lock.locked)>>) /\ lock' = lock /\ prompts' = prompts
      BY <1>5, <2>3 DEF R!OnLockMouse
    <3>2. R!Ack(lock.locked) = R!Ack(TRUE) /\ R!Ack(TRUE) \in ToPage
      BY <1>2, <2>3, MouseWords DEF Lock
    <3>3. to_renderer' = Append(to_renderer, R!Ack(TRUE))
      BY <1>2, <1>3, <3>1, <3>2, Sent
    <3>4. to_renderer' \in Seq(ToPage)
      BY <1>2, <3>2, <3>3, AppendType, Zenon
    <3>5. /\ R!WillHold(to_renderer', wants.locked) = TRUE
          /\ R!Count(to_renderer', "LockMouse_ACK") = R!Count(to_renderer, "LockMouse_ACK") + 1
      <4>1. wants.locked \in BOOLEAN
        BY <1>2 DEF Wants
      <4> QED BY <1>2, <3>3, <4>1, AckAppended
    <3>7. Agreed(wants, Questions(to_browser'), lock', to_renderer')
      <4>1. lock.locked = TRUE
        BY <1>2, <2>3 DEF Lock
      <4>2. R!Flag(wants.asking) = 1 /\ R!Flag(lock.pending) = 0
        BY <2>2 DEF R!Flag
      <4>3. Questions(to_browser') = 0
        <5>1. R!Flag(wants.asking) = Questions(to_browser) + R!Flag(lock.pending)
                                       + R!Count(to_renderer, "LockMouse_ACK")
          BY <1>0 DEF Agreed
        <5>2. Questions(to_browser) = 1
          <6>1. R!Count(to_renderer, "LockMouse_ACK") = 0 /\ Questions(to_browser) \in Nat
            BY <1>0, <2>2
          <6> QED BY <4>2, <5>1, <6>1
        <5> QED BY <1>4, <2>1, <5>2
      <4>4. R!Flag(wants.asking) = Questions(to_browser') + R!Flag(lock'.pending)
                                     + R!Count(to_renderer', "LockMouse_ACK")
        <5>1. R!Count(to_renderer', "LockMouse_ACK") = 1
          BY <2>2, <3>5
        <5>2. R!Flag(lock'.pending) = 0
          BY <3>1, <4>2
        <5> QED BY <4>2, <4>3, <5>1, <5>2
      <4>5. lock'.locked = R!WillHold(to_renderer', wants.locked)
        BY <3>1, <3>5, <4>1
      <4>6. ~ (lock'.pending /\ lock'.locked)
        BY <2>2, <3>1
      <4> QED BY <4>4, <4>5, <4>6 DEF Agreed
    <3>8. prompts' + Questions(to_browser') <= asks' /\ prompts' \in Nat
      <4>1. prompts' = prompts
        BY <3>1
      <4>2. asks' = asks
        BY <1>1
      <4>3. Questions(to_browser') \in Nat
        BY <1>4
      <4>4. Questions(to_browser) \in Nat /\ prompts \in Nat /\ asks \in Nat /\ prompts + Questions(to_browser) <= asks
        BY <1>0
      <4> QED BY <2>1, <4>1, <4>2, <4>3, <4>4
    <3>9. MouseKept'
      <4>1. alive' /\ (lock'.locked => viewed') /\ wants' = wants
        BY <1>0, <1>1, <1>3, <3>1
      <4> QED BY <3>7, <3>8, <4>1, MouseFrom
    <3> QED BY <1>2, <3>1, <3>4, <3>8, <3>9
  <2>4. CASE ~ lock.locked
    <3> DEFINE l == [lock EXCEPT !.pending = TRUE]
    <3>1. l \in Lock /\ l.pending = TRUE /\ l.locked = FALSE
      BY <1>2, <2>4 DEF Lock
    <3>2. \/ lock' = l /\ prompts' = prompts + 1 /\ to_renderer' = to_renderer
          \/ /\ \E allowed \in BOOLEAN : R!GotResponseToLockMouseRequest(l, allowed)
             /\ prompts' = prompts
      BY <1>5, <2>2, <2>4 DEF R!OnLockMouse
    <3> HIDE DEF l
    <3>3. Agreed(wants, Questions(to_browser'), l, to_renderer)
      <4>1. lock.locked = FALSE /\ lock.pending = FALSE
        BY <1>2, <2>2, <2>4 DEF Lock
      <4>2. R!Flag(wants.asking) = 1 /\ R!Flag(lock.pending) = 0 /\ R!Flag(l.pending) = 1
        BY <2>2, <3>1 DEF R!Flag
      <4>3. Questions(to_browser') = 0
        <5>1. R!Flag(wants.asking) = Questions(to_browser) + R!Flag(lock.pending)
                                       + R!Count(to_renderer, "LockMouse_ACK")
          BY <1>0 DEF Agreed
        <5>2. Questions(to_browser) = 1
          <6>1. R!Count(to_renderer, "LockMouse_ACK") = 0 /\ Questions(to_browser) \in Nat
            BY <1>0, <2>2
          <6> QED BY <4>2, <5>1, <6>1
        <5> QED BY <1>4, <2>1, <5>2
      <4>4. R!Flag(wants.asking) = Questions(to_browser') + R!Flag(l.pending)
                                     + R!Count(to_renderer, "LockMouse_ACK")
        <5>1. R!Count(to_renderer, "LockMouse_ACK") = 0
          BY <2>2
        <5> QED BY <4>2, <4>3, <5>1
      <4>5. l.locked = R!WillHold(to_renderer, wants.locked)
        BY <1>0, <3>1, <4>1 DEF Agreed
      <4>6. ~ (l.pending /\ l.locked)
        BY <3>1
      <4> QED BY <4>4, <4>5, <4>6 DEF Agreed
    <3>4. CASE lock' = l /\ prompts' = prompts + 1 /\ to_renderer' = to_renderer
      <4>1. alive' /\ wants' = wants /\ (lock'.locked => viewed')
        BY <1>1, <1>3, <3>1, <3>4
      <4>2. prompts' + Questions(to_browser') <= asks' /\ prompts' \in Nat
        BY <1>0, <1>1, <1>4, <2>1, <3>4
      <4>3. Agreed(wants', Questions(to_browser'), lock', to_renderer')
        BY <3>3, <3>4, <4>1
      <4> QED BY <1>2, <3>1, <3>4, <4>1, <4>2, <4>3, MouseFrom
    <3>5. CASE /\ \E allowed \in BOOLEAN : R!GotResponseToLockMouseRequest(l, allowed)
               /\ prompts' = prompts
      <4>1. PICK allowed \in BOOLEAN : R!GotResponseToLockMouseRequest(l, allowed)
        BY <3>5
      <4>2. /\ Agreed(wants, Questions(to_browser'), lock', to_renderer')
            /\ lock' \in Lock /\ (lock'.locked => viewed)
            /\ to_renderer' \in Seq(ToPage)
        BY <1>2, <1>3, <1>4, <3>1, <3>3, <4>1, AfterResponse
      <4>3. alive' /\ wants' = wants /\ (lock'.locked => viewed')
        BY <1>1, <1>3, <4>2
      <4>4. prompts' + Questions(to_browser') <= asks' /\ prompts' \in Nat
        BY <1>0, <1>1, <1>4, <2>1, <3>5
      <4> QED BY <4>2, <4>3, <4>4, MouseFrom
    <3> QED BY <3>2, <3>4, <3>5
  <2> QED BY <2>3, <2>4
<1>6. CASE m.type # "LockMouse"
  <2>1. Questions(to_browser') = Questions(to_browser)
    <3>1. R!Flag(m.type = "LockMouse") = 0
      BY <1>6 DEF R!Flag
    <3> QED BY <1>4, <3>1
  <2>2. CASE /\ m.type = "UnlockMouse" /\ lock' = R!Rejected(lock)
             /\ R!Send(R!Rejection(lock)) /\ prompts' = prompts
    <3>1. /\ Agreed(wants, Questions(to_browser), lock', to_renderer')
          /\ lock' \in Lock /\ ~ lock'.locked /\ to_renderer' \in Seq(ToPage)
      BY <1>2, <1>3, <2>2, AfterRejection, QuestionsAreNat DEF MouseKept
    <3> QED BY <1>1, <1>3, <2>1, <2>2, <3>1, QuestionsAreNat DEF MouseKept
  <2>3. CASE UNCHANGED <<lock, prompts, to_renderer>>
    BY <1>1, <1>2, <1>3, <2>1, <2>3, QuestionsAreNat DEF MouseKept
  <2> QED BY <1>1, <1>6, <2>2, <2>3
<1> QED BY <1>5, <1>1, <1>6
(* The page reads the next word of its host.                               *)
LEMMA OnRendererMessageKeeps ==
  ASSUME RequestsTyped, MouseKept, R!OnRendererMessage
  PROVE  MouseKept' /\ wants' \in Wants /\ redraw' \in 0 .. MaxSnapshots
<1> DEFINE m == Head(to_renderer)
<1>1. /\ alive /\ to_renderer # <<>> /\ to_renderer' = Tail(to_renderer)
      /\ UNCHANGED <<alive, viewed, lock, prompts, asks, to_browser>>
      /\ \/ /\ m.type = "LockMouse_ACK"
            /\ wants' = [asking |-> FALSE, locked |-> m.granted,
                         unlocking |-> wants.unlocking /\ m.granted]
            /\ redraw' = redraw
         \/ /\ m.type = "MouseLockLost"
            /\ wants' = [wants EXCEPT !.locked = FALSE, !.unlocking = FALSE]
            /\ redraw' = redraw
         \/ m.type = "ForceRedraw" /\ redraw' = m.id /\ wants' = wants
  BY DEF R!OnRendererMessage
<1>2. /\ to_renderer \in Seq(ToPage) /\ lock \in Lock /\ wants \in Wants
      /\ redraw \in 0 .. MaxSnapshots
  BY DEF RequestsTyped
<1>3. m \in ToPage
  BY <1>1, <1>2
<1>4. R!Count(to_renderer, "LockMouse_ACK")
        = R!Count(to_renderer', "LockMouse_ACK") + R!Flag(m.type = "LockMouse_ACK")
  BY <1>1, <1>2, CountTail
<1>5. to_renderer' \in Seq(ToPage) /\ R!Count(to_renderer', "LockMouse_ACK") \in Nat
  <2>1. to_renderer' \in Seq(ToPage)
    BY <1>1, <1>2
  <2> QED BY <2>1, CountIsNat
<1>6. m.type = "LockMouse_ACK" => \E granted \in BOOLEAN : m = R!Ack(granted)
  BY <1>3 DEF ToPage, R!Ack
<1>7. R!WillHold(to_renderer, wants.locked)
        = R!WillHold(to_renderer', Believed(m, wants.locked))
  BY <1>1, <1>2, <1>6, WillHoldTail DEF Wants
<1>8. /\ R!Flag(wants.asking) = Questions(to_browser) + R!Flag(lock.pending)
                                  + R!Count(to_renderer, "LockMouse_ACK")
      /\ lock.locked = R!WillHold(to_renderer, wants.locked)
      /\ ~ (lock.pending /\ lock.locked)
      /\ Questions(to_browser) \in Nat
  BY QuestionsAreNat DEF MouseKept, Agreed
<1> HIDE DEF m
<1>9. CASE m.type = "LockMouse_ACK"
  <2>1. PICK granted \in BOOLEAN : m = R!Ack(granted)
    BY <1>6, <1>9
  <2>2. m.granted = granted
    BY <2>1 DEF R!Ack
  <2>3. /\ wants' = [asking |-> FALSE, locked |-> granted,
                     unlocking |-> wants.unlocking /\ granted]
        /\ redraw' = redraw
    BY <1>1, <1>9, <2>2
  <2>4. wants' \in Wants /\ wants'.asking = FALSE /\ wants'.locked = granted
    BY <1>2, <2>3 DEF Wants
  <2>5. Believed(m, wants.locked) = granted
    BY <1>9, <2>2 DEF Believed
  <2>6. R!Flag(m.type = "LockMouse_ACK") = 1 /\ R!Flag(wants'.asking) = 0
        /\ R!Flag(wants.asking) \in {0, 1} /\ R!Flag(lock.pending) \in {0, 1}
    BY <1>9, <2>4 DEF R!Flag
  <2>7. R!Flag(wants'.asking) = Questions(to_browser) + R!Flag(lock.pending)
                                  + R!Count(to_renderer', "LockMouse_ACK")
    BY <1>4, <1>5, <1>8, <2>6
  <2>8. lock.locked = R!WillHold(to_renderer', wants'.locked)
    BY <1>7, <1>8, <2>4, <2>5
  <2>9. Agreed(wants', Questions(to_browser'), lock', to_renderer')
    BY <1>1, <1>8, <2>7, <2>8 DEF Agreed
  <2> QED BY <1>1, <1>2, <2>3, <2>4, <2>9 DEF MouseKept
<1>10. CASE m.type = "MouseLockLost"
  <2>1. wants' = [wants EXCEPT !.locked = FALSE, !.unlocking = FALSE] /\ redraw' = redraw
    BY <1>1, <1>10
  <2>2. wants' \in Wants /\ wants'.asking = wants.asking /\ wants'.locked = FALSE
    BY <1>2, <2>1 DEF Wants
  <2>3. Believed(m, wants.locked) = FALSE
    BY <1>10 DEF Believed
  <2>4. R!Flag(m.type = "LockMouse_ACK") = 0
    BY <1>10 DEF R!Flag
  <2>5. R!Flag(wants'.asking) = R!Flag(wants.asking)
    BY <2>2
  <2>6. R!Count(to_renderer, "LockMouse_ACK") = R!Count(to_renderer', "LockMouse_ACK")
    BY <1>4, <1>5, <2>4
  <2>7. lock.locked = R!WillHold(to_renderer', wants'.locked)
    BY <1>7, <1>8, <2>2, <2>3
  <2>8. Agreed(wants', Questions(to_browser'), lock', to_renderer')
    <3>1. R!Flag(wants'.asking) = Questions(to_browser) + R!Flag(lock.pending)
                                    + R!Count(to_renderer', "LockMouse_ACK")
      BY <1>8, <2>5, <2>6
    <3> QED BY <1>1, <1>8, <2>7, <3>1 DEF Agreed
  <2> QED BY <1>1, <1>2, <2>1, <2>2, <2>8 DEF MouseKept
<1>11. CASE m.type = "ForceRedraw"
  <2>1. redraw' = m.id /\ wants' = wants
    BY <1>1, <1>11
  <2>2. m.id \in Ids
    BY <1>3, <1>11 DEF ToPage
  <2>3. Believed(m, wants.locked) = wants.locked
    BY <1>11 DEF Believed
  <2>4. R!Flag(m.type = "LockMouse_ACK") = 0
    BY <1>11 DEF R!Flag
  <2>6. R!Count(to_renderer, "LockMouse_ACK") = R!Count(to_renderer', "LockMouse_ACK")
    BY <1>4, <1>5, <2>4
  <2>7. lock.locked = R!WillHold(to_renderer', wants.locked)
    BY <1>7, <1>8, <2>3
  <2>8. Agreed(wants, Questions(to_browser'), lock', to_renderer')
    <3>1. R!Flag(wants.asking) = Questions(to_browser) + R!Flag(lock.pending)
                                   + R!Count(to_renderer', "LockMouse_ACK")
      BY <1>8, <2>6
    <3> QED BY <1>1, <1>8, <2>7, <3>1 DEF Agreed
  <2>9. redraw' \in 0 .. MaxSnapshots
    BY <2>1, <2>2 DEF Ids
  <2> QED BY <1>1, <1>2, <2>1, <2>8, <2>9 DEF MouseKept
<1> QED BY <1>1, <1>9, <1>10, <1>11

LEMMA ViewDestroyedKeeps ==
  ASSUME RequestsTyped, MouseKept, R!ViewDestroyed
  PROVE  MouseKept' /\ lock' \in Lock /\ to_renderer' \in Seq(ToPage)
<1>1. /\ viewed /\ viewed' = FALSE /\ lock' = R!Rejected(lock) /\ R!Send(R!Rejection(lock))
      /\ UNCHANGED <<alive, wants, prompts, asks, to_browser>>
  BY DEF R!ViewDestroyed
<1>2. alive
  BY <1>1 DEF MouseKept
<1>3. /\ Agreed(wants, Questions(to_browser), lock', to_renderer')
      /\ lock' \in Lock /\ ~ lock'.locked /\ to_renderer' \in Seq(ToPage)
  BY <1>1, <1>2, AfterRejection, QuestionsAreNat DEF MouseKept, RequestsTyped
<1>4. prompts' + Questions(to_browser') <= asks'
  BY <1>1 DEF MouseKept
<1> QED BY <1>1, <1>2, <1>3, <1>4 DEF MouseKept

(* A crash clears both ways, the page and the lock at once.                *)
LEMMA RendererExitedKeeps ==
  ASSUME RequestsTyped, MouseKept, R!RendererExited
  PROVE  MouseKept' /\ lock' \in Lock /\ wants' \in Wants
<1>1. /\ alive' = FALSE /\ viewed' = FALSE /\ lock' = R!Rejected(lock)
      /\ to_renderer' = <<>> /\ to_browser' = <<>>
      /\ wants' = [asking |-> FALSE, locked |-> FALSE, unlocking |-> FALSE]
      /\ UNCHANGED <<prompts, asks>>
  BY DEF R!RendererExited
<1>2. lock' \in Lock /\ lock'.pending = FALSE /\ lock'.locked = FALSE
  <2>1. ~ (lock.pending /\ lock.locked) /\ lock \in Lock
    BY DEF MouseKept, Agreed, RequestsTyped
  <2>2. lock' = [[lock EXCEPT !.pending = FALSE] EXCEPT !.locked = lock.locked /\ lock.pending]
    BY <1>1, <2>1 DEF R!Rejected, Lock
  <2>3. (lock.locked /\ lock.pending) = FALSE
    BY <2>1
  <2>4. lock' = [[lock EXCEPT !.pending = FALSE] EXCEPT !.locked = FALSE]
    BY <2>2, <2>3
  <2> QED BY <2>1, <2>4 DEF Lock
<1>3. Questions(to_browser') = 0 /\ R!Count(to_renderer', "LockMouse_ACK") = 0
  BY <1>1, CountEmpty DEF Questions
<1>4. wants' \in Wants /\ wants'.asking = FALSE /\ wants'.locked = FALSE
  BY <1>1 DEF Wants
<1>5. R!WillHold(to_renderer', wants'.locked) = FALSE
  BY <1>1, <1>4, WillHoldEmpty
<1>6. Agreed(wants', Questions(to_browser'), lock', to_renderer')
  <2>1. R!Flag(wants'.asking) = 0 /\ R!Flag(lock'.pending) = 0
    BY <1>2, <1>4 DEF R!Flag
  <2>2. R!Flag(wants'.asking) = Questions(to_browser') + R!Flag(lock'.pending)
                                  + R!Count(to_renderer', "LockMouse_ACK")
    BY <1>3, <2>1
  <2> QED BY <1>2, <1>5, <2>2 DEF Agreed
<1>7. prompts' + Questions(to_browser') <= asks'
  BY <1>1, <1>3, QuestionsAreNat DEF MouseKept
<1> QED BY <1>1, <1>2, <1>4, <1>6, <1>7 DEF MouseKept

LEMMA SetViewKeeps ==
  ASSUME MouseKept, R!SetView
  PROVE  MouseKept'
<1>1. alive' = TRUE /\ viewed' = TRUE
      /\ UNCHANGED <<lock, wants, prompts, asks, to_renderer, to_browser>>
  BY DEF R!SetView, R!lockVars
<1> QED BY <1>1 DEF MouseKept

(* Messages that are about something else.                                 *)
LEMMA GetSnapshotKeepsMouse ==
  ASSUME RequestsTyped, MouseKept, R!GetSnapshotFromBrowser
  PROVE  MouseKept' /\ to_renderer' \in Seq(ToPage)
<1> DEFINE m == [type |-> "ForceRedraw", id |-> snapshots + 1]
<1>1. /\ R!Send(<<m>>) /\ snapshots < MaxSnapshots
      /\ UNCHANGED <<alive, viewed, lock, wants, prompts, asks, to_browser>>
  BY DEF R!GetSnapshotFromBrowser, R!lockVars
<1>2. /\ to_renderer \in Seq(ToPage) /\ wants \in Wants
      /\ m \in ToPage /\ ~ Word(m) /\ m.type # "LockMouse_ACK"
  <2>1. snapshots + 1 \in Ids
    BY <1>1, BoundsAreNat DEF RequestsTyped, Ids
  <2>2. m \in ToPage /\ ~ Word(m) /\ m.type # "LockMouse_ACK"
    BY <2>1 DEF ToPage, Word
  <2> QED BY <2>2 DEF RequestsTyped
<1> HIDE DEF m
<1>3. to_renderer' = IF alive THEN Append(to_renderer, m) ELSE to_renderer
  BY <1>1, <1>2, Sent
<1>4. CASE ~ alive
  BY <1>1, <1>2, <1>3, <1>4, MouseRests DEF MouseVars
<1>5. CASE alive
  <2>1. to_renderer' = Append(to_renderer, m)
    BY <1>3, <1>5
  <2>2. R!Count(to_renderer', "LockMouse_ACK") = R!Count(to_renderer, "LockMouse_ACK")
    <3>1. R!Count(Append(to_renderer, m), "LockMouse_ACK")
            = R!Count(to_renderer, "LockMouse_ACK") + R!Flag(m.type = "LockMouse_ACK")
      BY <1>2, CountAppend
    <3>2. R!Count(to_renderer, "LockMouse_ACK") \in Nat
      BY <1>2, CountIsNat
    <3>3. R!Flag(m.type = "LockMouse_ACK") = 0
      BY <1>2 DEF R!Flag
    <3> QED BY <2>1, <3>1, <3>2, <3>3
  <2>3. R!WillHold(to_renderer', wants.locked) = R!WillHold(to_renderer, wants.locked)
    BY <1>2, <2>1, WillHoldAppend DEF Wants
  <2>4. to_renderer' \in Seq(ToPage)
    BY <1>2, <2>1, AppendType
  <2>5. Agreed(wants', Questions(to_browser'), lock', to_renderer')
    BY <1>1, <2>2, <2>3 DEF MouseKept, Agreed
  <2> QED BY <1>1, <1>5, <2>4, <2>5 DEF MouseKept
<1> QED BY <1>4, <1>5 DEF RequestsTyped

LEMMA SwapKeepsMouse ==
  ASSUME RequestsTyped, MouseKept, R!SwapCompositorFrame
  PROVE  MouseKept' /\ to_browser' \in Seq(ToHost)
<1> DEFINE m == [type |-> "SwapCompositorFrame", id |-> redraw]
<1>1. /\ alive /\ redraw # 0 /\ to_browser' = Append(to_browser, m)
      /\ UNCHANGED <<alive, viewed, lock, wants, prompts, asks, to_renderer>>
  BY DEF R!SwapCompositorFrame, R!lockVars
<1>2. to_browser \in Seq(ToHost) /\ m \in ToHost /\ m.type # "LockMouse"
  BY <1>1 DEF RequestsTyped, ToHost, Ids
<1> HIDE DEF m
<1>3. Questions(to_browser') = Questions(to_browser)
  <2>1. R!Count(Append(to_browser, m), "LockMouse")
          = R!Count(to_browser, "LockMouse") + R!Flag(m.type = "LockMouse")
    BY <1>2, CountAppend
  <2>2. R!Flag(m.type = "LockMouse") = 0
    BY <1>2 DEF R!Flag
  <2>3. R!Count(to_browser, "LockMouse") \in Nat
    BY <1>2, CountIsNat
  <2> QED BY <1>1, <2>1, <2>2, <2>3 DEF Questions
<1>4. to_browser' \in Seq(ToHost)
  BY <1>1, <1>2, AppendType
<1> QED BY <1>1, <1>3, <1>4 DEF MouseKept
-----------------------------------------------------------------------------
(* The pictures and the timer.                                             *)

PictureVars == <<waiting, snapshots, answers>>

LEMMA PicturesRest == PicturesKept /\ UNCHANGED PictureVars => PicturesKept'
BY DEF PictureVars, PicturesKept, R!SnapshotsAreFresh

LEMMA GetSnapshotKeeps ==
  ASSUME RequestsTyped, PicturesKept, R!GetSnapshotFromBrowser
  PROVE  PicturesKept' /\ waiting' \subseteq 1 .. snapshots' /\ snapshots' \in 0 .. MaxSnapshots
<1>1. /\ snapshots < MaxSnapshots /\ snapshots' = snapshots + 1
      /\ waiting' = waiting \cup {snapshots + 1} /\ answers' = answers
  BY DEF R!GetSnapshotFromBrowser
<1>2. snapshots \in Nat /\ waiting \subseteq 1 .. snapshots
  BY DEF RequestsTyped
<1>3. \A i \in 1 .. snapshots' : i = snapshots' \/ i \in 1 .. snapshots
  BY <1>1, <1>2
<1>4. R!SnapshotsAreFresh'
  BY <1>1, <1>2, <1>3, BoundsAreNat DEF PicturesKept, R!SnapshotsAreFresh, Ids
<1>5. \A i \in Ids : i > snapshots' => answers'[i] = 0
  BY <1>1, <1>2 DEF PicturesKept, Ids
<1> QED BY <1>1, <1>2, <1>3, <1>4, <1>5, BoundsAreNat DEF PicturesKept

(* A picture answers what was asked before it, and nothing twice.          *)
LEMMA AfterPicture ==
  ASSUME RequestsTyped, PicturesKept, NEW k \in Ids, R!OnSnapshotDataReceived(k, k),
         snapshots' = snapshots
  PROVE  /\ PicturesKept' /\ waiting' \subseteq 1 .. snapshots'
         /\ answers' \in [Ids -> 0 .. MaxSnapshots]
<1>2. /\ snapshots \in Nat /\ waiting \subseteq 1 .. snapshots /\ waiting \subseteq Ids
      /\ answers \in [Ids -> 0 .. MaxSnapshots] /\ k \in Nat /\ k >= 1 /\ k <= MaxSnapshots
  BY BoundsAreNat DEF RequestsTyped, Ids
<1>1. /\ waiting' = {i \in waiting : i > k}
      /\ answers' = [i \in Ids |-> IF i \in waiting /\ i <= k THEN k ELSE answers[i]]
  <2>1. waiting' = waiting \ {i \in waiting : i <= k}
    BY DEF R!OnSnapshotDataReceived, R!Answered
  <2>2. answers' = [i \in DOMAIN answers |->
                      IF i \in {j \in waiting : j <= k} THEN k ELSE answers[i]]
    BY DEF R!OnSnapshotDataReceived, R!Answered
  <2>3. \A i \in waiting : i \in Int
    BY <1>2
  <2>7. \A i \in waiting : (i > k) = ~ (i <= k)
    BY <1>2, <2>3
  <2>4. waiting' = {i \in waiting : i > k}
    BY <2>1, <2>7
  <2>5. DOMAIN answers = Ids
    BY <1>2
  <2>6. answers' = [i \in Ids |-> IF i \in waiting /\ i <= k THEN k ELSE answers[i]]
    BY <2>2, <2>5, Zenon
  <2> QED BY <2>4, <2>6
<1>3. R!SnapshotsAreFresh'
  BY <1>1, <1>2, BoundsAreNat DEF PicturesKept, R!SnapshotsAreFresh, Ids
<1>4. \A i \in Ids : i > snapshots' => answers'[i] = 0
  BY <1>1, <1>2, BoundsAreNat DEF PicturesKept, Ids
<1>5. answers' \in [Ids -> 0 .. MaxSnapshots]
  BY <1>1, <1>2, BoundsAreNat DEF Ids
<1> QED BY <1>1, <1>2, <1>3, <1>4, <1>5 DEF PicturesKept

LEMMA FrameDrawnKeeps ==
  ASSUME RequestsTyped, PicturesKept, R!CompositorFrameDrawn
  PROVE  /\ PicturesKept' /\ waiting' \subseteq 1 .. snapshots'
         /\ answers' \in [Ids -> 0 .. MaxSnapshots] /\ frames' \in Seq(Ids)
         /\ \A g \in grabs' : g.id \in Ids /\ g.data = g.id
<1> DEFINE k == Head(frames)
<1>1. /\ frames # <<>> /\ frames' = Tail(frames) /\ snapshots' = snapshots
      /\ \/ R!OnSnapshotDataReceived(k, k) /\ grabs' = grabs
         \/ /\ grabs' = grabs \cup {[id |-> k, data |-> k]}
            /\ UNCHANGED <<waiting, answers>>
  BY DEF R!CompositorFrameDrawn
<1>2. frames \in Seq(Ids) /\ \A g \in grabs : g.id \in Ids /\ g.data = g.id
  BY DEF RequestsTyped
<1>3. k \in Ids /\ frames' \in Seq(Ids)
  BY <1>1, <1>2
<1> HIDE DEF k
<1>4. CASE R!OnSnapshotDataReceived(k, k) /\ grabs' = grabs
  BY <1>1, <1>2, <1>3, <1>4, AfterPicture
<1>5. CASE /\ grabs' = grabs \cup {[id |-> k, data |-> k]}
           /\ UNCHANGED <<waiting, answers>>
  <2>1. \A g \in grabs' : g.id \in Ids /\ g.data = g.id
    BY <1>2, <1>3, <1>5
  <2>2. PicturesKept'
    BY <1>1, <1>5, PicturesRest DEF PictureVars
  <2>3. waiting' \subseteq 1 .. snapshots' /\ answers' \in [Ids -> 0 .. MaxSnapshots]
    BY <1>1, <1>5 DEF RequestsTyped
  <2> QED BY <1>3, <2>1, <2>2, <2>3
<1> QED BY <1>1, <1>4, <1>5

LEMMA PictureCameKeeps ==
  ASSUME RequestsTyped, PicturesKept, R!OnSnapshotDataReceivedAsync
  PROVE  /\ PicturesKept' /\ waiting' \subseteq 1 .. snapshots'
         /\ answers' \in [Ids -> 0 .. MaxSnapshots]
         /\ \A g \in grabs' : g.id \in Ids /\ g.data = g.id
<1>1. PICK g \in grabs : grabs' = grabs \ {g} /\ R!OnSnapshotDataReceived(g.id, g.data)
  BY DEF R!OnSnapshotDataReceivedAsync
<1>2. snapshots' = snapshots
  BY DEF R!OnSnapshotDataReceivedAsync
<1>3. g.id \in Ids /\ g.data = g.id
  BY DEF RequestsTyped
<1>4. R!OnSnapshotDataReceived(g.id, g.id)
  BY <1>1, <1>3
<1>5. \A h \in grabs' : h.id \in Ids /\ h.data = h.id
  BY <1>1 DEF RequestsTyped
<1> QED BY <1>2, <1>3, <1>4, <1>5, AfterPicture

\* A page that was committed is waited for, one that painted is remembered.
LEMMA Turns ==
  ASSUME NEW c \in Nat, NEW p \in Nat
  PROVE  /\ c + 1 - p \in -1 .. 1 /\ c - p \in -1 .. 1 => ~ (p > c + 1)
         /\ c - (p + 1) \in -1 .. 1 /\ c - p \in -1 .. 1 => ~ (c > p + 1)
         /\ (c > p \/ ~ (p > c)) <=> (c + 1 > p)
         /\ (p > c \/ ~ (c > p)) <=> (p + 1 > c)
OBVIOUS

LEMMA TimerRests == TimerKept /\ UNCHANGED load => TimerKept'
BY DEF TimerKept, R!ContentIsTimed

(* A commit, a first paint and the timer, in any order.                    *)
LEMMA TimerSteps ==
  ASSUME RequestsTyped, TimerKept,
         \/ R!StartNewContentRenderingTimeout \/ R!OnFirstPaintAfterLoad
         \/ R!ClearDisplayedGraphics \/ R!RendererExited
  PROVE  TimerKept' /\ load' \in Load
<1>1. /\ load.commits \in 0 .. MaxLoads /\ load.paints \in 0 .. MaxLoads
      /\ load.timer \in BOOLEAN /\ load.received \in BOOLEAN /\ load.steady \in BOOLEAN
      /\ load \in Load
  BY DEF RequestsTyped, Load
<1>2. /\ ~ (load.timer /\ load.received)
      /\ load.steady => /\ load.timer = (load.commits > load.paints)
                        /\ load.received = (load.paints > load.commits)
                        /\ load.commits - load.paints \in -1 .. 1
  BY DEF TimerKept, R!ContentIsTimed, R!Even
<1> DEFINE c == load.commits
           p == load.paints
<1>3. CASE R!StartNewContentRenderingTimeout
  <2> DEFINE t == load.timer \/ ~ load.received
             l == [load EXCEPT !.commits = c + 1, !.received = FALSE, !.timer = t]
             e == l.steady /\ R!Even(l)
  <2>1. c < MaxLoads /\ load' = [l EXCEPT !.steady = e]
    <3>1. c < MaxLoads
      BY <1>3 DEF R!StartNewContentRenderingTimeout
    <3>2. load' = [[load EXCEPT !.commits = load.commits + 1, !.received = FALSE,
                                !.timer = load.timer \/ ~ load.received]
                     EXCEPT !.steady = l.steady /\ R!Even(l)]
      BY <1>1, <1>3 DEF R!StartNewContentRenderingTimeout, Load
    <3> QED BY <3>1, <3>2
  <2>10. t \in BOOLEAN
    OBVIOUS
  <2> HIDE DEF t
  <2>2. /\ l \in Load /\ l.commits = c + 1 /\ l.paints = p /\ l.steady = load.steady
        /\ l.received = FALSE /\ l.timer = t
    <3>1. c + 1 \in 0 .. MaxLoads /\ load \in Load
      BY <1>1, <2>1, BoundsAreNat
    <3>2. l \in Load
      BY <2>10, <3>1 DEF Load
    <3> QED BY <3>1, <3>2 DEF Load
  <2>11. e = (load.steady /\ c + 1 - p \in -1 .. 1)
    <3>1. R!Even(l) = (c + 1 - p \in -1 .. 1)
      <4>1. l.commits - l.paints = c + 1 - p
        BY <1>1, <2>2
      <4> QED BY <4>1 DEF R!Even
    <3> QED BY <2>2, <3>1, Zenon
  <2> HIDE DEF l
  <2>12. e \in BOOLEAN
    OBVIOUS
  <2> HIDE DEF e
  <2>3. /\ load' \in Load /\ load'.commits = c + 1 /\ load'.paints = p
        /\ load'.received = FALSE /\ load'.timer = t /\ load'.steady = e
    BY <2>1, <2>2, <2>12 DEF Load
  <2>4. SUFFICES ASSUME load'.steady
                 PROVE  /\ load'.timer = (c + 1 > p) /\ load'.received = (p > c + 1)
                        /\ R!Even(load')
    BY <2>3 DEF TimerKept, R!ContentIsTimed
  <2>5. load.steady /\ c + 1 - p \in -1 .. 1
    BY <2>3, <2>4, <2>11
  <2>6. /\ c \in Nat /\ p \in Nat /\ load.timer = (c > p) /\ load.received = (p > c)
        /\ c - p \in -1 .. 1
    BY <1>1, <1>2, <2>5
  <2>7. R!Even(load')
    <3>1. load'.commits - load'.paints = c + 1 - p
      BY <1>1, <2>3
    <3> QED BY <2>5, <3>1 DEF R!Even
  <2>8. ~ (p > c + 1)
    BY <2>5, <2>6, Turns
  <2>9. t <=> c + 1 > p
    <3>1. t <=> c > p \/ ~ (p > c)
      BY <2>6 DEF t
    <3> QED BY <2>6, <3>1, Turns
  <2>13. load'.timer = (c + 1 > p)
    <3>1. load'.timer \in BOOLEAN /\ load'.timer = t
      BY <2>3, <2>10
    <3> QED BY <2>9, <3>1
  <2>14. load'.received = (p > c + 1)
    <3>1. load'.received = FALSE
      BY <2>3
    <3>2. (p > c + 1) = FALSE
      BY <2>8
    <3> QED BY <3>1, <3>2, Zenon
  <2> QED BY <2>7, <2>13, <2>14
<1>4. CASE R!OnFirstPaintAfterLoad
  <2> DEFINE r == load.received \/ ~ load.timer
             l == [[load EXCEPT !.timer = FALSE, !.received = r] EXCEPT !.paints = p + 1]
             e == l.steady /\ R!Even(l)
  <2>1. p < MaxLoads /\ load' = [l EXCEPT !.steady = e]
    <3>1. p < MaxLoads
      BY <1>4 DEF R!OnFirstPaintAfterLoad
    <3>2. R!Paint(load) = [load EXCEPT !.timer = FALSE, !.received = r]
      BY <1>1 DEF R!Paint, Load
    <3>3. R!Paint(load).paints = p
      BY <1>1, <3>2 DEF Load
    <3>4. load' = [[R!Paint(load) EXCEPT !.paints = R!Paint(load).paints + 1]
                     EXCEPT !.steady = l.steady /\ R!Even(l)]
      <4>1. [R!Paint(load) EXCEPT !.paints = R!Paint(load).paints + 1] = l
        BY <3>2, <3>3
      <4> QED BY <1>4, <3>3, <4>1 DEF R!OnFirstPaintAfterLoad
    <3> QED BY <3>1, <3>2, <3>3, <3>4
  <2>10. r \in BOOLEAN
    OBVIOUS
  <2> HIDE DEF r
  <2>2. /\ l \in Load /\ l.commits = c /\ l.paints = p + 1 /\ l.steady = load.steady
        /\ l.timer = FALSE /\ l.received = r
    <3>1. p + 1 \in 0 .. MaxLoads /\ load \in Load
      BY <1>1, <2>1, BoundsAreNat
    <3>2. l \in Load
      BY <2>10, <3>1 DEF Load
    <3> QED BY <3>1, <3>2 DEF Load
  <2>11. e = (load.steady /\ c - (p + 1) \in -1 .. 1)
    <3>1. R!Even(l) = (c - (p + 1) \in -1 .. 1)
      BY <2>2 DEF R!Even
    <3> QED BY <2>2, <3>1, Zenon
  <2> HIDE DEF l
  <2>12. e \in BOOLEAN
    OBVIOUS
  <2> HIDE DEF e
  <2>3. /\ load' \in Load /\ load'.commits = c /\ load'.paints = p + 1
        /\ load'.timer = FALSE /\ load'.received = r /\ load'.steady = e
    BY <2>1, <2>2, <2>12 DEF Load
  <2>4. SUFFICES ASSUME load'.steady
                 PROVE  /\ load'.timer = (c > p + 1) /\ load'.received = (p + 1 > c)
                        /\ R!Even(load')
    BY <2>3 DEF TimerKept, R!ContentIsTimed
  <2>5. load.steady /\ c - (p + 1) \in -1 .. 1
    BY <2>3, <2>4, <2>11
  <2>6. /\ c \in Nat /\ p \in Nat /\ load.timer = (c > p) /\ load.received = (p > c)
        /\ c - p \in -1 .. 1
    BY <1>1, <1>2, <2>5
  <2>7. R!Even(load')
    <3>1. load'.commits - load'.paints = c - (p + 1)
      BY <2>3
    <3> QED BY <2>5, <3>1 DEF R!Even
  <2>8. ~ (c > p + 1)
    BY <2>5, <2>6, Turns
  <2>9. r <=> p + 1 > c
    <3>1. r <=> p > c \/ ~ (c > p)
      BY <2>6 DEF r
    <3> QED BY <2>6, <3>1, Turns
  <2>13. load'.received = (p + 1 > c)
    <3>1. load'.received \in BOOLEAN /\ load'.received = r
      BY <2>3, <2>10
    <3> QED BY <2>9, <3>1
  <2>14. load'.timer = (c > p + 1)
    <3>1. load'.timer = FALSE
      BY <2>3
    <3>2. (c > p + 1) = FALSE
      BY <2>8
    <3> QED BY <3>1, <3>2, Zenon
  <2> QED BY <2>7, <2>13, <2>14
<1>5. CASE R!ClearDisplayedGraphics
  <2>1. load' = [load EXCEPT !.timer = FALSE, !.steady = FALSE]
    BY <1>5 DEF R!ClearDisplayedGraphics
  <2>2. load' \in Load /\ load'.timer = FALSE /\ load'.steady = FALSE
    BY <1>1, <2>1 DEF Load
  <2> QED BY <2>2 DEF TimerKept, R!ContentIsTimed
<1>6. CASE R!RendererExited
  <2>1. load' = [load EXCEPT !.steady = FALSE]
    BY <1>6 DEF R!RendererExited
  <2>2. /\ load' \in Load /\ load'.timer = load.timer /\ load'.received = load.received
        /\ load'.steady = FALSE
    BY <1>1, <2>1 DEF Load
  <2> QED BY <1>2, <2>2 DEF TimerKept, R!ContentIsTimed
<1> QED BY <1>3, <1>4, <1>5, <1>6
-----------------------------------------------------------------------------
(* Every step keeps the invariant.                                         *)

LEMMA InitRequests == R!Init => RInv
<1> SUFFICES ASSUME R!Init PROVE RInv
  OBVIOUS
<1>1. MouseKept
  BY InitMouse, PageAssumption
<1>2. /\ alive = TRUE /\ viewed = TRUE /\ lock = [pending |-> FALSE, locked |-> FALSE]
      /\ wants = [asking |-> FALSE, locked |-> FALSE, unlocking |-> FALSE]
      /\ prompts = 0 /\ asks = 0 /\ to_renderer = <<>> /\ to_browser = <<>>
      /\ waiting = {} /\ snapshots = 0 /\ redraw = 0 /\ frames = <<>> /\ grabs = {}
      /\ answers = [i \in Ids |-> 0]
      /\ load = [commits |-> 0, paints |-> 0, timer |-> FALSE, received |-> FALSE,
                 steady |-> TRUE]
  BY DEF R!Init, Ids
<1>3. lock \in Lock /\ wants \in Wants
  BY <1>2 DEF Lock, Wants
<1>4. load \in Load
  BY <1>2, BoundsAreNat DEF Load
<1>5. answers \in [Ids -> 0 .. MaxSnapshots]
  BY <1>2, BoundsAreNat
<1>6. RequestsTyped
  <2>1. waiting \subseteq 1 .. snapshots /\ snapshots \in 0 .. MaxSnapshots
        /\ redraw \in 0 .. MaxSnapshots /\ asks \in 0 .. MaxAsks
    BY <1>2, BoundsAreNat
  <2>2. /\ to_renderer \in Seq(ToPage) /\ to_browser \in Seq(ToHost) /\ frames \in Seq(Ids)
        /\ \A g \in grabs : g.id \in Ids /\ g.data = g.id
        /\ alive \in BOOLEAN /\ viewed \in BOOLEAN /\ prompts \in Nat
    BY <1>2
  <2> QED BY <1>3, <1>4, <1>5, <2>1, <2>2 DEF RequestsTyped
<1>7. PicturesKept
  BY <1>2 DEF PicturesKept, R!SnapshotsAreFresh, Ids
<1>8. TimerKept
  <2>1. /\ load.commits = 0 /\ load.paints = 0 /\ load.timer = FALSE /\ load.received = FALSE
    BY <1>2
  <2>2. load.commits - load.paints = 0 /\ ~ (load.commits > load.paints)
        /\ ~ (load.paints > load.commits)
    BY <2>1
  <2>3. /\ load.timer = (load.commits > load.paints)
        /\ load.received = (load.paints > load.commits)
    <3>1. (load.commits > load.paints) = FALSE /\ (load.paints > load.commits) = FALSE
      BY <2>2
    <3> QED BY <2>1, <3>1
  <2> QED BY <2>1, <2>2, <2>3 DEF TimerKept, R!ContentIsTimed, R!Even
<1> QED BY <1>1, <1>6, <1>7, <1>8 DEF RInv

LEMMA NextRequests == RInv /\ R!Next => RInv'
<1> SUFFICES ASSUME RequestsTyped, MouseKept, PicturesKept, TimerKept, R!Next PROVE RInv'
  BY DEF RInv
<1> USE DEF RInv, PictureVars
<1>1. CASE R!LockMouse
  <2>1. MouseKept'
    BY <1>1, LockMouseKeeps
  <2>2. /\ asks' = asks + 1 /\ asks < MaxAsks /\ wants' = [wants EXCEPT !.asking = TRUE]
        /\ to_browser' = Append(to_browser, [type |-> "LockMouse"])
        /\ UNCHANGED <<alive, viewed, lock, prompts, to_renderer, waiting, snapshots, redraw,
                       frames, grabs, answers, load>>
    BY <1>1 DEF R!LockMouse, R!snapshotVars
  <2>3. asks' \in 0 .. MaxAsks
    BY <2>2, BoundsAreNat DEF RequestsTyped
  <2>4. wants' \in Wants
    BY <2>2 DEF RequestsTyped, Wants
  <2>5. to_browser' \in Seq(ToHost)
    <3>1. [type |-> "LockMouse"] \in ToHost
      BY DEF ToHost
    <3> QED BY <2>2, <3>1, AppendType DEF RequestsTyped
  <2>6. RequestsTyped'
    BY <2>2, <2>3, <2>4, <2>5 DEF RequestsTyped
  <2> QED BY <2>1, <2>2, <2>6, PicturesRest, TimerRests
<1>2. CASE R!UnlockMouse
  <2>1. MouseKept'
    BY <1>2, UnlockMouseKeeps
  <2>2. /\ wants' = [wants EXCEPT !.unlocking = TRUE]
        /\ to_browser' = Append(to_browser, [type |-> "UnlockMouse"])
        /\ UNCHANGED <<alive, viewed, lock, prompts, asks, to_renderer, waiting, snapshots,
                       redraw, frames, grabs, answers, load>>
    BY <1>2 DEF R!UnlockMouse, R!snapshotVars
  <2>3. wants' \in Wants
    BY <2>2 DEF RequestsTyped, Wants
  <2>4. to_browser' \in Seq(ToHost)
    <3>1. [type |-> "UnlockMouse"] \in ToHost
      BY DEF ToHost
    <3> QED BY <2>2, <3>1, AppendType DEF RequestsTyped
  <2>5. RequestsTyped'
    BY <2>2, <2>3, <2>4 DEF RequestsTyped
  <2> QED BY <2>1, <2>2, <2>5, PicturesRest, TimerRests
<1>3. CASE R!UserAnswers
  <2>1. MouseKept' /\ lock' \in Lock /\ to_renderer' \in Seq(ToPage)
    BY <1>3, UserAnswersKeeps
  <2>2. /\ prompts > 0 /\ prompts' = prompts - 1
        /\ UNCHANGED <<alive, viewed, wants, asks, to_browser, waiting, snapshots, redraw,
                       frames, grabs, answers, load>>
    BY <1>3 DEF R!UserAnswers, R!snapshotVars
  <2>3. RequestsTyped'
    BY <2>1, <2>2 DEF RequestsTyped
  <2> QED BY <2>1, <2>2, <2>3, PicturesRest, TimerRests
<1>4. CASE R!LostMouseLock
  <2>1. MouseKept' /\ lock' \in Lock /\ to_renderer' \in Seq(ToPage)
    BY <1>4, LostMouseLockKeeps
  <2>2. UNCHANGED <<alive, viewed, wants, prompts, asks, to_browser, waiting, snapshots, redraw,
                    frames, grabs, answers, load>>
    BY <1>4 DEF R!LostMouseLock, R!snapshotVars
  <2>3. RequestsTyped'
    BY <2>1, <2>2 DEF RequestsTyped
  <2> QED BY <2>1, <2>2, <2>3, PicturesRest, TimerRests
<1>5. CASE R!GetSnapshotFromBrowser
  <2>1. MouseKept' /\ to_renderer' \in Seq(ToPage)
    BY <1>5, GetSnapshotKeepsMouse
  <2>2. PicturesKept' /\ waiting' \subseteq 1 .. snapshots' /\ snapshots' \in 0 .. MaxSnapshots
    BY <1>5, GetSnapshotKeeps
  <2>3. UNCHANGED <<alive, viewed, lock, wants, prompts, asks, to_browser, redraw, frames, grabs,
                    answers, load>>
    BY <1>5 DEF R!GetSnapshotFromBrowser, R!lockVars
  <2>4. RequestsTyped'
    BY <2>1, <2>2, <2>3 DEF RequestsTyped
  <2> QED BY <2>1, <2>2, <2>3, <2>4, TimerRests
<1>6. CASE R!SwapCompositorFrame
  <2>1. MouseKept' /\ to_browser' \in Seq(ToHost)
    BY <1>6, SwapKeepsMouse
  <2>2. /\ redraw' = 0
        /\ UNCHANGED <<alive, viewed, lock, wants, prompts, asks, to_renderer, waiting,
                       snapshots, frames, grabs, answers, load>>
    BY <1>6 DEF R!SwapCompositorFrame, R!lockVars
  <2>3. redraw' \in 0 .. MaxSnapshots
    BY <2>2, BoundsAreNat
  <2>4. RequestsTyped'
    BY <2>1, <2>2, <2>3 DEF RequestsTyped
  <2> QED BY <2>1, <2>2, <2>4, PicturesRest, TimerRests
<1>7. CASE R!CompositorFrameDrawn
  <2>1. /\ PicturesKept' /\ waiting' \subseteq 1 .. snapshots'
        /\ answers' \in [Ids -> 0 .. MaxSnapshots] /\ frames' \in Seq(Ids)
        /\ \A g \in grabs' : g.id \in Ids /\ g.data = g.id
    BY <1>7, FrameDrawnKeeps
  <2>2. UNCHANGED <<alive, viewed, lock, wants, prompts, asks, to_renderer, to_browser,
                    snapshots, redraw, load>>
    BY <1>7 DEF R!CompositorFrameDrawn, R!lockVars
  <2>3. RequestsTyped'
    BY <2>1, <2>2 DEF RequestsTyped
  <2>4. MouseKept'
    BY <2>2, MouseRests DEF MouseVars
  <2> QED BY <2>1, <2>2, <2>3, <2>4, TimerRests
<1>8. CASE R!OnSnapshotDataReceivedAsync
  <2>1. /\ PicturesKept' /\ waiting' \subseteq 1 .. snapshots'
        /\ answers' \in [Ids -> 0 .. MaxSnapshots]
        /\ \A g \in grabs' : g.id \in Ids /\ g.data = g.id
    BY <1>8, PictureCameKeeps
  <2>2. UNCHANGED <<alive, viewed, lock, wants, prompts, asks, to_renderer, to_browser,
                    snapshots, redraw, frames, load>>
    BY <1>8 DEF R!OnSnapshotDataReceivedAsync, R!lockVars
  <2>3. RequestsTyped'
    BY <2>1, <2>2 DEF RequestsTyped
  <2>4. MouseKept'
    BY <2>2, MouseRests DEF MouseVars
  <2> QED BY <2>1, <2>2, <2>3, <2>4, TimerRests
<1>9. CASE \/ R!StartNewContentRenderingTimeout \/ R!OnFirstPaintAfterLoad
           \/ R!ClearDisplayedGraphics
  <2>1. TimerKept' /\ load' \in Load
    BY <1>9, TimerSteps
  <2>2. UNCHANGED <<alive, viewed, lock, wants, prompts, asks, to_renderer, to_browser, waiting,
                    snapshots, redraw, frames, grabs, answers>>
    BY <1>9 DEF R!StartNewContentRenderingTimeout, R!OnFirstPaintAfterLoad,
                R!ClearDisplayedGraphics, R!lockVars, R!snapshotVars
  <2>3. RequestsTyped'
    BY <2>1, <2>2 DEF RequestsTyped
  <2>4. MouseKept'
    BY <2>2, MouseRests DEF MouseVars
  <2> QED BY <2>1, <2>2, <2>3, <2>4, PicturesRest
<1>10. CASE R!OnHostMessage
  <2>1. MouseKept' /\ lock' \in Lock /\ to_renderer' \in Seq(ToPage) /\ prompts' \in Nat
    BY <1>10, OnHostMessageKeeps
  <2>2. /\ to_browser # <<>> /\ to_browser' = Tail(to_browser)
        /\ UNCHANGED <<alive, viewed, wants, asks, waiting, snapshots, redraw, grabs, answers,
                       load>>
        /\ \/ frames' = frames
           \/ /\ Head(to_browser).type = "SwapCompositorFrame"
              /\ R!OnSwapCompositorFrame(Head(to_browser).id)
    BY <1>10 DEF R!OnHostMessage
  <2>3. to_browser' \in Seq(ToHost) /\ Head(to_browser) \in ToHost
    BY <2>2 DEF RequestsTyped
  <2>4. frames' \in Seq(Ids)
    <3>1. frames \in Seq(Ids)
      BY DEF RequestsTyped
    <3>2. CASE /\ Head(to_browser).type = "SwapCompositorFrame"
               /\ R!OnSwapCompositorFrame(Head(to_browser).id)
      <4>1. Head(to_browser).id \in Ids
        BY <2>3, <3>2 DEF ToHost
      <4>2. frames' = Append(frames, Head(to_browser).id) \/ frames' = frames
        BY <3>2 DEF R!OnSwapCompositorFrame
      <4> QED BY <3>1, <4>1, <4>2, AppendType
    <3> QED BY <2>2, <3>1, <3>2
  <2>5. RequestsTyped'
    BY <2>1, <2>2, <2>3, <2>4 DEF RequestsTyped
  <2> QED BY <2>1, <2>2, <2>5, PicturesRest, TimerRests
<1>11. CASE R!OnRendererMessage
  <2>1. MouseKept' /\ wants' \in Wants /\ redraw' \in 0 .. MaxSnapshots
    BY <1>11, OnRendererMessageKeeps
  <2>2. /\ to_renderer # <<>> /\ to_renderer' = Tail(to_renderer)
        /\ UNCHANGED <<alive, viewed, lock, prompts, asks, to_browser, waiting, snapshots,
                       frames, grabs, answers, load>>
    BY <1>11 DEF R!OnRendererMessage
  <2>3. to_renderer' \in Seq(ToPage)
    BY <2>2 DEF RequestsTyped
  <2>4. RequestsTyped'
    BY <2>1, <2>2, <2>3 DEF RequestsTyped
  <2> QED BY <2>1, <2>2, <2>4, PicturesRest, TimerRests
<1>12. CASE R!ViewDestroyed
  <2>1. MouseKept' /\ lock' \in Lock /\ to_renderer' \in Seq(ToPage)
    BY <1>12, ViewDestroyedKeeps
  <2>2. /\ viewed' = FALSE
        /\ UNCHANGED <<alive, wants, prompts, asks, to_browser, waiting, snapshots, redraw,
                       frames, grabs, answers, load>>
    BY <1>12 DEF R!ViewDestroyed, R!snapshotVars
  <2>3. RequestsTyped'
    BY <2>1, <2>2 DEF RequestsTyped
  <2> QED BY <2>1, <2>2, <2>3, PicturesRest, TimerRests
<1>13. CASE R!RendererExited
  <2>1. MouseKept' /\ lock' \in Lock /\ wants' \in Wants
    BY <1>13, RendererExitedKeeps
  <2>2. TimerKept' /\ load' \in Load
    BY <1>13, TimerSteps
  <2>3. /\ alive' = FALSE /\ viewed' = FALSE /\ to_renderer' = <<>> /\ to_browser' = <<>>
        /\ redraw' = 0
        /\ UNCHANGED <<prompts, asks, waiting, snapshots, frames, grabs, answers>>
    BY <1>13 DEF R!RendererExited
  <2>4. to_renderer' \in Seq(ToPage) /\ to_browser' \in Seq(ToHost)
        /\ redraw' \in 0 .. MaxSnapshots
    BY <2>3, BoundsAreNat
  <2>5. RequestsTyped'
    BY <2>1, <2>2, <2>3, <2>4 DEF RequestsTyped
  <2> QED BY <2>1, <2>2, <2>3, <2>5, PicturesRest
<1>14. CASE R!SetView
  <2>1. MouseKept'
    BY <1>14, SetViewKeeps
  <2>2. /\ alive' = TRUE /\ viewed' = TRUE
        /\ UNCHANGED <<lock, wants, prompts, asks, to_renderer, to_browser, waiting, snapshots,
                       redraw, frames, grabs, answers, load>>
    BY <1>14 DEF R!SetView, R!lockVars, R!snapshotVars
  <2>3. RequestsTyped'
    BY <2>2 DEF RequestsTyped
  <2> QED BY <2>1, <2>2, <2>3, PicturesRest, TimerRests
<1> QED BY <1>1, <1>2, <1>3, <1>4, <1>5, <1>6, <1>7, <1>8, <1>9, <1>10, <1>11, <1>12, <1>13,
           <1>14 DEF R!Next

LEMMA RestRequests == RInv /\ UNCHANGED requestVars => RInv'
<1> SUFFICES ASSUME RInv, UNCHANGED requestVars PROVE RInv'
  OBVIOUS
<1>1. UNCHANGED <<alive, viewed, lock, wants, prompts, asks, to_renderer, to_browser, waiting,
                  snapshots, redraw, frames, grabs, answers, load>>
  BY DEF requestVars
<1>2. RequestsTyped'
  BY <1>1 DEF RInv, RequestsTyped
<1>3. MouseKept'
  BY <1>1, MouseRests DEF RInv, MouseVars
<1> QED BY <1>1, <1>2, <1>3, PicturesRest, TimerRests DEF RInv, PictureVars

LEMMA RequestsStay == Spec => []RInv
<1>1. Init => RInv
  BY InitRequests DEF Init
<1>2. RInv /\ [Next]_vars => RInv'
  <2> SUFFICES ASSUME RInv, [Next]_vars PROVE RInv'
    OBVIOUS
  <2>1. CASE Requests
    BY <2>1, NextRequests DEF Requests
  <2>2. CASE Navigation \/ Text \/ OfWidgets \/ Input \/ UNCHANGED vars
    <3>1. UNCHANGED requestVars
      BY <2>2 DEF Navigation, Text, OfWidgets, Input, vars
    <3> QED BY <3>1, RestRequests
  <2> QED BY <2>1, <2>2 DEF Next
<1> QED BY <1>1, <1>2, PTL DEF Spec

(* A page that asks for the mouse is answered once, through crashes, lost    *)
(* views and late answers of the user, and believes to have it exactly when  *)
(* the view holds it; a picture answers what was asked before it and nothing *)
(* twice; the timer for new content runs for a page that did not paint       *)
(* (GotResponseToLockMouseRequest, OnSnapshotDataReceived,                   *)
(* OnFirstPaintAfterLoad).                                                   *)
THEOREM RequestsAreAnswered == Spec => []RequestsAreKept
<1>1. RInv => RequestsAreKept
  <2> SUFFICES ASSUME RInv PROVE RequestsAreKept
    OBVIOUS
  <2>1. prompts \in 0 .. MaxAsks
    <3>1. prompts + Questions(to_browser) <= asks
      BY DEF RInv, MouseKept
    <3>2. asks <= MaxAsks /\ asks \in Nat
      BY BoundsAreNat DEF RInv, RequestsTyped
    <3> QED BY <3>1, <3>2, QuestionsAreNat, BoundsAreNat DEF RInv
  <2>2. waiting \subseteq 1 .. MaxSnapshots
    BY BoundsAreNat DEF RInv, RequestsTyped
  <2>3. R!TypeOK
    BY <2>1, <2>2 DEF RInv, RequestsTyped, R!TypeOK, Lock, Wants, Load, Ids
  <2>4. R!LockIsAgreed
    <3>1. R!OneAnswer
      BY DEF RInv, MouseKept, Agreed, R!OneAnswer, Questions
    <3>2. lock.locked = R!WillHoldMouse
      BY DEF RInv, MouseKept, Agreed, R!WillHoldMouse
    <3>3. lock.locked => viewed
      BY DEF RInv, MouseKept
    <3> QED BY <3>1, <3>2, <3>3 DEF R!LockIsAgreed
  <2>5. R!SnapshotsAreFresh /\ R!ContentIsTimed
    BY DEF RInv, PicturesKept, TimerKept
  <2> QED BY <2>3, <2>4, <2>5 DEF RequestsAreKept, R!RequestsAreKept
<1> QED BY <1>1, RequestsStay, PTL

-----------------------------------------------------------------------------
(* Places of a sequence whose elements are in a set.                       *)

Places(q, S) == {i \in DOMAIN q : q[i] \in S}
Number(q, S) == Cardinality(Places(q, S))

LEMMA NumberEmpty ==
  ASSUME NEW S
  PROVE  Number(<<>>, S) = 0
<1>1. Places(<<>>, S) = {}
  BY DEF Places
<1> QED BY <1>1, FS_EmptySet DEF Number

LEMMA NumberIsNat ==
  ASSUME NEW X, NEW q \in Seq(X), NEW S
  PROVE  Number(q, S) \in Nat /\ IsFiniteSet(Places(q, S))
<1>1. IsFiniteSet(1 .. Len(q))
  BY FS_Interval
<1>2. Places(q, S) \subseteq 1 .. Len(q)
  BY DEF Places
<1>3. IsFiniteSet(Places(q, S))
  BY <1>1, <1>2, FS_Subset
<1> QED BY <1>3, FS_CardinalityType DEF Number

LEMMA NumberAppend ==
  ASSUME NEW X, NEW q \in Seq(X), NEW m \in X, NEW S
  PROVE  Number(Append(q, m), S) = IF m \in S THEN Number(q, S) + 1 ELSE Number(q, S)
<1> DEFINE A == Places(q, S)
           B == Places(Append(q, m), S)
           n == Len(q) + 1
<1>1. /\ DOMAIN Append(q, m) = 1 .. n /\ DOMAIN q = 1 .. Len(q) /\ n \notin DOMAIN q
      /\ Append(q, m)[n] = m /\ \A i \in DOMAIN q : Append(q, m)[i] = q[i]
      /\ 1 .. n = (1 .. Len(q)) \cup {n}
  OBVIOUS
<1>2. IsFiniteSet(A) /\ n \notin A
  BY <1>1, NumberIsNat DEF Places
<1>3. CASE m \in S
  <2>1. B = A \cup {n}
    BY <1>1, <1>3 DEF Places
  <2>2. Cardinality(A \cup {n}) = Cardinality(A) + 1
    BY <1>2, FS_AddElement
  <2> QED BY <1>3, <2>1, <2>2 DEF Number
<1>4. CASE m \notin S
  <2>1. B = A
    BY <1>1, <1>4 DEF Places
  <2> QED BY <1>4, <2>1 DEF Number
<1> QED BY <1>3, <1>4

LEMMA NumberTail ==
  ASSUME NEW X, NEW q \in Seq(X), q # <<>>, NEW S
  PROVE  Number(q, S) = IF Head(q) \in S THEN Number(Tail(q), S) + 1 ELSE Number(Tail(q), S)
<1> DEFINE A == Places(q, S)
           B == Places(Tail(q), S)
           f == [i \in B |-> i + 1]
<1>1. /\ Len(q) \in Nat /\ Len(q) >= 1 /\ DOMAIN q = 1 .. Len(q) /\ Head(q) = q[1]
      /\ Tail(q) \in Seq(X) /\ DOMAIN Tail(q) = 1 .. (Len(q) - 1)
      /\ \A i \in 1 .. (Len(q) - 1) : Tail(q)[i] = q[i + 1]
  OBVIOUS
<1>2. IsFiniteSet(B) /\ IsFiniteSet(A) /\ Cardinality(B) \in Nat
  BY <1>1, NumberIsNat DEF Number
<1>3. Cardinality(A \ {1}) = Cardinality(B)
  <2>1. \A i \in B : f[i] \in A \ {1}
    BY <1>1 DEF Places
  <2>2. ASSUME NEW k \in A \ {1} PROVE \E i \in B : f[i] = k
    <3>1. k - 1 \in B /\ f[k - 1] = k
      BY <1>1 DEF Places
    <3> QED BY <3>1
  <2>3. \A i, j \in B : f[i] = f[j] => i = j
    BY <1>1 DEF Places
  <2>4. f \in Bijection(B, A \ {1})
    BY <2>1, <2>2, <2>3, Fun_IsBij
  <2>5. ExistsBijection(B, A \ {1})
    BY <2>4 DEF ExistsBijection
  <2> QED BY <1>2, <2>5, FS_Bijection
<1>4. CASE Head(q) \in S
  <2>1. 1 \in A
    BY <1>1, <1>4 DEF Places
  <2>2. Cardinality(A \ {1}) = Cardinality(A) - 1 /\ Cardinality(A) \in Nat
    BY <1>2, <2>1, FS_RemoveElement, FS_CardinalityType
  <2> HIDE DEF A, B
  <2>3. Cardinality(A) = Cardinality(B) + 1
    BY <1>2, <1>3, <2>2
  <2> QED BY <1>4, <2>3 DEF A, B, Number
<1>5. CASE Head(q) \notin S
  <2>1. A \ {1} = A
    BY <1>1, <1>5 DEF Places
  <2> HIDE DEF A, B
  <2>2. Cardinality(A) = Cardinality(B)
    BY <1>3, <2>1, Zenon
  <2> QED BY <1>5, <2>2 DEF A, B, Number
<1> QED BY <1>4, <1>5

-----------------------------------------------------------------------------
(* WidgetInput: keys, scrolls, touches and gestures.                       *)

Gestures == 1 .. gestures
Keys == [suppress : BOOLEAN, leaked : BOOLEAN,
         stroke : {"none", "browser", "page", "emulator", "dropped"}]
Scrolls == [flag : BOOLEAN, stream : BOOLEAN, broken : BOOLEAN, nested : BOOLEAN,
            loose : BOOLEAN]
Touches == {"native", "emulated"}
Distinct(q) == \A i, j \in DOMAIN q : q[i] = q[j] => i = j

InputTyped ==
  /\ ignoring \in BOOLEAN /\ view \in BOOLEAN /\ emulator \in BOOLEAN
  /\ keys \in Keys /\ scroll \in Scrolls /\ touches \in Seq(Touches)

\* As long as the key is the browser's, its characters are suppressed.
KeysKept == I!CharsFollowTheirKey /\ (keys.stroke = "browser" => keys.suppress)

TouchesKept == unacked = Number(touches, {"native"})

\* Gestures that wait for the browser or in its queue are different, and none of them is lost.
Underway(q, a, l) ==
  /\ Distinct(q \o a)
  /\ \A i \in DOMAIN (q \o a) : (q \o a)[i] \notin l

GesturesKept ==
  /\ gestures \in 0 .. MaxGestures
  /\ callbacks \in Seq(Gestures) /\ queued \in Seq(Gestures)
  /\ asked \in Seq(Gestures) /\ done \in Seq(Gestures)
  /\ lost \subseteq Gestures /\ crossed \in BOOLEAN
  /\ Underway(queued, asked, lost)
  /\ I!GesturesAreCounted

IInv == InputTyped /\ KeysKept /\ I!ScrollsAreBracketed /\ TouchesKept /\ GesturesKept

LEMMA InitInput == I!Init => IInv
<1> SUFFICES ASSUME I!Init PROVE IInv
  OBVIOUS
<1>1. InputTyped
  <2>1. keys \in Keys
    BY DEF I!Init, Keys
  <2>2. scroll \in Scrolls
    BY DEF I!Init, Scrolls
  <2>3. ignoring \in BOOLEAN /\ view \in BOOLEAN /\ emulator \in BOOLEAN
    BY DEF I!Init
  <2>4. touches = <<>>
    BY DEF I!Init
  <2>5. touches \in Seq(Touches)
    BY <2>4
  <2> QED BY <2>1, <2>2, <2>3, <2>5 DEF InputTyped
<1>2. KeysKept /\ I!ScrollsAreBracketed
  BY DEF I!Init, KeysKept, I!CharsFollowTheirKey, I!ScrollsAreBracketed
<1>3. TouchesKept
  BY NumberEmpty DEF I!Init, TouchesKept
<1>4. GesturesKept
  <2>1. gestures = 0 /\ callbacks = <<>> /\ queued = <<>> /\ asked = <<>> /\ done = <<>>
        /\ lost = {} /\ crossed = FALSE
    BY DEF I!Init
  <2>2. <<>> \o <<>> = <<>> /\ I!Cardinality({}) = 0
    BY FS_EmptySet DEF I!Cardinality, Cardinality
  <2>3. I!GesturesAreCounted
    BY <2>1, <2>2 DEF I!GesturesAreCounted
  <2>4. MaxGestures \in Nat
    BY PageAssumption DEF PageAssumption, I!InputAssumption
  <2>5. Underway(queued, asked, lost)
    BY <2>1, <2>2 DEF Underway, Distinct
  <2>6. \A S : <<>> \in Seq(S)
    OBVIOUS
  <2>7. gestures \in 0 .. MaxGestures
    <3>1. gestures = 0
      BY <2>1
    <3> QED BY <2>4, <3>1
  <2>8. lost \subseteq Gestures /\ crossed \in BOOLEAN
    BY <2>1
  <2> QED BY <2>1, <2>3, <2>5, <2>6, <2>7, <2>8 DEF GesturesKept
<1> QED BY <1>1, <1>2, <1>3, <1>4 DEF IInv

LEMMA KeysStep ==
  ASSUME InputTyped, KeysKept, I!ForwardKeyboardEvent \/ I!OnUnexpectedEventAck
  PROVE  keys' \in Keys /\ KeysKept'
<1> DEFINE Key(s, t) == I!Key(s, t)
<1>1. ASSUME NEW s \in BOOLEAN, NEW t \in {"none", "browser", "page", "emulator", "dropped"},
             I!Key(s, t), t = "browser" => s, t \in {"page", "emulator"} => ~ s
      PROVE  keys' \in Keys /\ KeysKept'
  <2>1. keys' = [keys EXCEPT !.suppress = s, !.stroke = t]
    BY <1>1 DEF I!Key
  <2>2. keys \in Keys /\ ~ keys.leaked
    BY DEF InputTyped, KeysKept, I!CharsFollowTheirKey
  <2>3. /\ keys' \in Keys /\ keys'.suppress = s /\ keys'.stroke = t
        /\ keys'.leaked = keys.leaked
    BY <2>1, <2>2 DEF Keys
  <2> QED BY <1>1, <2>2, <2>3 DEF KeysKept, I!CharsFollowTheirKey
<1>2. CASE I!OnUnexpectedEventAck
  BY <1>1, <1>2 DEF I!OnUnexpectedEventAck
<1>3. CASE I!KeyUp
  BY <1>1, <1>3 DEF I!KeyUp
<1>4. CASE \E skip \in BOOLEAN : I!RawKeyDown(skip)
  BY <1>1, <1>4 DEF I!RawKeyDown
<1>5. CASE I!Char
  <2>1. keys \in Keys /\ ~ keys.leaked /\ (keys.stroke = "browser" => keys.suppress)
        /\ (keys.stroke \in {"page", "emulator"} => ~ keys.suppress)
    BY DEF InputTyped, KeysKept, I!CharsFollowTheirKey
  <2>2. CASE keys.suppress
    BY <1>5, <2>1, <2>2 DEF I!Char, KeysKept, I!CharsFollowTheirKey
  <2>3. CASE ~ keys.suppress
    <3>1. keys.stroke # "browser"
      BY <2>1, <2>3
    <3>2. keys' = [keys EXCEPT !.leaked = @ \/ keys.stroke = "browser"]
      BY <1>5, <2>3 DEF I!Char
    <3>3. /\ keys' \in Keys /\ keys'.suppress = keys.suppress /\ keys'.stroke = keys.stroke
          /\ keys'.leaked = (keys.leaked \/ keys.stroke = "browser")
      BY <2>1, <3>2 DEF Keys
    <3> QED BY <2>1, <3>1, <3>3 DEF KeysKept, I!CharsFollowTheirKey
  <2> QED BY <2>2, <2>3
<1>6. CASE keys' = [keys EXCEPT !.stroke = "dropped"]
  <2>1. keys \in Keys /\ ~ keys.leaked
    BY DEF InputTyped, KeysKept, I!CharsFollowTheirKey
  <2>2. keys' \in Keys /\ keys'.stroke = "dropped" /\ keys'.leaked = keys.leaked
    BY <1>6, <2>1 DEF Keys
  <2> QED BY <2>1, <2>2 DEF KeysKept, I!CharsFollowTheirKey
<1> QED BY <1>2, <1>3, <1>4, <1>5, <1>6 DEF I!ForwardKeyboardEvent

LEMMA ScrollsStep ==
  ASSUME InputTyped, I!ScrollsAreBracketed, I!ForwardGestureEvent
  PROVE  scroll' \in Scrolls /\ I!ScrollsAreBracketed'
<1> DEFINE Sound(s) == s \in Scrolls /\ s.flag = s.stream /\ s.nested = FALSE /\ s.loose = FALSE
<1>1. Sound(scroll)
  BY DEF InputTyped, I!ScrollsAreBracketed, Scrolls
<1>2. ASSUME NEW s, Sound(s), s.flag = FALSE
      PROVE  Sound(I!ScrollBegin(s)) /\ I!ScrollBegin(s).flag
  <2>1. I!ScrollBegin(s) = [s EXCEPT !.flag = TRUE, !.stream = TRUE, !.nested = s.nested \/ s.stream]
    BY DEF I!ScrollBegin
  <2>2. s.nested = FALSE /\ s.stream = FALSE
    BY <1>2
  <2>3. I!ScrollBegin(s) = [s EXCEPT !.flag = TRUE, !.stream = TRUE, !.nested = FALSE]
    BY <2>1, <2>2
  <2> QED BY <1>2, <2>3 DEF Scrolls
<1>3. ASSUME NEW s, Sound(s)
      PROVE  Sound(I!ScrollEnd(s)) /\ Sound(I!Dropped(s))
  BY <1>3 DEF I!ScrollEnd, I!Dropped, Scrolls
<1>4. ASSUME NEW s, Sound(s), NEW resent \in BOOLEAN, resent => s.flag
      PROVE  Sound(I!ScrollUpdate(s, resent))
  <2>1. I!ScrollUpdate(s, resent) = [s EXCEPT !.loose = s.loose \/ (resent /\ ~ s.stream)]
    BY DEF I!ScrollUpdate
  <2>2. (s.loose \/ (resent /\ ~ s.stream)) = FALSE
    BY <1>4
  <2>3. I!ScrollUpdate(s, resent) = [s EXCEPT !.loose = FALSE]
    BY <2>1, <2>2
  <2> QED BY <1>4, <2>3 DEF Scrolls
<1>5. ASSUME NEW s, Sound(s), NEW resent \in BOOLEAN
      PROVE  Sound(I!Wrapped(s, resent))
  <2> HIDE DEF Sound
  <2>1. CASE resent /\ s.flag = FALSE
    <3>1. Sound(I!ScrollBegin(s)) /\ I!ScrollBegin(s).flag
      BY <1>2, <1>5, <2>1
    <3>2. Sound(I!ScrollUpdate(I!ScrollBegin(s), resent))
      BY <1>4, <3>1
    <3>3. Sound(I!ScrollEnd(I!ScrollUpdate(I!ScrollBegin(s), resent)))
      BY <1>3, <3>2
    <3> QED BY <2>1, <3>3 DEF I!Wrapped
  <2>2. CASE ~ (resent /\ ~ s.flag)
    BY <1>4, <1>5, <2>2 DEF I!Wrapped
  <2>3. s.flag \in BOOLEAN
    BY <1>5 DEF Sound, Scrolls
  <2> QED BY <2>1, <2>2, <2>3
<1>6. Sound(scroll')
  <2> HIDE DEF Sound
  <2>1. scroll.flag \in BOOLEAN
    BY <1>1 DEF Sound, Scrolls
  <2> QED BY <1>1, <1>2, <1>3, <1>5, <2>1 DEF I!ForwardGestureEvent
<1> QED BY <1>6 DEF I!ScrollsAreBracketed

LEMMA TouchesStep ==
  ASSUME InputTyped, TouchesKept,
         \/ I!ForwardTouchEventWithLatencyInfo \/ I!ForwardEmulatedTouchEvent
         \/ I!OnTouchEventAck
  PROVE  touches' \in Seq(Touches) /\ TouchesKept'
<1>1. touches \in Seq(Touches) /\ "native" \in Touches /\ "emulated" \in Touches
      /\ unacked = Number(touches, {"native"}) /\ Number(touches, {"native"}) \in Nat
  BY NumberIsNat DEF InputTyped, TouchesKept, Touches
<1>2. /\ Number(Append(touches, "native"), {"native"}) = unacked + 1
      /\ Number(Append(touches, "emulated"), {"native"}) = unacked
  BY <1>1, NumberAppend
<1>3. CASE I!ForwardTouchEventWithLatencyInfo \/ I!ForwardEmulatedTouchEvent
  <2>1. \/ touches' = Append(touches, "native") /\ unacked' = unacked + 1
        \/ touches' = Append(touches, "emulated") /\ unacked' = unacked
        \/ touches' = touches /\ unacked' = unacked
    BY <1>3 DEF I!ForwardTouchEventWithLatencyInfo, I!ForwardEmulatedTouchEvent
  <2>2. touches' \in Seq(Touches)
    BY <1>1, <2>1, AppendType
  <2> QED BY <1>1, <1>2, <2>1, <2>2 DEF TouchesKept
<1>4. CASE I!OnTouchEventAck
  <2>1. /\ touches # <<>> /\ touches' = Tail(touches)
        /\ unacked' = unacked - I!AckedToView(Head(touches))
    BY <1>4 DEF I!OnTouchEventAck
  <2>2. touches' \in Seq(Touches) /\ Head(touches) \in Touches
    BY <1>1, <2>1
  <2>3. Number(touches, {"native"})
          = IF Head(touches) \in {"native"} THEN Number(touches', {"native"}) + 1
            ELSE Number(touches', {"native"})
    BY <1>1, <2>1, NumberTail
  <2>4. Number(touches', {"native"}) \in Nat
    BY <2>2, NumberIsNat
  <2>5. unacked' = Number(touches', {"native"})
    BY <1>1, <2>1, <2>2, <2>3, <2>4 DEF I!AckedToView, Touches
  <2> QED BY <2>2, <2>5 DEF TouchesKept
<1> QED BY <1>3, <1>4

-----------------------------------------------------------------------------
(* Gestures that the page asks for.                                        *)

LEMMA Distinctly ==
  ASSUME NEW S, NEW q \in Seq(S), NEW m \in S, Distinct(q), \A i \in DOMAIN q : q[i] # m
  PROVE  Distinct(Append(q, m))
<1>1. /\ Len(q) \in Nat /\ DOMAIN q = 1 .. Len(q) /\ DOMAIN Append(q, m) = 1 .. (Len(q) + 1)
      /\ Append(q, m)[Len(q) + 1] = m /\ \A i \in DOMAIN q : Append(q, m)[i] = q[i]
  OBVIOUS
<1> QED BY <1>1 DEF Distinct

\* What leaves the front was different from all that follow.
LEMMA FrontLeaves ==
  ASSUME NEW S, NEW q \in Seq(S), q # <<>>, NEW l, Distinct(q), \A i \in DOMAIN q : q[i] \notin l
  PROVE  /\ Distinct(Tail(q)) /\ \A i \in DOMAIN Tail(q) : Tail(q)[i] \notin l \cup {Head(q)}
         /\ Head(q) \notin l
<1>1. /\ Len(q) \in Nat /\ Len(q) >= 1 /\ DOMAIN q = 1 .. Len(q) /\ Head(q) = q[1]
      /\ DOMAIN Tail(q) = 1 .. (Len(q) - 1)
      /\ \A i \in 1 .. (Len(q) - 1) : Tail(q)[i] = q[i + 1]
  OBVIOUS
<1> QED BY <1>1 DEF Distinct

LEMMA DistinctIsCounted ==
  ASSUME NEW S, NEW q \in Seq(S), Distinct(q)
  PROVE  IsFiniteSet(I!Range(q)) /\ Cardinality(I!Range(q)) = Len(q)
<1>1. I!Range(q) = {q[i] : i \in 1 .. Len(q)} /\ DOMAIN q = 1 .. Len(q) /\ Len(q) \in Nat
  BY DEF I!Range
<1>2. q \in Bijection(1 .. Len(q), I!Range(q))
  <2>1. \A i \in 1 .. Len(q) : q[i] \in I!Range(q)
    BY <1>1
  <2>2. \A e \in I!Range(q) : \E i \in 1 .. Len(q) : q[i] = e
    BY <1>1
  <2>3. q \in [1 .. Len(q) -> I!Range(q)]
    BY <1>1, <2>1
  <2> QED BY <1>1, <2>2, <2>3, Fun_IsBij DEF Distinct
<1>3. IsFiniteSet(1 .. Len(q)) /\ Cardinality(1 .. Len(q)) = Len(q)
  BY <1>1, FS_Interval
<1>4. ExistsBijection(1 .. Len(q), I!Range(q))
  BY <1>2 DEF ExistsBijection
<1> QED BY <1>3, <1>4, FS_Bijection

LEMMA HeadMoves ==
  ASSUME NEW S, NEW a \in Seq(S), NEW b \in Seq(S), b # <<>>
  PROVE  Append(a, Head(b)) \o Tail(b) = a \o b
<1>1. /\ Head(b) \in S /\ Tail(b) \in Seq(S) /\ b = <<Head(b)>> \o Tail(b)
      /\ Append(a, Head(b)) = a \o <<Head(b)>> /\ <<Head(b)>> \in Seq(S)
  OBVIOUS
<1>2. (a \o <<Head(b)>>) \o Tail(b) = a \o (<<Head(b)>> \o Tail(b))
  BY <1>1, ConcatAssociative
<1> QED BY <1>1, <1>2

LEMMA LastMoves ==
  ASSUME NEW S, NEW a \in Seq(S), NEW b \in Seq(S), NEW x \in S
  PROVE  a \o Append(b, x) = Append(a \o b, x)
<1>1. /\ Append(b, x) = b \o <<x>> /\ <<x>> \in Seq(S) /\ a \o b \in Seq(S)
      /\ Append(a \o b, x) = (a \o b) \o <<x>>
  OBVIOUS
<1>2. (a \o b) \o <<x>> = a \o (b \o <<x>>)
  BY <1>1, ConcatAssociative
<1> QED BY <1>1, <1>2

LEMMA GesturesStep ==
  ASSUME InputTyped, GesturesKept,
         \/ I!RendererQueuesSyntheticGesture \/ I!QueueSyntheticGesture \/ I!GesturePlayed
         \/ I!OnSyntheticGestureCompleted \/ I!SetView
  PROVE  GesturesKept'
<1> DEFINE G == Gestures
<1>1. /\ gestures \in Nat /\ gestures <= MaxGestures /\ MaxGestures \in Nat
      /\ callbacks \in Seq(G) /\ queued \in Seq(G) /\ asked \in Seq(G) /\ done \in Seq(G)
      /\ lost \subseteq G /\ crossed \in BOOLEAN
      /\ Distinct(queued \o asked) /\ \A i \in DOMAIN (queued \o asked) : (queued \o asked)[i] \notin lost
  BY PageAssumption DEF PageAssumption, I!InputAssumption, GesturesKept, Underway
<1>2. \A X : I!Cardinality(X) = Cardinality(X)
  BY DEF I!Cardinality, Cardinality
<1>3. IsFiniteSet(lost) /\ Cardinality(lost) \in Nat
  <2>1. IsFiniteSet(G)
    BY <1>1, FS_Interval DEF Gestures
  <2> QED BY <1>1, <2>1, FS_Subset, FS_CardinalityType
<1>4. /\ Len(callbacks) = Len(asked) + Len(queued) + Len(done) + Cardinality(lost)
      /\ crossed => lost # {}
      /\ lost = {} => callbacks = done \o queued \o asked
  BY <1>2 DEF GesturesKept, I!GesturesAreCounted
<1>5. CASE I!RendererQueuesSyntheticGesture
  <2> DEFINE g == gestures + 1
             H == Gestures'
  <2>1. /\ gestures < MaxGestures /\ gestures' = g
        /\ callbacks' = Append(callbacks, g) /\ asked' = Append(asked, g)
        /\ UNCHANGED <<queued, done, lost, crossed>>
    BY <1>5 DEF I!RendererQueuesSyntheticGesture
  <2>2. G \subseteq H /\ g \in H /\ g \notin G /\ gestures' \in 0 .. MaxGestures
    BY <1>1, <2>1 DEF Gestures
  <2> HIDE DEF G, H
  <2>3. /\ callbacks \in Seq(H) /\ queued \in Seq(H) /\ asked \in Seq(H) /\ done \in Seq(H)
    BY <1>1, <2>2
  <2>4. /\ callbacks' \in Seq(H) /\ queued' \in Seq(H) /\ asked' \in Seq(H) /\ done' \in Seq(H)
        /\ lost' \subseteq H /\ crossed' \in BOOLEAN
    BY <1>1, <2>1, <2>2, <2>3, AppendType
  <2>5. queued' \o asked' = Append(queued \o asked, g) /\ queued \o asked \in Seq(G)
        /\ queued \o asked \in Seq(H)
    BY <1>1, <2>1, <2>3
  <2>6. \A i \in DOMAIN (queued \o asked) : (queued \o asked)[i] # g
    BY <2>2, <2>5
  <2>7. Distinct(queued' \o asked')
    BY <1>1, <2>2, <2>5, <2>6, Distinctly
  <2>8. \A i \in DOMAIN (queued' \o asked') : (queued' \o asked')[i] \notin lost'
    BY <1>1, <2>1, <2>2, <2>5
  <2>9. Len(callbacks') = Len(asked') + Len(queued') + Len(done') + Cardinality(lost')
    <3>1. Len(callbacks') = Len(callbacks) + 1 /\ Len(asked') = Len(asked) + 1
      BY <2>1, <2>3
    <3>2. Len(callbacks) \in Nat /\ Len(asked) \in Nat /\ Len(queued) \in Nat /\ Len(done) \in Nat
      BY <2>3
    <3> QED BY <1>3, <1>4, <2>1, <3>1, <3>2
  <2>10. lost' = {} => callbacks' = done' \o queued' \o asked'
    <3>1. done \o queued \in Seq(H)
      BY <2>3
    <3>2. (done \o queued) \o Append(asked, g) = Append((done \o queued) \o asked, g)
      BY <2>2, <2>3, <3>1, LastMoves
    <3> QED BY <1>4, <2>1, <3>2
  <2>11. I!GesturesAreCounted'
    BY <1>2, <1>4, <2>1, <2>9, <2>10 DEF I!GesturesAreCounted
  <2> QED BY <2>2, <2>4, <2>7, <2>8, <2>11 DEF GesturesKept, Underway, H
<1>6. CASE I!QueueSyntheticGesture
  <2>1. /\ asked # <<>> /\ asked' = Tail(asked)
        /\ UNCHANGED <<gestures, callbacks, done, crossed>>
        /\ \/ queued' = Append(queued, Head(asked)) /\ lost' = lost
           \/ lost' = lost \cup {Head(asked)} /\ queued' = queued
    BY <1>6 DEF I!QueueSyntheticGesture
  <2>2. Head(asked) \in G /\ asked' \in Seq(G) /\ asked = <<Head(asked)>> \o asked'
        /\ Len(asked') = Len(asked) - 1
    BY <1>1, <2>1
  <2>3. /\ gestures' \in 0 .. MaxGestures /\ callbacks' \in Seq(G) /\ queued' \in Seq(G)
        /\ asked' \in Seq(G) /\ done' \in Seq(G) /\ lost' \subseteq G /\ crossed' \in BOOLEAN
        /\ Gestures' = G
    <3>1. Gestures' = G /\ gestures' \in 0 .. MaxGestures
      BY <1>1, <2>1 DEF Gestures
    <3> HIDE DEF G
    <3>2. queued' \in Seq(G) /\ lost' \subseteq G
      BY <1>1, <2>1, <2>2, AppendType
    <3> QED BY <1>1, <2>1, <2>2, <3>1, <3>2
  <2> HIDE DEF G
  <2>4. CASE queued' = Append(queued, Head(asked)) /\ lost' = lost
    <3>1. queued' \o asked' = queued \o asked
      BY <1>1, <2>1, <2>4, HeadMoves
    <3>2. done' \o queued' \o asked' = done \o queued \o asked
      <4>1. (done \o queued) \o asked = done \o (queued \o asked)
        BY <1>1, ConcatAssociative
      <4>2. (done \o queued') \o asked' = done \o (queued' \o asked')
        <5> DEFINE y == queued'
                   z == asked'
        <5>1. done \in Seq(G) /\ y \in Seq(G) /\ z \in Seq(G)
          BY <1>1, <2>3
        <5> HIDE DEF y, z
        <5>2. (done \o y) \o z = done \o (y \o z)
          BY <5>1, ConcatAssociative
        <5> QED BY <5>2 DEF y, z
      <4> QED BY <2>1, <3>1, <4>1, <4>2
    <3>3. Underway(queued', asked', lost')
      BY <1>1, <2>4, <3>1 DEF Underway
    <3>4. Len(callbacks') = Len(asked') + Len(queued') + Len(done') + Cardinality(lost')
      BY <1>1, <1>3, <1>4, <2>1, <2>2, <2>4
    <3>5. I!GesturesAreCounted'
      BY <1>2, <1>4, <2>1, <2>4, <3>2, <3>4 DEF I!GesturesAreCounted
    <3> QED BY <2>3, <3>3, <3>5 DEF GesturesKept, Underway
  <2>5. CASE lost' = lost \cup {Head(asked)} /\ queued' = queued
    <3> DEFINE n == Len(queued)
               q == queued \o asked
               r == queued \o asked'
    <3>1. /\ n \in Nat /\ Len(asked) \in Nat /\ Len(asked) >= 1 /\ DOMAIN q = 1 .. (n + Len(asked))
          /\ DOMAIN r = 1 .. (n + Len(asked) - 1) /\ q[n + 1] = Head(asked)
          /\ \A i \in 1 .. n : q[i] = r[i]
      BY <1>1, <2>1, <2>2
    <3>2. \A i \in (n + 1) .. (n + Len(asked) - 1) : r[i] = q[i + 1]
      BY <1>1, <2>1, <2>2, <3>1
    <3> HIDE DEF q, r, n
    <3>3. Distinct(q) /\ \A i \in DOMAIN q : q[i] \notin lost
      BY <1>1 DEF q
    <3>4. Distinct(r) /\ \A i \in DOMAIN r : r[i] \notin lost \cup {Head(asked)}
      <4>1. \A i \in DOMAIN r : \E j \in DOMAIN q :
              r[i] = q[j] /\ j = IF i <= n THEN i ELSE i + 1
        BY <3>1, <3>2
      <4>2. n + 1 \in DOMAIN q
        BY <3>1
      <4>3. \A i \in DOMAIN r : i \in Nat
        BY <3>1
      <4>4. ASSUME NEW i \in DOMAIN r PROVE r[i] \notin lost \cup {Head(asked)}
        <5>1. PICK j \in DOMAIN q : r[i] = q[j] /\ j = IF i <= n THEN i ELSE i + 1
          BY <4>1
        <5>2. j # n + 1
          BY <3>1, <4>3, <5>1
        <5> QED BY <3>1, <3>3, <4>2, <5>1, <5>2 DEF Distinct
      <4>5. ASSUME NEW i \in DOMAIN r, NEW j \in DOMAIN r, r[i] = r[j] PROVE i = j
        <5>1. PICK k \in DOMAIN q : r[i] = q[k] /\ k = IF i <= n THEN i ELSE i + 1
          BY <4>1
        <5>2. PICK l \in DOMAIN q : r[j] = q[l] /\ l = IF j <= n THEN j ELSE j + 1
          BY <4>1
        <5>3. k = l
          BY <3>3, <4>5, <5>1, <5>2 DEF Distinct
        <5> QED BY <3>1, <4>3, <5>1, <5>2, <5>3
      <4> QED BY <4>4, <4>5 DEF Distinct
    <3>5. Head(asked) \notin lost
      BY <3>1, <3>3
    <3>6. Cardinality(lost') = Cardinality(lost) + 1
      BY <1>3, <2>5, <3>5, FS_AddElement
    <3>7. Underway(queued', asked', lost')
      BY <2>5, <3>4 DEF Underway, r
    <3>8. Len(callbacks') = Len(asked') + Len(queued') + Len(done') + Cardinality(lost')
      BY <1>1, <1>3, <1>4, <2>1, <2>2, <2>5, <3>6
    <3>9. I!GesturesAreCounted'
      BY <1>2, <2>5, <3>8 DEF I!GesturesAreCounted
    <3> QED BY <2>3, <3>7, <3>9 DEF GesturesKept, Underway
  <2> QED BY <2>1, <2>4, <2>5
<1>7. CASE I!GesturePlayed
  <2>1. /\ queued # <<>> /\ queued' = Tail(queued) /\ done' = Append(done, Head(queued))
        /\ UNCHANGED <<gestures, callbacks, asked, lost, crossed>>
    BY <1>7 DEF I!GesturePlayed
  <2>2. Head(queued) \in G /\ queued' \in Seq(G) /\ queued = <<Head(queued)>> \o queued'
        /\ Len(queued') = Len(queued) - 1
    BY <1>1, <2>1
  <2>3. /\ gestures' \in 0 .. MaxGestures /\ callbacks' \in Seq(G) /\ queued' \in Seq(G)
        /\ asked' \in Seq(G) /\ done' \in Seq(G) /\ lost' \subseteq G /\ crossed' \in BOOLEAN
        /\ Gestures' = G
    BY <1>1, <2>1, <2>2, AppendType DEF Gestures
  <2> HIDE DEF G
  <2>4. done' \o queued' \o asked' = done \o queued \o asked
    <3> DEFINE h == <<Head(queued)>>
    <3>1. h \in Seq(G) /\ done \in Seq(G) /\ queued' \in Seq(G)
      BY <1>1, <2>2
    <3>2. Append(done, Head(queued)) = done \o h
      BY <1>1, <2>2
    <3>3. queued = h \o queued' /\ done' = done \o h /\ asked' = asked
      BY <2>1, <2>2, <3>2
    <3> HIDE DEF h
    <3>4. (done \o h) \o queued' = done \o (h \o queued')
      BY <3>1, ConcatAssociative
    <3> QED BY <3>3, <3>4
  <2>5. queued \o asked \in Seq(G) /\ queued \o asked # <<>>
        /\ Tail(queued \o asked) = queued' \o asked'
    BY <1>1, <2>1, <2>2
  <2>6. Distinct(queued' \o asked')
        /\ \A i \in DOMAIN (queued' \o asked') : (queued' \o asked')[i] \notin lost'
    <3> DEFINE all == queued \o asked
               rest == queued' \o asked'
    <3>1. /\ all \in Seq(G) /\ all # <<>> /\ Tail(all) = rest
          /\ Distinct(all) /\ \A i \in DOMAIN all : all[i] \notin lost
      BY <1>1, <2>5
    <3> HIDE DEF all, rest
    <3>2. Distinct(rest) /\ \A i \in DOMAIN rest : rest[i] \notin lost
      BY <3>1, FrontLeaves
    <3>3. lost' = lost
      BY <2>1
    <3> QED BY <3>2, <3>3 DEF rest
  <2>7. Len(callbacks') = Len(asked') + Len(queued') + Len(done') + Cardinality(lost')
    BY <1>1, <1>3, <1>4, <2>1, <2>2
  <2>8. I!GesturesAreCounted'
    BY <1>2, <1>4, <2>1, <2>4, <2>7 DEF I!GesturesAreCounted
  <2> QED BY <2>3, <2>6, <2>8 DEF GesturesKept, Underway
<1>8. CASE I!OnSyntheticGestureCompleted
  <2>1. /\ done # <<>> /\ done' = Tail(done) /\ callbacks' = Tail(callbacks)
        /\ crossed' = (crossed \/ Head(callbacks) # Head(done))
        /\ UNCHANGED <<gestures, queued, asked, lost>>
    BY <1>8 DEF I!OnSyntheticGestureCompleted
  <2>2. callbacks # <<>> /\ Len(done) >= 1 /\ Len(callbacks) >= 1
    BY <1>1, <1>3, <1>4, <2>1
  <2>3. /\ gestures' \in 0 .. MaxGestures /\ callbacks' \in Seq(G) /\ queued' \in Seq(G)
        /\ asked' \in Seq(G) /\ done' \in Seq(G) /\ lost' \subseteq G /\ crossed' \in BOOLEAN
        /\ Gestures' = G
    BY <1>1, <2>1, <2>2 DEF Gestures
  <2> HIDE DEF G
  <2>4. lost = {} => /\ Head(callbacks) = Head(done)
                     /\ callbacks' = done' \o queued' \o asked'
    <3>1. SUFFICES ASSUME lost = {} PROVE /\ Head(callbacks) = Head(done)
                                          /\ callbacks' = done' \o queued' \o asked'
      OBVIOUS
    <3>2. callbacks = done \o (queued \o asked) /\ queued \o asked \in Seq(G)
      <4>1. (done \o queued) \o asked = done \o (queued \o asked)
        BY <1>1, ConcatAssociative
      <4> QED BY <1>1, <1>4, <3>1, <4>1
    <3>3. done = <<Head(done)>> \o done'
      BY <1>1, <2>1
    <3>4. /\ Head(done \o (queued \o asked)) = Head(done)
          /\ Tail(done \o (queued \o asked)) = Tail(done) \o (queued \o asked)
      BY <1>1, <2>1, <3>2
    <3>5. done' \o queued' \o asked' = Tail(done) \o (queued \o asked)
      <4> DEFINE x == done'
      <4>1. /\ x = Tail(done) /\ x \in Seq(G) /\ queued' = queued /\ asked' = asked
            /\ queued \in Seq(G) /\ asked \in Seq(G)
        BY <1>1, <2>1, <2>3
      <4> HIDE DEF x
      <4>2. x \in Seq(G) /\ queued \in Seq(G) /\ asked \in Seq(G)
        BY <4>1
      <4>3. (x \o queued) \o asked = x \o (queued \o asked)
        BY <4>2, ConcatAssociative
      <4> QED BY <4>1, <4>3 DEF x
    <3> QED BY <2>1, <3>2, <3>4, <3>5
  <2>5. Len(callbacks') = Len(asked') + Len(queued') + Len(done') + Cardinality(lost')
    BY <1>1, <1>3, <1>4, <2>1, <2>2
  <2>6. crossed' => lost' # {}
    BY <1>4, <2>1, <2>4
  <2>7. I!GesturesAreCounted'
    BY <1>2, <2>1, <2>4, <2>5, <2>6 DEF I!GesturesAreCounted
  <2> QED BY <1>1, <2>1, <2>3, <2>7 DEF GesturesKept, Underway
<1>9. CASE I!SetView
  <2>1. /\ queued' = <<>> /\ lost' = lost \cup I!Range(queued)
        /\ UNCHANGED <<gestures, callbacks, asked, done, crossed>>
    BY <1>9 DEF I!SetView
  <2>2. I!Range(queued) = {queued[i] : i \in DOMAIN queued}
    BY DEF I!Range
  <2>3. /\ gestures' \in 0 .. MaxGestures /\ callbacks' \in Seq(G) /\ queued' \in Seq(G)
        /\ asked' \in Seq(G) /\ done' \in Seq(G) /\ lost' \subseteq G /\ crossed' \in BOOLEAN
        /\ Gestures' = G
    <3>1. Gestures' = G /\ gestures' \in 0 .. MaxGestures
      BY <1>1, <2>1 DEF Gestures
    <3> HIDE DEF G
    <3>2. \A i \in DOMAIN queued : queued[i] \in G
      BY <1>1
    <3>3. lost' \subseteq G
      BY <1>1, <2>1, <2>2, <3>2
    <3> QED BY <1>1, <2>1, <3>1, <3>3
  <2> HIDE DEF G
  <2> DEFINE n == Len(queued)
             q == queued \o asked
  <2>4. /\ n \in Nat /\ Len(asked) \in Nat /\ DOMAIN queued = 1 .. n /\ DOMAIN asked = 1 .. Len(asked)
        /\ DOMAIN q = 1 .. (n + Len(asked))
        /\ \A i \in 1 .. n : q[i] = queued[i]
        /\ \A i \in 1 .. Len(asked) : q[n + i] = asked[i]
    BY <1>1
  <2>5. queued' \o asked' = asked /\ done' \o queued' \o asked' = done \o asked
    BY <1>1, <2>1
  <2> HIDE DEF q, n
  <2>6. Distinct(q) /\ \A i \in DOMAIN q : q[i] \notin lost
    BY <1>1 DEF q
  <2>7. Distinct(queued) /\ \A i \in DOMAIN queued : queued[i] \notin lost
    BY <2>4, <2>6 DEF Distinct
  <2>8. Distinct(asked) /\ \A i \in DOMAIN asked : asked[i] \notin lost'
    <3>1. ASSUME NEW i \in DOMAIN asked PROVE asked[i] \notin lost'
      <4>1. n + i \in DOMAIN q /\ q[n + i] = asked[i]
        BY <2>4
      <4>2. ASSUME NEW j \in DOMAIN queued PROVE queued[j] # asked[i]
        <5>1. j \in DOMAIN q /\ q[j] = queued[j] /\ j # n + i
          BY <2>4
        <5> QED BY <2>6, <4>1, <5>1 DEF Distinct
      <4> QED BY <2>1, <2>2, <2>6, <4>1, <4>2
    <3>2. ASSUME NEW i \in DOMAIN asked, NEW j \in DOMAIN asked, asked[i] = asked[j] PROVE i = j
      <4>1. n + i \in DOMAIN q /\ q[n + i] = asked[i] /\ n + j \in DOMAIN q /\ q[n + j] = asked[j]
        BY <2>4
      <4>2. n + i = n + j
        BY <2>6, <3>2, <4>1 DEF Distinct
      <4> QED BY <2>4, <4>2
    <3> QED BY <3>1, <3>2 DEF Distinct
  <2>9. IsFiniteSet(I!Range(queued)) /\ Cardinality(I!Range(queued)) = Len(queued)
    BY <1>1, <2>7, DistinctIsCounted
  <2>10. lost \cap I!Range(queued) = {}
    BY <2>2, <2>7
  <2>11. Cardinality(lost') = Cardinality(lost) + Len(queued)
    <3>1. Cardinality({}) = 0
      BY FS_EmptySet
    <3>2. Cardinality(lost \cup I!Range(queued))
            = Cardinality(lost) + Cardinality(I!Range(queued)) - Cardinality(lost \cap I!Range(queued))
      BY <1>3, <2>9, FS_Union
    <3>3. Cardinality(lost \cap I!Range(queued)) = 0
      BY <2>10, <3>1
    <3> QED BY <1>3, <2>1, <2>4, <2>9, <3>2, <3>3 DEF n
  <2>12. Len(callbacks') = Len(asked') + Len(queued') + Len(done') + Cardinality(lost')
    <3>1. Len(queued') = 0 /\ Len(done) \in Nat
      BY <1>1, <2>1
    <3> QED BY <1>3, <1>4, <2>1, <2>4, <2>11, <3>1 DEF n
  <2>13. lost' = {} => callbacks' = done' \o queued' \o asked'
    <3>1. SUFFICES ASSUME lost' = {} PROVE callbacks' = done' \o queued' \o asked'
      OBVIOUS
    <3>2. lost = {} /\ DOMAIN queued = {}
      BY <2>1, <2>2, <3>1
    <3>3. queued = <<>>
      BY <1>1, <3>2
    <3> QED BY <1>4, <2>1, <3>2, <3>3
  <2>14. I!GesturesAreCounted'
    BY <1>2, <1>4, <2>1, <2>12, <2>13 DEF I!GesturesAreCounted
  <2>15. Underway(queued', asked', lost')
    BY <2>1, <2>5, <2>8 DEF Underway
  <2> QED BY <2>3, <2>14, <2>15 DEF GesturesKept, Underway
<1> QED BY <1>5, <1>6, <1>7, <1>8, <1>9

\* Each member rests in the steps that are not about it.
LEMMA GesturesRest == GesturesKept /\ UNCHANGED I!gestureVars => GesturesKept'
<1> SUFFICES ASSUME GesturesKept, UNCHANGED I!gestureVars PROVE GesturesKept'
  OBVIOUS
<1>1. /\ gestures' = gestures /\ callbacks' = callbacks /\ queued' = queued /\ asked' = asked
      /\ done' = done /\ lost' = lost /\ crossed' = crossed
  BY DEF I!gestureVars
<1>2. I!GesturesAreCounted' /\ Gestures' = Gestures
  BY <1>1 DEF GesturesKept, I!GesturesAreCounted, Gestures
<1>3. Underway(queued', asked', lost') = Underway(queued, asked, lost)
  BY <1>1
<1> QED BY <1>1, <1>2, <1>3 DEF GesturesKept

LEMMA KeysRest == KeysKept /\ UNCHANGED keys => KeysKept'
BY DEF KeysKept, I!CharsFollowTheirKey

LEMMA ScrollRests == I!ScrollsAreBracketed /\ UNCHANGED scroll => I!ScrollsAreBracketed'
BY DEF I!ScrollsAreBracketed

LEMMA TouchesRest == TouchesKept /\ UNCHANGED <<touches, unacked>> => TouchesKept'
BY DEF TouchesKept

LEMMA NextInput == IInv /\ I!Next => IInv'
<1> SUFFICES ASSUME IInv, I!Next PROVE IInv'
  OBVIOUS
<1>1. InputTyped /\ KeysKept /\ I!ScrollsAreBracketed /\ TouchesKept /\ GesturesKept
  BY DEF IInv
<1>2. CASE I!ForwardKeyboardEvent \/ I!OnUnexpectedEventAck
  <2>1. UNCHANGED <<ignoring, view, scroll, I!touchVars, I!gestureVars>>
    BY <1>2 DEF I!ForwardKeyboardEvent, I!OnUnexpectedEventAck
  <2>2. keys' \in Keys /\ KeysKept'
    BY <1>1, <1>2, KeysStep
  <2>3. InputTyped'
    BY <1>1, <2>1, <2>2 DEF InputTyped, I!touchVars
  <2> QED BY <1>1, <2>1, <2>2, <2>3, ScrollRests, TouchesRest, GesturesRest DEF IInv, I!touchVars
<1>3. CASE I!AddKeyPressEventCallback \/ I!RemoveKeyPressEventCallback
  <2>1. UNCHANGED <<ignoring, view, keys, scroll, I!touchVars, I!gestureVars>>
    BY <1>3 DEF I!AddKeyPressEventCallback, I!RemoveKeyPressEventCallback
  <2>2. InputTyped'
    BY <1>1, <2>1 DEF InputTyped, I!touchVars
  <2> QED BY <1>1, <2>1, <2>2, KeysRest, ScrollRests, TouchesRest, GesturesRest DEF IInv, I!touchVars
<1>4. CASE I!ForwardGestureEvent
  <2>1. UNCHANGED <<ignoring, view, I!keyVars, I!touchVars, I!gestureVars>>
    BY <1>4 DEF I!ForwardGestureEvent
  <2>2. scroll' \in Scrolls /\ I!ScrollsAreBracketed'
    BY <1>1, <1>4, ScrollsStep
  <2>3. InputTyped'
    BY <1>1, <2>1, <2>2 DEF InputTyped, I!keyVars, I!touchVars
  <2> QED BY <1>1, <2>1, <2>2, <2>3, KeysRest, TouchesRest, GesturesRest
          DEF IInv, I!keyVars, I!touchVars
<1>5. CASE I!SetTouchEventEmulationEnabled \/ I!SetIgnoreInputEvents
  <2>1. /\ emulator' \in BOOLEAN /\ ignoring' \in BOOLEAN
        /\ UNCHANGED <<view, I!keyVars, scroll, touches, unacked, I!gestureVars>>
    BY <1>1, <1>5 DEF I!SetTouchEventEmulationEnabled, I!SetIgnoreInputEvents, I!touchVars, InputTyped
  <2>2. InputTyped'
    BY <1>1, <2>1 DEF InputTyped, I!keyVars
  <2> QED BY <1>1, <2>1, <2>2, KeysRest, ScrollRests, TouchesRest, GesturesRest DEF IInv, I!keyVars
<1>6. CASE \/ I!ForwardTouchEventWithLatencyInfo \/ I!ForwardEmulatedTouchEvent
           \/ I!OnTouchEventAck
  <2>1. UNCHANGED <<ignoring, view, I!keyVars, scroll, emulator, I!gestureVars>>
    BY <1>6 DEF I!ForwardTouchEventWithLatencyInfo, I!ForwardEmulatedTouchEvent, I!OnTouchEventAck
  <2>2. touches' \in Seq(Touches) /\ TouchesKept'
    BY <1>1, <1>6, TouchesStep
  <2>3. InputTyped'
    BY <1>1, <2>1, <2>2 DEF InputTyped, I!keyVars
  <2> QED BY <1>1, <2>1, <2>2, <2>3, KeysRest, ScrollRests, GesturesRest DEF IInv, I!keyVars
<1>7. CASE \/ I!RendererQueuesSyntheticGesture \/ I!QueueSyntheticGesture \/ I!GesturePlayed
           \/ I!OnSyntheticGestureCompleted \/ I!SetView
  <2>1. /\ view' \in BOOLEAN
        /\ UNCHANGED <<ignoring, I!keyVars, scroll, I!touchVars>>
    BY <1>1, <1>7 DEF I!RendererQueuesSyntheticGesture, I!QueueSyntheticGesture, I!GesturePlayed,
                      I!OnSyntheticGestureCompleted, I!SetView, InputTyped
  <2>2. GesturesKept'
    BY <1>1, <1>7, GesturesStep
  <2>3. InputTyped'
    BY <1>1, <2>1 DEF InputTyped, I!keyVars, I!touchVars
  <2> QED BY <1>1, <2>1, <2>2, <2>3, KeysRest, ScrollRests, TouchesRest
          DEF IInv, I!keyVars, I!touchVars
<1> QED BY <1>2, <1>3, <1>4, <1>5, <1>6, <1>7 DEF I!Next

LEMMA RestInput == IInv /\ UNCHANGED inputVars => IInv'
<1> SUFFICES ASSUME IInv, UNCHANGED inputVars PROVE IInv'
  OBVIOUS
<1>1. UNCHANGED <<ignoring, view, keys, scroll, emulator, touches, unacked, I!gestureVars>>
  BY DEF inputVars, I!gestureVars
<1>2. InputTyped'
  BY <1>1 DEF IInv, InputTyped
<1> QED BY <1>1, <1>2, KeysRest, ScrollRests, TouchesRest, GesturesRest DEF IInv

LEMMA InputStays == Spec => []IInv
<1>1. Init => IInv
  BY InitInput DEF Init
<1>2. IInv /\ [Next]_vars => IInv'
  <2> SUFFICES ASSUME IInv, [Next]_vars PROVE IInv'
    OBVIOUS
  <2>1. CASE Input
    BY <2>1, NextInput DEF Input
  <2>2. CASE Navigation \/ Text \/ OfWidgets \/ Requests \/ UNCHANGED vars
    <3>1. UNCHANGED inputVars
      BY <2>2 DEF Navigation, Text, OfWidgets, Requests, vars
    <3> QED BY <3>1, RestInput
  <2> QED BY <2>1, <2>2 DEF Next
<1> QED BY <1>1, <1>2, PTL DEF Spec

(* Input reaches the page as the user, the emulator or the page made it, for *)
(* any number of touches, gestures and listeners: no character of a key the  *)
(* browser handled, no update outside of a scroll, each touch acked to whom  *)
(* it is of, and gestures answered in their order unless a view took some    *)
(* with it (ForwardKeyboardEvent, ForwardGestureEventWithLatencyInfo,        *)
(* OnTouchEventAck, OnSyntheticGestureCompleted).                            *)
THEOREM InputInOrder == Spec => []InputIsInOrder
<1>1. IInv => InputIsInOrder
  <2> SUFFICES ASSUME IInv PROVE InputIsInOrder
    OBVIOUS
  <2>1. InputTyped /\ KeysKept /\ I!ScrollsAreBracketed /\ TouchesKept /\ GesturesKept
    BY DEF IInv
  <2>2. I!Range(touches) \subseteq Touches
    BY <2>1 DEF InputTyped, I!Range
  <2>3. I!Range(callbacks) \cup lost \subseteq 1 .. MaxGestures
    <3>1. gestures \in 0 .. MaxGestures /\ callbacks \in Seq(Gestures) /\ lost \subseteq Gestures
      BY <2>1 DEF GesturesKept
    <3>2. Gestures \subseteq 1 .. MaxGestures
      <4>1. gestures \in Nat /\ gestures <= MaxGestures /\ MaxGestures \in Nat
        BY <3>1, PageAssumption DEF PageAssumption, I!InputAssumption
      <4> QED BY <4>1 DEF Gestures
    <3>3. I!Range(callbacks) \subseteq Gestures
      BY <3>1 DEF I!Range
    <3> QED BY <3>1, <3>2, <3>3
  <2>4. I!TypeOK
    BY <2>1, <2>2, <2>3 DEF I!TypeOK, InputTyped, Keys, Scrolls, Touches
  <2>5. I!TouchesAreAcked
    <3>1. \A X : I!Cardinality(X) = Cardinality(X)
      BY DEF I!Cardinality, Cardinality
    <3>2. {i \in DOMAIN touches : touches[i] = "native"} = Places(touches, {"native"})
      BY DEF Places
    <3> QED BY <2>1, <3>1, <3>2 DEF TouchesKept, Number, I!TouchesAreAcked
  <2> QED BY <2>1, <2>4, <2>5 DEF InputIsInOrder, I!InputIsInOrder, KeysKept, GesturesKept
<1> QED BY <1>1, InputStays, PTL

-----------------------------------------------------------------------------
(* FrameNavigation: what is true of a frame, of a data source and of what  *)
(* it says, in the middle of a step too.                                   *)

Most == kMaxSessionHistoryEntries

IsFrame(f) ==
  f = [pending |-> f.pending, swappedOut |-> f.swappedOut, offset |-> f.offset, length |-> f.length,
       page |-> f.page, nextPage |-> f.nextPage, current |-> f.current, suppress |-> f.suppress,
       opener |-> f.opener, prov |-> f.prov, doc |-> f.doc, said |-> f.said]

IsSource(src) ==
  src = [cause |-> src.cause, url |-> src.url, ctype |-> src.ctype, doc |-> src.doc,
         of |-> src.of, samePage |-> src.samePage]

\* A request that goes to an entry there is.
Aims(r) == r.id # 0 /\ ~ r.newEntry
Known(r, n) == Aims(r) => r.page \in Int /\ r.page < n /\ r.offset \in 0 .. Most - 1

\* A data source is of the request that caused it.
Serves(src, n) ==
  /\ IsSource(src) /\ src.url # "javascript:"
  /\ src.cause = src.of.id /\ (src.of.id # 0 => src.of.url # "javascript:")
  /\ Known(src.of, n)

Entry(e, n) == e.page \in Int /\ e.page < n /\ e.url # "javascript:"

True(m, n) ==
  /\ m.type = "DidCommitProvisionalLoad" => m.request = m.cause /\ Entry(m, n)
  /\ m.type = "UpdateState" => m.page = m.item

IsSequence(q) == \E S : q \in Seq(S)
AllTrue(q, n) == IsSequence(q) /\ \A i \in DOMAIN q : True(q[i], n)

\* No new entry.
Adds(m) == m.type = "DidCommitProvisionalLoad" /\ m.new
Quiet(q) == \A i \in DOMAIN q : ~ Adds(q[i])

Sound(f) ==
  /\ IsFrame(f) /\ f.swappedOut \in BOOLEAN /\ f.suppress \in BOOLEAN
  /\ f.offset \in -1 .. Most - 1 /\ f.length \in 0 .. Most
  /\ f.page \in Int /\ f.nextPage \in Int /\ f.page < f.nextPage
  /\ browserSide \/ f.current = 0 \/ f.page = f.current
  /\ IsSource(f.doc) /\ f.doc.url # "javascript:" /\ (f.prov = N!NoSource \/ Serves(f.prov, f.nextPage))
  /\ AllTrue(f.said, f.nextPage)

\* All but what is loading and what is said.
SamePlace(f, g) ==
  /\ g.swappedOut = f.swappedOut /\ g.offset = f.offset /\ g.length = f.length
  /\ g.page = f.page /\ g.nextPage = f.nextPage /\ g.current = f.current
  /\ g.suppress = f.suppress /\ g.doc = f.doc

LEMMA AppendTrue ==
  ASSUME NEW q, NEW m, NEW n, AllTrue(q, n), True(m, n)
  PROVE  /\ AllTrue(Append(q, m), n)
         /\ Quiet(q) /\ ~ Adds(m) => Quiet(Append(q, m))
<1>1. PICK S : q \in Seq(S)
  BY DEF AllTrue, IsSequence
<1> DEFINE X == S \cup {m}
<1>2. q \in Seq(X) /\ m \in X
  BY <1>1
<1> HIDE DEF X
<1>3. /\ Append(q, m) \in Seq(X) /\ DOMAIN Append(q, m) = 1 .. Len(q) + 1 /\ DOMAIN q = 1 .. Len(q)
      /\ Len(q) \in Nat /\ Append(q, m)[Len(q) + 1] = m
      /\ \A i \in DOMAIN q : Append(q, m)[i] = q[i]
  BY <1>2
<1>4. \A i \in DOMAIN Append(q, m) : i \in DOMAIN q \/ i = Len(q) + 1
  BY <1>3
<1>5. IsSequence(Append(q, m))
  BY <1>3 DEF IsSequence
<1>6. \A i \in DOMAIN Append(q, m) : True(Append(q, m)[i], n)
  BY <1>3, <1>4 DEF AllTrue
<1>7. ASSUME Quiet(q), ~ Adds(m) PROVE Quiet(Append(q, m))
  BY <1>3, <1>4, <1>7 DEF Quiet
<1> QED BY <1>5, <1>6, <1>7 DEF AllTrue

LEMMA TrueLater ==
  ASSUME NEW n \in Int, NEW m \in Int, n <= m
  PROVE  /\ \A x : True(x, n) => True(x, m)
         /\ \A q : AllTrue(q, n) => AllTrue(q, m)
         /\ \A x : Known(x, n) => Known(x, m)
         /\ \A src : Serves(src, n) => Serves(src, m)
         /\ \A e : Entry(e, n) => Entry(e, m)
<1>1. \A e : Entry(e, n) => Entry(e, m)
  BY DEF Entry
<1>2. \A x : Known(x, n) => Known(x, m)
  BY DEF Known
<1>3. \A x : True(x, n) => True(x, m)
  BY <1>1 DEF True
<1>4. \A q : AllTrue(q, n) => AllTrue(q, m)
  BY <1>3 DEF AllTrue
<1>5. \A src : Serves(src, n) => Serves(src, m)
  BY <1>2 DEF Serves
<1> QED BY <1>1, <1>2, <1>3, <1>4, <1>5

LEMMA SendKeeps ==
  ASSUME NEW f, NEW m, Sound(f), True(m, f.nextPage)
  PROVE  LET g == N!Send(f, m)
         IN  /\ Sound(g) /\ SamePlace(f, g) /\ g.prov = f.prov /\ g.pending = f.pending
             /\ Quiet(f.said) /\ ~ Adds(m) => Quiet(g.said)
<1> DEFINE g == N!Send(f, m)
<1>1. CASE g = f
  BY <1>1 DEF SamePlace
<1>2. CASE g = [f EXCEPT !.said = Append(@, m)]
  <2>1. g = [f EXCEPT !.said = Append(f.said, m)]
    BY <1>2
  <2>2. AllTrue(Append(f.said, m), f.nextPage)
        /\ (Quiet(f.said) /\ ~ Adds(m) => Quiet(Append(f.said, m)))
    BY AppendTrue DEF Sound
  <2> DEFINE s == Append(f.said, m)
  <2> HIDE DEF s, g
  <2>3. IsFrame(g) /\ g.said = s /\ g.prov = f.prov /\ g.pending = f.pending /\ SamePlace(f, g)
    BY <2>1 DEF Sound, IsFrame, SamePlace, s
  <2> QED BY <2>2, <2>3 DEF Sound, SamePlace, s, g
<1>3. g = f \/ g = [f EXCEPT !.said = Append(@, m)]
  BY DEF N!Send
<1> QED BY <1>1, <1>2, <1>3

LEMMA SayKeeps ==
  ASSUME NEW f, NEW type, Sound(f), type # "DidCommitProvisionalLoad", type # "UpdateState"
  PROVE  LET g == N!Say(f, type)
         IN  /\ Sound(g) /\ SamePlace(f, g) /\ g.prov = f.prov /\ g.pending = f.pending
             /\ Quiet(f.said) => Quiet(g.said)
<1>1. True([type |-> type], f.nextPage) /\ ~ Adds([type |-> type])
  BY DEF True, Adds
<1> QED BY <1>1, SendKeeps DEF N!Say

LEMMA UpdateStateKeeps ==
  ASSUME NEW f, Sound(f), browserSide \in BOOLEAN
  PROVE  LET g == N!SendUpdateState(f)
         IN  /\ Sound(g) /\ SamePlace(f, g) /\ g.prov = f.prov /\ g.pending = f.pending
             /\ Quiet(f.said) => Quiet(g.said)
<1> DEFINE m == [type |-> "UpdateState", page |-> IF browserSide THEN f.current ELSE f.page,
                 item |-> f.current]
<1>1. CASE f.current = 0
  BY <1>1 DEF N!SendUpdateState, SamePlace
<1>2. CASE f.current # 0
  <2>1. N!SendUpdateState(f) = N!Send(f, m)
    BY <1>2 DEF N!SendUpdateState
  <2>2. m.page = m.item
    BY <1>2 DEF Sound
  <2>3. True(m, f.nextPage) /\ ~ Adds(m)
    BY <2>2 DEF True, Adds
  <2> HIDE DEF m
  <2> QED BY <2>1, <2>3, SendKeeps
<1> QED BY <1>1, <1>2

\* The view's place is moved by whole steps, and stays within the history it counts.
LEMMA MoveKeeps ==
  ASSUME NEW f, NEW src, Sound(f), Serves(src, f.nextPage), Most \in Nat \ {0},
         NEW c, c = IF src.ctype = "Standard" THEN f.nextPage
                    ELSE IF src.of.id # 0 /\ ~ src.of.newEntry THEN src.of.page ELSE f.current,
         browserSide \in BOOLEAN
  PROVE  LET g == N!MoveInHistory([f EXCEPT !.current = c], src)
         IN  /\ Sound(g) /\ g.prov = f.prov /\ g.pending = f.pending /\ g.said = f.said
             /\ g.doc = f.doc /\ g.swappedOut = f.swappedOut /\ f.nextPage <= g.nextPage
             /\ src.ctype = "Standard" => g.page < g.nextPage /\ f.nextPage < g.nextPage
             /\ f.offset < f.length /\ (Aims(src.of) => src.of.offset < f.length) => g.offset < g.length
             /\ src.ctype # "Standard" => g.length = f.length
<1> DEFINE e == [f EXCEPT !.current = c]
<1>1. /\ IsFrame(e) /\ e.current = c /\ e.offset = f.offset /\ e.length = f.length /\ e.page = f.page
      /\ e.nextPage = f.nextPage /\ e.prov = f.prov /\ e.pending = f.pending /\ e.said = f.said
      /\ e.doc = f.doc /\ e.swappedOut = f.swappedOut /\ e.suppress = f.suppress
  BY DEF Sound, IsFrame
<1> HIDE DEF e
<1>2. CASE src.ctype = "Standard"
  <2> DEFINE h == [e EXCEPT !.page = e.nextPage, !.nextPage = e.nextPage + 1]
             o == IF h.offset + 1 >= Most THEN Most - 1 ELSE h.offset + 1
             g == N!Advance(h, src)
  <2>0. h = [e EXCEPT !.page = f.nextPage, !.nextPage = f.nextPage + 1]
    BY <1>1
  <2> HIDE DEF h
  <2>1. /\ IsFrame(h) /\ h.current = c /\ h.offset = f.offset /\ h.length = f.length
        /\ h.page = f.nextPage /\ h.nextPage = f.nextPage + 1 /\ h.prov = f.prov
        /\ h.pending = f.pending /\ h.said = f.said /\ h.doc = f.doc
        /\ h.swappedOut = f.swappedOut /\ h.suppress = f.suppress
    BY <1>1, <2>0 DEF IsFrame
  <2>2. N!MoveInHistory(e, src) = g
    BY <1>2 DEF N!MoveInHistory, h
  <2>3. g = h \/ g = [h EXCEPT !.offset = o, !.length = o + 1]
    BY DEF N!Advance, Most
  <2>4. o \in 0 .. Most - 1 /\ o + 1 \in 0 .. Most /\ o < o + 1
    BY <2>1 DEF Sound
  <2> HIDE DEF o, g
  <2>5. /\ IsFrame(g) /\ g.current = c /\ g.page = f.nextPage /\ g.nextPage = f.nextPage + 1
        /\ g.prov = f.prov /\ g.pending = f.pending /\ g.said = f.said /\ g.doc = f.doc
        /\ g.swappedOut = f.swappedOut /\ g.suppress = f.suppress
        /\ (g.offset = f.offset /\ g.length = f.length) \/ (g.offset = o /\ g.length = o + 1)
    <3>1. CASE g = h
      BY <2>1, <3>1
    <3>2. CASE g = [h EXCEPT !.offset = o, !.length = o + 1]
      <4>1. /\ IsFrame(g) /\ g.current = h.current /\ g.page = h.page /\ g.nextPage = h.nextPage
            /\ g.offset = o /\ g.length = o + 1
        BY <2>1, <3>2 DEF IsFrame
      <4>2. /\ g.prov = h.prov /\ g.pending = h.pending /\ g.said = h.said /\ g.doc = h.doc
            /\ g.swappedOut = h.swappedOut /\ g.suppress = h.suppress
        BY <2>1, <3>2 DEF IsFrame
      <4> QED BY <2>1, <4>1, <4>2
    <3> QED BY <2>3, <3>1, <3>2
  <2>6. f.nextPage \in Int /\ f.nextPage + 1 \in Int /\ f.nextPage <= f.nextPage + 1
    BY DEF Sound
  <2>7. AllTrue(f.said, f.nextPage + 1) /\ (f.prov = N!NoSource \/ Serves(f.prov, f.nextPage + 1))
    BY <2>6, TrueLater DEF Sound
  <2>8. c = f.nextPage
    BY <1>2
  <2>9. Sound(g)
    BY <2>4, <2>5, <2>6, <2>7, <2>8 DEF Sound
  <2> QED BY <1>2, <2>2, <2>4, <2>5, <2>6, <2>9 DEF e
<1>3. CASE src.ctype # "Standard" /\ Aims(src.of)
  <2> DEFINE g == [e EXCEPT !.page = src.of.page, !.offset = src.of.offset]
  <2>1. N!MoveInHistory(e, src) = g
    BY <1>3 DEF N!MoveInHistory, Aims
  <2>0. g = [e EXCEPT !.page = src.of.page, !.offset = src.of.offset]
    OBVIOUS
  <2> HIDE DEF g
  <2>2. /\ IsFrame(g) /\ g.current = c /\ g.offset = src.of.offset /\ g.length = f.length
        /\ g.page = src.of.page /\ g.nextPage = f.nextPage /\ g.prov = f.prov
        /\ g.pending = f.pending /\ g.said = f.said /\ g.doc = f.doc
        /\ g.swappedOut = f.swappedOut /\ g.suppress = f.suppress
    BY <1>1, <2>0 DEF IsFrame
  <2>3. c = src.of.page
    BY <1>3 DEF Aims
  <2>4. src.of.page \in Int /\ src.of.page < f.nextPage /\ src.of.offset \in 0 .. Most - 1
    BY <1>3 DEF Serves, Known
  <2>5. Sound(g)
    BY <2>2, <2>3, <2>4 DEF Sound
  <2> QED BY <1>3, <2>1, <2>2, <2>5 DEF e, Sound
<1>4. CASE src.ctype # "Standard" /\ ~ Aims(src.of)
  <2>1. N!MoveInHistory(e, src) = e
    BY <1>4 DEF N!MoveInHistory, Aims
  <2>2. c = f.current
    BY <1>4 DEF Aims
  <2>3. Sound(e) /\ f.nextPage \in Int
    BY <1>1, <2>2 DEF Sound
  <2>4. f.nextPage <= e.nextPage
    BY <1>1, <2>3
  <2> QED BY <1>1, <1>4, <2>1, <2>3, <2>4 DEF e
<1> QED BY <1>2, <1>3, <1>4

LEMMA CommitKeeps ==
  ASSUME NEW f, NEW src, Sound(f), Serves(src, f.nextPage), Most \in Nat \ {0},
         browserSide \in BOOLEAN
  PROVE  LET g == N!didCommitProvisionalLoad(f, src)
         IN  /\ Sound(g) /\ g.prov = f.prov /\ g.pending = f.pending
             /\ g.doc.url = src.url /\ g.swappedOut = f.swappedOut /\ f.nextPage <= g.nextPage
             /\ f.offset < f.length /\ (Aims(src.of) => src.of.offset < f.length) => g.offset < g.length
             /\ src.ctype # "Standard" => g.length = f.length
             /\ src.ctype # "Standard" /\ Quiet(f.said) => Quiet(g.said)
<1> DEFINE s == IF src.doc = 0 THEN [src EXCEPT !.doc = f.nextPage] ELSE src
           n == f.nextPage
           paint == IF s.samePage THEN f
                    ELSE [f EXCEPT !.said = Append(@, [type |-> "DidFirstPaintAfterLoad"])]
           heard == N!SendUpdateState(paint)
           c == N!ItemFor(paint, s)
           moved == N!MoveInHistory([heard EXCEPT !.current = c], s)
           named == N!Send(moved, [type |-> "DidAssignPageId", page |-> moved.page])
           shown1 == [named EXCEPT !.doc = s]
           m == [type |-> "DidCommitProvisionalLoad", cause |-> s.cause, request |-> s.of.id,
                 page |-> shown1.page, url |-> s.url, doc |-> s.doc,
                 new |-> s.ctype = "Standard", replace |-> s.of.id # 0 /\ s.of.replace]
           sent1 == N!Send(shown1, m)
           g == N!Say(sent1, "UpdateEncoding")
<1>1. /\ IsSource(s) /\ s.cause = src.cause /\ s.url = src.url /\ s.ctype = src.ctype /\ s.of = src.of
      /\ Serves(s, n)
  <2>1. IsSource(s) /\ s.cause = src.cause /\ s.url = src.url /\ s.ctype = src.ctype /\ s.of = src.of
    BY DEF Serves, IsSource
  <2> HIDE DEF s
  <2> QED BY <2>1 DEF Serves
<1>2. N!didCommitProvisionalLoad(f, src) = g
  <2>1. N!Leave(paint, s) = [heard EXCEPT !.current = N!ItemFor(paint, s)]
    BY DEF N!Leave
  <2>2. N!SendDidCommitProvisionalLoad(shown1, s) = sent1
    BY DEF N!SendDidCommitProvisionalLoad
  <2> QED BY <2>1, <2>2 DEF N!didCommitProvisionalLoad
<1> HIDE DEF s
<1>3. /\ Sound(paint) /\ SamePlace(f, paint) /\ paint.prov = f.prov /\ paint.pending = f.pending
      /\ Quiet(f.said) => Quiet(paint.said)
  <2>1. CASE s.samePage
    BY <2>1 DEF SamePlace
  <2>2. CASE ~ s.samePage
    <3> DEFINE p == [type |-> "DidFirstPaintAfterLoad"]
    <3>1. True(p, n) /\ ~ Adds(p)
      BY DEF True, Adds
    <3>2. AllTrue(Append(f.said, p), n) /\ (Quiet(f.said) => Quiet(Append(f.said, p)))
      BY <3>1, AppendTrue DEF Sound
    <3> DEFINE q == Append(f.said, p)
    <3>3. paint = [f EXCEPT !.said = q]
      BY <2>2
    <3> HIDE DEF paint, q
    <3>4. IsFrame(paint) /\ paint.said = q /\ SamePlace(f, paint) /\ paint.prov = f.prov
          /\ paint.pending = f.pending
      BY <3>3 DEF Sound, IsFrame, SamePlace
    <3> QED BY <3>2, <3>4 DEF Sound, SamePlace, q
  <2> QED BY <2>1, <2>2
<1> HIDE DEF paint
<1>4. /\ Sound(heard) /\ SamePlace(paint, heard) /\ heard.prov = f.prov /\ heard.pending = f.pending
      /\ Quiet(f.said) => Quiet(heard.said)
  BY <1>3, UpdateStateKeeps
<1> HIDE DEF heard
<1>5. heard.offset = f.offset /\ heard.length = f.length /\ heard.nextPage = n /\ heard.swappedOut = f.swappedOut
  BY <1>3, <1>4 DEF SamePlace
<1>6. c = IF s.ctype = "Standard" THEN heard.nextPage
          ELSE IF s.of.id # 0 /\ ~ s.of.newEntry THEN s.of.page ELSE heard.current
  BY <1>4 DEF N!ItemFor, SamePlace
<1> HIDE DEF c
<1>7. /\ Sound(moved) /\ moved.prov = heard.prov /\ moved.pending = heard.pending /\ moved.said = heard.said
      /\ moved.swappedOut = heard.swappedOut /\ heard.nextPage <= moved.nextPage
      /\ heard.offset < heard.length /\ (Aims(s.of) => s.of.offset < heard.length)
            => moved.offset < moved.length
      /\ s.ctype # "Standard" => moved.length = heard.length
  BY <1>1, <1>4, <1>5, <1>6, MoveKeeps
<1> HIDE DEF moved
<1>8. /\ Sound(named) /\ SamePlace(moved, named) /\ named.prov = f.prov /\ named.pending = f.pending
      /\ Quiet(f.said) => Quiet(named.said)
  <2>1. True([type |-> "DidAssignPageId", page |-> moved.page], moved.nextPage)
        /\ ~ Adds([type |-> "DidAssignPageId", page |-> moved.page])
    BY DEF True, Adds
  <2> QED BY <1>4, <1>7, <2>1, SendKeeps
<1> HIDE DEF named
<1>9. /\ Sound(shown1) /\ shown1.prov = f.prov /\ shown1.pending = f.pending /\ shown1.doc = s
      /\ shown1.said = named.said /\ shown1.offset = moved.offset /\ shown1.length = moved.length
      /\ shown1.page = moved.page /\ shown1.nextPage = moved.nextPage
      /\ shown1.swappedOut = f.swappedOut
  <2>1. /\ IsFrame(shown1) /\ shown1.doc = s /\ shown1.prov = named.prov
        /\ shown1.pending = named.pending /\ shown1.said = named.said
        /\ shown1.offset = named.offset /\ shown1.length = named.length /\ shown1.page = named.page
        /\ shown1.nextPage = named.nextPage /\ shown1.current = named.current
        /\ shown1.suppress = named.suppress /\ shown1.swappedOut = named.swappedOut
    BY <1>8 DEF Sound, IsFrame
  <2> HIDE DEF shown1
  <2>2. Sound(shown1)
    BY <1>1, <1>8, <2>1 DEF Sound, Serves
  <2> QED BY <1>5, <1>7, <1>8, <2>1, <2>2 DEF SamePlace
<1> HIDE DEF shown1
<1>10. True(m, shown1.nextPage) /\ (s.ctype # "Standard" => ~ Adds(m))
  <2>1. m.type = "DidCommitProvisionalLoad" /\ m.request = m.cause /\ m.url = s.url
        /\ m.page = shown1.page /\ m.new = (s.ctype = "Standard")
    BY <1>1 DEF Serves
  <2> HIDE DEF m
  <2> QED BY <1>1, <1>9, <2>1 DEF True, Adds, Entry, Sound, Serves
<1> HIDE DEF m
<1>11. /\ Sound(sent1) /\ SamePlace(shown1, sent1) /\ sent1.prov = f.prov /\ sent1.pending = f.pending
       /\ s.ctype # "Standard" /\ Quiet(f.said) => Quiet(sent1.said)
  BY <1>8, <1>9, <1>10, SendKeeps
<1> HIDE DEF sent1
<1>12. /\ Sound(g) /\ SamePlace(sent1, g) /\ g.prov = f.prov /\ g.pending = f.pending
       /\ s.ctype # "Standard" /\ Quiet(f.said) => Quiet(g.said)
  BY <1>11, SayKeeps
<1> HIDE DEF g
<1>13. g.doc = s /\ g.offset = moved.offset /\ g.length = moved.length /\ g.nextPage = moved.nextPage
       /\ g.swappedOut = f.swappedOut
  BY <1>9, <1>11, <1>12 DEF SamePlace
<1> QED BY <1>1, <1>2, <1>5, <1>7, <1>12, <1>13

\* What a request is for the source it leads to.
Given(f) == N!NavigationStateOf(f.pending)

LEMMA GivenIs ==
  ASSUME NEW f
  PROVE  /\ Given(f).id # 0 => Given(f).url # "javascript:" /\ Given(f) = f.pending
         /\ f.pending = N!NoRequest => Given(f) = N!NoRequest
         /\ N!NoRequest.id = 0 /\ \A n : Known(N!NoRequest, n)
BY DEF Given, N!NavigationStateOf, N!IsBrowserInitiated, N!NoRequest, Known, Aims

LEMMA WithinPageKeeps ==
  ASSUME NEW f, NEW cause, NEW ctype, Sound(f), cause = Given(f).id, Known(Given(f), f.nextPage),
         Most \in Nat \ {0}, browserSide \in BOOLEAN
  PROVE  LET g == N!didNavigateWithinPage(f, cause, ctype)
         IN  /\ Sound(g) /\ g.prov = f.prov /\ g.pending = N!NoRequest
             /\ g.doc.url = f.doc.url /\ g.swappedOut = f.swappedOut /\ f.nextPage <= g.nextPage
             /\ f.offset < f.length /\ (Aims(Given(f)) => Given(f).offset < f.length) => g.offset < g.length
             /\ ctype # "Standard" => g.length = f.length
             /\ ctype # "Standard" /\ Quiet(f.said) => Quiet(g.said)
<1> DEFINE src == [f.doc EXCEPT !.cause = cause, !.ctype = ctype, !.samePage = TRUE, !.of = Given(f)]
           e == N!UpdateNavigationState(f)
<1>1. N!didNavigateWithinPage(f, cause, ctype) = N!didCommitProvisionalLoad(e, src)
  BY DEF N!didNavigateWithinPage, Given
<1>2. src = [f.doc EXCEPT !.cause = cause, !.ctype = ctype, !.samePage = TRUE, !.of = Given(f)]
  OBVIOUS
<1>3. e = [f EXCEPT !.pending = N!NoRequest]
  BY DEF N!UpdateNavigationState
<1> HIDE DEF src, e
<1>4. IsSource(src) /\ src.cause = cause /\ src.ctype = ctype /\ src.of = Given(f) /\ src.url = f.doc.url
  BY <1>2 DEF Sound, IsSource
<1>5. /\ IsFrame(e) /\ f.doc.url # "javascript:" /\ e.pending = N!NoRequest /\ e.prov = f.prov /\ e.doc = f.doc /\ e.said = f.said
      /\ e.offset = f.offset /\ e.length = f.length /\ e.page = f.page /\ e.nextPage = f.nextPage
      /\ e.current = f.current /\ e.suppress = f.suppress /\ e.swappedOut = f.swappedOut
  BY <1>3 DEF Sound, IsFrame
<1>6. Sound(e)
  BY <1>5 DEF Sound
<1>7. Serves(src, e.nextPage)
  BY <1>4, <1>5, GivenIs DEF Serves
<1> QED BY <1>1, <1>4, <1>5, <1>6, <1>7, CommitKeeps

-----------------------------------------------------------------------------
(* Loads.                                                                  *)

Starts(f, src) == [src EXCEPT !.of = Given(f)]

LEMMA StartsIs ==
  ASSUME NEW f, NEW src, IsSource(src), src.url # "javascript:", src.cause = Given(f).id,
         Known(Given(f), f.nextPage)
  PROVE  /\ Serves(Starts(f, src), f.nextPage) /\ Starts(f, src).of = Given(f)
         /\ Starts(f, src).url = src.url /\ Starts(f, src).ctype = src.ctype
<1> DEFINE s == Starts(f, src)
<1>1. s = [src EXCEPT !.of = Given(f)]
  BY DEF Starts
<1> HIDE DEF s
<1>2. IsSource(s) /\ s.cause = src.cause /\ s.url = src.url /\ s.of = Given(f) /\ s.ctype = src.ctype
  BY <1>1 DEF IsSource
<1> QED BY <1>2, GivenIs DEF Serves, s

LEMMA StartLoadKeeps ==
  ASSUME NEW f, NEW src, Sound(f), IsSource(src), src.url # "javascript:",
         src.cause = Given(f).id, Known(Given(f), f.nextPage)
  PROVE  LET g == N!StartLoad(f, src)
         IN  /\ Sound(g) /\ SamePlace(f, g) /\ g.pending = N!NoRequest /\ g.prov = Starts(f, src)
             /\ Quiet(f.said) => Quiet(g.said)
<1> DEFINE none == [f EXCEPT !.prov = N!NoSource]
           stopped == IF f.prov = N!NoSource THEN f ELSE N!SendFailedProvisionalLoad(none)
           e == N!didCreateDataSource(stopped, src)
           g == N!didStartProvisionalLoad(e)
<1>1. N!StartLoad(f, src) = g
  BY DEF N!StartLoad
<1>2. /\ Sound(none) /\ SamePlace(f, none) /\ none.pending = f.pending /\ none.said = f.said
  <2>1. none = [f EXCEPT !.prov = N!NoSource]
    OBVIOUS
  <2> HIDE DEF none
  <2>2. /\ IsFrame(none) /\ none.pending = f.pending /\ none.prov = N!NoSource /\ none.said = f.said
        /\ SamePlace(f, none)
    BY <2>1 DEF Sound, IsFrame, SamePlace
  <2> QED BY <2>2 DEF Sound, SamePlace
<1> HIDE DEF none
<1>3. /\ Sound(stopped) /\ SamePlace(f, stopped) /\ stopped.pending = f.pending
      /\ Quiet(f.said) => Quiet(stopped.said)
  <2>1. CASE f.prov = N!NoSource
    BY <2>1 DEF SamePlace
  <2>2. CASE f.prov # N!NoSource
    <3>1. stopped = N!Say(none, "DidFailProvisionalLoadWithError")
      BY <2>2 DEF N!SendFailedProvisionalLoad
    <3> HIDE DEF stopped
    <3> QED BY <1>2, <3>1, SayKeeps DEF SamePlace
  <2> QED BY <2>1, <2>2
<1> HIDE DEF stopped
<1>4. /\ Sound(e) /\ SamePlace(f, e) /\ e.pending = N!NoRequest /\ e.prov = Starts(f, src)
      /\ Quiet(f.said) => Quiet(e.said)
  <2>1. e = [[stopped EXCEPT !.prov = Starts(f, src)] EXCEPT !.pending = N!NoRequest]
    BY <1>3 DEF N!didCreateDataSource, N!UpdateNavigationState, Starts, Given
  <2> HIDE DEF e
  <2>2. IsFrame(stopped)
    BY <1>3 DEF Sound
  <2>3. /\ IsFrame(e) /\ e.pending = N!NoRequest /\ e.prov = Starts(f, src) /\ e.said = stopped.said
        /\ SamePlace(stopped, e)
    BY <2>1, <2>2 DEF IsFrame, SamePlace
  <2>4. Serves(e.prov, f.nextPage)
    BY <2>3, StartsIs
  <2> QED BY <1>3, <2>3, <2>4 DEF Sound, SamePlace
<1> HIDE DEF e
<1>5. g = N!Say(e, "DidStartProvisionalLoad")
  BY DEF N!didStartProvisionalLoad
<1> HIDE DEF g
<1> QED BY <1>1, <1>4, <1>5, SayKeeps DEF SamePlace

\* A load either begins, or the frame asks another process and goes on as it was.
LEMMA LoadKeeps ==
  ASSUME NEW f, NEW src, NEW scripted, Sound(f), IsSource(src),
         src.url # "javascript:" => src.cause = Given(f).id, Known(Given(f), f.nextPage)
  PROVE  LET g == N!Load(f, src, scripted)
         IN  /\ Sound(g) /\ SamePlace(f, g) /\ (Quiet(f.said) => Quiet(g.said))
             /\ \/ g.prov = f.prov /\ g.pending = f.pending
                   /\ ~ (f.swappedOut /\ src.url = "swappedout:")
                   /\ (~ f.swappedOut /\ src.url # "javascript:" => ~ N!IsBrowserInitiated(f.pending))
                \/ src.url # "javascript:" /\ g.prov = Starts(f, src) /\ g.pending = N!NoRequest
                   /\ ~ (f.swappedOut /\ src.url # "swappedout:")
<1> DEFINE content == ~ N!IsBrowserInitiated(f.pending)
           policy == N!decidePolicyForNavigation(f, src, content, scripted)
           g == N!Load(f, src, scripted)
<1>1. /\ policy \in {"open", "begin", "load"}
      /\ f.swappedOut /\ src.url = "swappedout:" => policy = "load"
      /\ f.swappedOut /\ src.url # "swappedout:" => policy = "open"
      /\ ~ f.swappedOut /\ ~ content => policy = "load"
  BY DEF N!decidePolicyForNavigation
<1>2. CASE policy = "open"
  <2> DEFINE m == [type |-> "OpenURL", replace |->
                     IF N!IsBrowserInitiated(f.pending) THEN f.pending.replace
                     ELSE src.ctype = "Inert" /\ f.length > 0]
  <2>1. g = N!Send(f, m)
    BY <1>2 DEF N!Load, N!OpenURL
  <2>2. True(m, f.nextPage) /\ ~ Adds(m)
    BY DEF True, Adds
  <2> HIDE DEF m, g, policy
  <2>3. ~ (f.swappedOut /\ src.url = "swappedout:") /\ (~ f.swappedOut => content)
    BY <1>1, <1>2
  <2> HIDE DEF content
  <2>4. /\ Sound(g) /\ SamePlace(f, g) /\ g.prov = f.prov /\ g.pending = f.pending
        /\ Quiet(f.said) => Quiet(g.said)
    BY <2>1, <2>2, SendKeeps
  <2> QED BY <2>3, <2>4 DEF g, content
<1>3. CASE policy = "begin"
  <2> DEFINE m == [type |-> "BeginNavigation", replace |-> f.length > 0 /\ src.ctype = "Inert"]
  <2>1. g = N!Send(f, m)
    BY <1>3 DEF N!Load, N!BeginNavigation
  <2>2. True(m, f.nextPage) /\ ~ Adds(m)
    BY DEF True, Adds
  <2> HIDE DEF m, g, policy
  <2>3. ~ (f.swappedOut /\ src.url = "swappedout:") /\ (~ f.swappedOut => content)
    BY <1>1, <1>3
  <2> HIDE DEF content
  <2>4. /\ Sound(g) /\ SamePlace(f, g) /\ g.prov = f.prov /\ g.pending = f.pending
        /\ Quiet(f.said) => Quiet(g.said)
    BY <2>1, <2>2, SendKeeps
  <2> QED BY <2>3, <2>4 DEF g, content
<1>4. CASE policy = "load" /\ src.url = "javascript:"
  <2>1. g = f
    BY <1>4 DEF N!Load
  <2> QED BY <1>4, <2>1 DEF SamePlace
<1>5. CASE policy = "load" /\ src.url # "javascript:"
  <2>1. g = N!StartLoad(f, src)
    BY <1>5 DEF N!Load
  <2>2. ~ (f.swappedOut /\ src.url # "swappedout:")
    BY <1>1, <1>5
  <2> HIDE DEF g, policy
  <2>3. /\ Sound(g) /\ SamePlace(f, g) /\ g.pending = N!NoRequest /\ g.prov = Starts(f, src)
        /\ Quiet(f.said) => Quiet(g.said)
    BY <1>5, <2>1, StartLoadKeeps
  <2> QED BY <1>5, <2>2, <2>3 DEF g
<1> QED BY <1>1, <1>2, <1>3, <1>4, <1>5

\* An error page takes the place of what failed, and is of the same request.
LEMMA FailKeeps ==
  ASSUME NEW f, NEW error, error \in {"aborted", "network"}, Sound(f), f.prov # N!NoSource,
         f.pending = N!NoRequest
  PROVE  LET g == N!didFailProvisionalLoad(f, error)
         IN  /\ Sound(g) /\ SamePlace(f, g) /\ (Quiet(f.said) => Quiet(g.said))
             /\ g.pending = N!NoRequest
             /\ error = "aborted" => g.prov = N!NoSource
             /\ g.prov = N!NoSource \/ g.prov.of = N!NoRequest \/ g.prov.of = f.prov.of
<1> DEFINE src == f.prov
           none == [f EXCEPT !.prov = N!NoSource]
           heard == N!SendFailedProvisionalLoad(none)
           back == N!Resumed(heard, src)
           s == N!Wanted(src.cause, "error", IF src.ctype # "Standard" THEN "Inert" ELSE "Standard",
                         IF src.ctype # "Standard" THEN back.doc.doc ELSE 0)
           g == N!didFailProvisionalLoad(f, error)
<1>1. g = IF error = "aborted" THEN heard ELSE N!StartLoad(back, s)
  BY DEF N!didFailProvisionalLoad, N!ShouldDisplayErrorPage, N!LoadNavigationErrorPage
<1> HIDE DEF g
<1>2. /\ Sound(none) /\ SamePlace(f, none) /\ none.pending = f.pending /\ none.said = f.said
      /\ none.prov = N!NoSource
  <2>1. none = [f EXCEPT !.prov = N!NoSource]
    OBVIOUS
  <2> HIDE DEF none
  <2>2. /\ IsFrame(none) /\ none.pending = f.pending /\ none.prov = N!NoSource /\ none.said = f.said
        /\ SamePlace(f, none)
    BY <2>1 DEF Sound, IsFrame, SamePlace
  <2> QED BY <2>2 DEF Sound, SamePlace
<1> HIDE DEF none
<1>3. /\ Sound(heard) /\ SamePlace(f, heard) /\ heard.pending = N!NoRequest /\ heard.prov = N!NoSource
      /\ Quiet(f.said) => Quiet(heard.said)
  <2>1. heard = N!Say(none, "DidFailProvisionalLoadWithError")
    BY DEF N!SendFailedProvisionalLoad
  <2> HIDE DEF heard
  <2> QED BY <1>2, <2>1, SayKeeps DEF SamePlace
<1> HIDE DEF heard
<1>4. CASE error = "aborted"
  BY <1>1, <1>3, <1>4 DEF g
<1>5. CASE error = "network"
  <2>1. Serves(src, f.nextPage)
    BY DEF Sound
  <2>2. /\ Sound(back) /\ SamePlace(f, back) /\ (Quiet(f.said) => Quiet(back.said))
        /\ Given(back) = IF src.of.id = 0 THEN N!NoRequest ELSE src.of
    <3>1. CASE src.of.id = 0
      <4>1. back = heard
        BY <3>1 DEF N!Resumed
      <4> QED BY <1>3, <3>1, <4>1, GivenIs
    <3>2. CASE src.of.id # 0
      <4>1. back = [heard EXCEPT !.pending = src.of]
        BY <3>2 DEF N!Resumed
      <4> HIDE DEF back
      <4>2. /\ IsFrame(back) /\ back.pending = src.of /\ back.prov = heard.prov /\ back.said = heard.said
            /\ SamePlace(heard, back)
        BY <1>3, <4>1 DEF Sound, IsFrame, SamePlace
      <4>3. Given(back) = src.of
        BY <2>1, <3>2, <4>2 DEF Given, N!NavigationStateOf, N!IsBrowserInitiated, Serves
      <4>4. Sound(back)
        BY <1>3, <4>2 DEF Sound, SamePlace
      <4> QED BY <1>3, <3>2, <4>2, <4>3, <4>4 DEF SamePlace
    <3> QED BY <3>1, <3>2
  <2>3. IsSource(s) /\ s.cause = src.cause /\ s.url = "error"
    BY DEF N!Wanted, IsSource
  <2>4. s.cause = Given(back).id
    BY <2>1, <2>2, <2>3, GivenIs DEF Serves
  <2>5. Known(Given(back), back.nextPage)
    BY <2>1, <2>2, GivenIs DEF Serves, SamePlace
  <2>6. g = N!StartLoad(back, s)
    BY <1>1, <1>5
  <2> HIDE DEF back, s
  <2>7. /\ Sound(g) /\ SamePlace(back, g) /\ g.pending = N!NoRequest /\ g.prov = Starts(back, s)
        /\ Quiet(back.said) => Quiet(g.said)
    BY <2>2, <2>3, <2>4, <2>5, <2>6, StartLoadKeeps
  <2>8. g.prov.of = Given(back)
    BY <2>2, <2>3, <2>4, <2>5, <2>7, StartsIs
  <2> QED BY <1>5, <2>2, <2>7, <2>8 DEF g, SamePlace
<1> QED BY <1>4, <1>5

-----------------------------------------------------------------------------
(* Requests of the browser.                                                *)

Sensible(r, n) ==
  /\ r.id \in Nat \ {0} /\ (r.newEntry <=> r.kind = "new") /\ Known(r, n)
  /\ ~ r.newEntry => r.url # "javascript:" /\ r.offset < r.curLength
  /\ r.curOffset \in -1 .. Most - 1 /\ r.curLength \in 0 .. Most /\ r.curOffset < r.curLength

\* The frame as it is when a request has reached it.
Ready(f, r) == [N!PrepareRenderViewForNavigation(f, r) EXCEPT !.pending = r]

LEMMA ReadyIs ==
  ASSUME NEW f, NEW r, Sound(f), Sensible(r, f.nextPage)
  PROVE  LET g == Ready(f, r)
         IN  /\ Sound(g) /\ g.pending = r /\ ~ g.swappedOut /\ g.offset = r.curOffset
             /\ g.length = r.curLength /\ g.prov = f.prov /\ g.said = f.said /\ g.doc = f.doc
             /\ g.nextPage = f.nextPage
             /\ Given(g) = IF r.url = "javascript:" THEN N!NoRequest ELSE r
             /\ Known(Given(g), g.nextPage) /\ (r.url # "javascript:" => r.id = Given(g).id)
<1> DEFINE g == Ready(f, r)
<1>1. g = [[f EXCEPT !.offset = r.curOffset, !.length = r.curLength, !.swappedOut = FALSE]
           EXCEPT !.pending = r]
  BY DEF Ready, N!PrepareRenderViewForNavigation
<1> HIDE DEF g
<1>2. /\ IsFrame(g) /\ g.pending = r /\ ~ g.swappedOut /\ g.offset = r.curOffset
      /\ g.length = r.curLength /\ g.prov = f.prov /\ g.said = f.said /\ g.doc = f.doc
      /\ g.nextPage = f.nextPage /\ g.page = f.page /\ g.current = f.current
      /\ g.suppress = f.suppress /\ g.swappedOut \in BOOLEAN
  BY <1>1 DEF Sound, IsFrame
<1>3. Sound(g)
  BY <1>2 DEF Sound, Sensible
<1>4. Given(g) = IF r.url = "javascript:" THEN N!NoRequest ELSE r
  BY <1>2 DEF Given, N!NavigationStateOf, N!IsBrowserInitiated, Sensible
<1>5. Known(Given(g), g.nextPage)
  BY <1>2, <1>4, GivenIs DEF Sensible
<1> QED BY <1>2, <1>3, <1>4, <1>5 DEF g

LEMMA NavigateKeeps ==
  ASSUME NEW f, NEW r, Sound(f), Sensible(r, f.nextPage), Quiet(f.said),
         Most \in Nat \ {0}, browserSide \in BOOLEAN
  PROVE  LET g == N!NavigateInternal(f, r)
         IN  /\ Sound(g) /\ g.pending = N!NoRequest /\ ~ g.swappedOut
             /\ f.nextPage <= g.nextPage /\ g.offset < g.length /\ g.length = r.curLength
             /\ Quiet(g.said) /\ (g.prov = f.prov \/ g.prov.of = r)
<1> DEFINE ready == Ready(f, r)
           s1 == N!Wanted(r.id, r.url, "Inert", f.doc.doc)
           s2 == N!Wanted(r.id, r.url, "Standard", 0)
           s3 == N!Wanted(r.id, r.url, "BackForward", r.doc)
           a1 == N!Load(ready, s1, FALSE)
           a2 == N!Load(ready, s2, FALSE)
           a3 == N!Load(ready, s3, FALSE)
           a4 == N!didNavigateWithinPage(ready, r.id, "BackForward")
           done1 == IF N!IsReload(f, r) THEN a1 ELSE IF r.kind = "new" THEN a2
                    ELSE IF r.doc = f.doc.doc THEN a4 ELSE a3
           g == N!NavigateInternal(f, r)
           Fine(h) == /\ Sound(h) /\ ~ h.swappedOut /\ f.nextPage <= h.nextPage
                      /\ h.offset < h.length /\ h.length = r.curLength /\ Quiet(h.said)
                      /\ (h.prov = f.prov \/ h.prov.of = r)
<1>1. g = [done1 EXCEPT !.pending = N!NoRequest]
  BY DEF N!NavigateInternal, Ready
<1>2. /\ Sound(ready) /\ ready.pending = r /\ ~ ready.swappedOut /\ ready.offset = r.curOffset
      /\ ready.length = r.curLength /\ ready.prov = f.prov /\ ready.said = f.said /\ ready.doc = f.doc
      /\ ready.nextPage = f.nextPage
      /\ Given(ready) = IF r.url = "javascript:" THEN N!NoRequest ELSE r
      /\ Known(Given(ready), ready.nextPage) /\ (r.url # "javascript:" => r.id = Given(ready).id)
  BY ReadyIs
<1> HIDE DEF ready, g
<1>3. f.nextPage \in Int /\ r.curOffset < r.curLength
  BY DEF Sound, Sensible
<1>4. ASSUME NEW ctype, NEW doc PROVE Fine(N!Load(ready, N!Wanted(r.id, r.url, ctype, doc), FALSE))
  <2> DEFINE s == N!Wanted(r.id, r.url, ctype, doc)
             h == N!Load(ready, s, FALSE)
  <2>1. IsSource(s) /\ s.cause = r.id /\ s.url = r.url
    BY DEF N!Wanted, IsSource
  <2> HIDE DEF s
  <2>2. s.url # "javascript:" => s.cause = Given(ready).id
    BY <1>2, <2>1
  <2>3. /\ Sound(h) /\ SamePlace(ready, h) /\ (Quiet(ready.said) => Quiet(h.said))
        /\ \/ h.prov = ready.prov /\ h.pending = ready.pending
                 /\ ~ (ready.swappedOut /\ s.url = "swappedout:")
                 /\ (~ ready.swappedOut /\ s.url # "javascript:" => ~ N!IsBrowserInitiated(ready.pending))
           \/ s.url # "javascript:" /\ h.prov = Starts(ready, s) /\ h.pending = N!NoRequest
                 /\ ~ (ready.swappedOut /\ s.url # "swappedout:")
    BY <1>2, <2>1, <2>2, LoadKeeps
  <2> HIDE DEF h
  <2>4. s.url # "javascript:" => Starts(ready, s).of = r
    BY <1>2, <2>1, <2>2, StartsIs
  <2>5. h.prov = f.prov \/ h.prov.of = r
    BY <1>2, <2>3, <2>4
  <2>6. Fine(h)
    BY <1>2, <1>3, <2>3, <2>5 DEF SamePlace
  <2> QED BY <2>6 DEF h, s
<1>5. CASE r.kind # "new"
  <2>1. /\ Sound(a4) /\ a4.prov = ready.prov /\ ~ a4.swappedOut /\ f.nextPage <= a4.nextPage
        /\ a4.length = ready.length /\ Quiet(a4.said)
        /\ ready.offset < ready.length /\ (Aims(Given(ready)) => Given(ready).offset < ready.length)
             => a4.offset < a4.length
    <3>1. r.id = Given(ready).id
      BY <1>2, <1>5 DEF Sensible
    <3>2. /\ Sound(a4) /\ a4.prov = ready.prov /\ a4.pending = N!NoRequest
          /\ a4.doc.url = ready.doc.url /\ a4.swappedOut = ready.swappedOut
          /\ ready.nextPage <= a4.nextPage
          /\ ready.offset < ready.length /\ (Aims(Given(ready)) => Given(ready).offset < ready.length)
               => a4.offset < a4.length
          /\ "BackForward" # "Standard" => a4.length = ready.length
          /\ "BackForward" # "Standard" /\ Quiet(ready.said) => Quiet(a4.said)
      BY <1>2, <3>1, WithinPageKeeps
    <3> HIDE DEF a4
    <3> QED BY <1>2, <3>2
  <2>2. Given(ready) = r /\ r.offset < r.curLength
    BY <1>2, <1>5 DEF Sensible
  <2>3. a4.offset < a4.length
    BY <1>2, <1>3, <2>1, <2>2
  <2> HIDE DEF a4
  <2>4. Fine(a4)
    BY <1>2, <2>1, <2>3
  <2>5. done1 \in {a1, a3, a4}
    BY <1>5
  <2>6. Fine(a1) /\ Fine(a3)
    BY <1>4
  <2> HIDE DEF a1, a3, done1, Fine
  <2>7. Fine(done1)
    BY <2>4, <2>5, <2>6
  <2>8. IsFrame(done1)
    BY <2>7 DEF Fine, Sound
  <2>9. /\ IsFrame(g) /\ g.pending = N!NoRequest /\ g.prov = done1.prov /\ g.said = done1.said
        /\ SamePlace(done1, g)
    BY <1>1, <2>8 DEF IsFrame, SamePlace
  <2>10. Sound(g)
    BY <2>7, <2>9 DEF Fine, Sound, SamePlace
  <2> QED BY <2>7, <2>9, <2>10 DEF Fine, SamePlace, g
<1>6. CASE r.kind = "new"
  <2>5. done1 \in {a1, a2}
    BY <1>6
  <2>6. Fine(a1) /\ Fine(a2)
    BY <1>4
  <2> HIDE DEF a1, a2, done1, Fine
  <2>7. Fine(done1)
    BY <2>5, <2>6
  <2>8. IsFrame(done1)
    BY <2>7 DEF Fine, Sound
  <2>9. /\ IsFrame(g) /\ g.pending = N!NoRequest /\ g.prov = done1.prov /\ g.said = done1.said
        /\ SamePlace(done1, g)
    BY <1>1, <2>8 DEF IsFrame, SamePlace
  <2>10. Sound(g)
    BY <2>7, <2>9 DEF Fine, Sound, SamePlace
  <2> QED BY <2>7, <2>9, <2>10 DEF Fine, SamePlace, g
<1> QED BY <1>5, <1>6

LEMMA FailedKeeps ==
  ASSUME NEW f, NEW r, Sound(f), Sensible(r, f.nextPage), Quiet(f.said), r.url # "javascript:"
  PROVE  LET g == N!OnFailedNavigation(f, r, "network")
         IN  /\ Sound(g) /\ g.pending = N!NoRequest /\ ~ g.swappedOut
             /\ f.nextPage <= g.nextPage /\ g.offset < g.length /\ g.length = r.curLength
             /\ Quiet(g.said) /\ g.prov.of = r
<1> DEFINE ready == Ready(f, r)
           begun == N!Say(ready, "DidStartProvisionalLoad")
           heard == N!Say(begun, "DidFailProvisionalLoadWithError")
           inert == r.kind # "new" \/ r.url = f.doc.url
           s == N!Wanted(r.id, "error", IF inert THEN "Inert" ELSE "Standard",
                         IF inert THEN heard.doc.doc ELSE 0)
           g == N!OnFailedNavigation(f, r, "network")
<1>1. g = N!StartLoad(heard, s)
  BY DEF N!OnFailedNavigation, N!ShouldDisplayErrorPage, N!LoadNavigationErrorPage,
         N!SendFailedProvisionalLoad, Ready
<1>2. /\ Sound(ready) /\ ready.pending = r /\ ~ ready.swappedOut /\ ready.offset = r.curOffset
      /\ ready.length = r.curLength /\ ready.prov = f.prov /\ ready.said = f.said /\ ready.doc = f.doc
      /\ ready.nextPage = f.nextPage
      /\ Given(ready) = r /\ Known(r, ready.nextPage)
  BY ReadyIs
<1> HIDE DEF ready, g
<1>3. /\ Sound(begun) /\ SamePlace(ready, begun) /\ begun.pending = r /\ Quiet(begun.said)
  BY <1>2, SayKeeps
<1> HIDE DEF begun
<1>4. /\ Sound(heard) /\ SamePlace(begun, heard) /\ heard.pending = r /\ Quiet(heard.said)
  BY <1>3, SayKeeps
<1> HIDE DEF heard
<1>5. /\ ~ heard.swappedOut /\ heard.offset = r.curOffset /\ heard.length = r.curLength
      /\ heard.nextPage = f.nextPage /\ Given(heard) = r /\ Known(Given(heard), heard.nextPage)
  BY <1>2, <1>3, <1>4 DEF SamePlace, Given
<1>6. IsSource(s) /\ s.cause = Given(heard).id /\ s.url = "error"
  BY <1>5 DEF N!Wanted, IsSource
<1> HIDE DEF s
<1>7. /\ Sound(g) /\ SamePlace(heard, g) /\ g.pending = N!NoRequest /\ g.prov = Starts(heard, s)
      /\ Quiet(g.said)
  BY <1>1, <1>4, <1>5, <1>6, StartLoadKeeps
<1>8. g.prov.of = r
  BY <1>5, <1>6, <1>7, StartsIs
<1>9. r.curOffset < r.curLength /\ f.nextPage \in Int
  BY DEF Sensible, Sound
<1> QED BY <1>5, <1>7, <1>8, <1>9 DEF SamePlace, g

LEMMA StopKeeps ==
  ASSUME NEW f, Sound(f), f.pending = N!NoRequest
  PROVE  LET g == N!OnStop(f)
         IN  /\ Sound(g) /\ SamePlace(f, g) /\ (Quiet(f.said) => Quiet(g.said))
             /\ g.pending = N!NoRequest /\ g.prov = N!NoSource
<1>1. CASE f.prov = N!NoSource
  BY <1>1 DEF N!OnStop, SamePlace
<1>2. CASE f.prov # N!NoSource
  BY <1>2, FailKeeps DEF N!OnStop
<1> QED BY <1>1, <1>2

LEMMA SwapOutKeeps ==
  ASSUME NEW f, Sound(f), f.pending = N!NoRequest, Most \in Nat \ {0}, browserSide \in BOOLEAN,
         f.swappedOut => f.prov = N!NoSource /\ f.doc.url = "swappedout:"
  PROVE  LET g == N!OnSwapOut(f)
         IN  /\ Sound(g) /\ g.pending = N!NoRequest /\ g.swappedOut /\ g.prov = N!NoSource
             /\ g.doc.url = "swappedout:" /\ f.nextPage <= g.nextPage
             /\ f.offset < f.length => g.offset < g.length
<1> DEFINE heard == N!SendUpdateState(f)
           out1 == [heard EXCEPT !.swappedOut = TRUE]
           stopped == N!OnStop(out1)
           again == [stopped EXCEPT !.swappedOut = TRUE]
           s == N!Wanted(0, "swappedout:", "Standard", 0)
           loaded == N!Load(again, s, FALSE)
           none == [loaded EXCEPT !.prov = N!NoSource]
           blank == N!didCommitProvisionalLoad(none, loaded.prov)
           out == IF f.swappedOut THEN f ELSE blank
           free == [out EXCEPT !.suppress = FALSE]
           g == N!Say(free, "SwapOut_ACK")
<1>1. N!OnSwapOut(f) = g
  BY DEF N!OnSwapOut, N!NavigateToSwappedOutURL
<1>2. Sound(heard) /\ SamePlace(f, heard) /\ heard.pending = N!NoRequest /\ f.nextPage \in Int
  BY UpdateStateKeeps DEF Sound
<1> HIDE DEF heard
<1>3. /\ Sound(out1) /\ out1.pending = N!NoRequest /\ out1.offset = f.offset /\ out1.length = f.length
      /\ out1.nextPage = f.nextPage /\ out1.swappedOut
  <2>1. out1 = [heard EXCEPT !.swappedOut = TRUE]
    OBVIOUS
  <2> HIDE DEF out1
  <2>2. /\ IsFrame(out1) /\ out1.pending = heard.pending /\ out1.offset = heard.offset
        /\ out1.length = heard.length /\ out1.page = heard.page /\ out1.nextPage = heard.nextPage
        /\ out1.current = heard.current /\ out1.suppress = heard.suppress /\ out1.prov = heard.prov
        /\ out1.doc = heard.doc /\ out1.said = heard.said /\ out1.swappedOut
    BY <1>2, <2>1 DEF Sound, IsFrame
  <2> QED BY <1>2, <2>2 DEF Sound, SamePlace
<1> HIDE DEF out1
<1>4. /\ Sound(stopped) /\ SamePlace(out1, stopped) /\ stopped.pending = N!NoRequest
  BY <1>3, StopKeeps
<1> HIDE DEF stopped
<1>5. /\ Sound(again) /\ again.pending = N!NoRequest /\ again.offset = f.offset /\ again.length = f.length
      /\ again.nextPage = f.nextPage /\ again.swappedOut
  <2>1. again = [stopped EXCEPT !.swappedOut = TRUE]
    OBVIOUS
  <2> HIDE DEF again
  <2>2. /\ IsFrame(again) /\ again.pending = stopped.pending /\ again.offset = stopped.offset
        /\ again.length = stopped.length /\ again.page = stopped.page
        /\ again.nextPage = stopped.nextPage /\ again.current = stopped.current
        /\ again.suppress = stopped.suppress /\ again.prov = stopped.prov
        /\ again.doc = stopped.doc /\ again.said = stopped.said /\ again.swappedOut
    BY <1>4, <2>1 DEF Sound, IsFrame
  <2> QED BY <1>3, <1>4, <2>2 DEF Sound, SamePlace
<1> HIDE DEF again
<1>6. IsSource(s) /\ s.url = "swappedout:" /\ s.cause = 0 /\ Given(again) = N!NoRequest
      /\ Known(Given(again), again.nextPage) /\ s.cause = Given(again).id
  BY <1>5, GivenIs DEF N!Wanted, IsSource
<1> HIDE DEF s
<1>7. /\ Sound(loaded) /\ SamePlace(again, loaded) /\ loaded.prov = Starts(again, s)
      /\ loaded.pending = N!NoRequest
  BY <1>5, <1>6, LoadKeeps
<1> HIDE DEF loaded
<1>8. Serves(loaded.prov, again.nextPage) /\ loaded.prov.of = N!NoRequest
      /\ loaded.prov.url = "swappedout:"
  BY <1>6, <1>7, StartsIs
<1>9. /\ Sound(none) /\ none.pending = N!NoRequest /\ none.prov = N!NoSource /\ SamePlace(loaded, none)
  <2>1. none = [loaded EXCEPT !.prov = N!NoSource]
    OBVIOUS
  <2> HIDE DEF none
  <2>2. /\ IsFrame(none) /\ none.pending = loaded.pending /\ none.prov = N!NoSource
        /\ none.said = loaded.said /\ SamePlace(loaded, none)
    BY <1>7, <2>1 DEF Sound, IsFrame, SamePlace
  <2> QED BY <1>7, <2>2 DEF Sound, SamePlace
<1> HIDE DEF none
<1>10. none.nextPage = f.nextPage /\ none.offset = f.offset /\ none.length = f.length
       /\ none.swappedOut
  BY <1>5, <1>7, <1>9 DEF SamePlace
<1>11. /\ Sound(blank) /\ blank.prov = N!NoSource /\ blank.pending = N!NoRequest
       /\ blank.doc.url = "swappedout:" /\ blank.swappedOut /\ f.nextPage <= blank.nextPage
       /\ f.offset < f.length => blank.offset < blank.length
  <2>1. Serves(loaded.prov, none.nextPage) /\ ~ Aims(loaded.prov.of)
    BY <1>5, <1>8, <1>10, GivenIs DEF Aims
  <2> QED BY <1>8, <1>9, <1>10, <2>1, CommitKeeps
<1> HIDE DEF blank
<1>12. /\ Sound(out) /\ out.prov = N!NoSource /\ out.pending = N!NoRequest
       /\ out.doc.url = "swappedout:" /\ out.swappedOut /\ f.nextPage <= out.nextPage
       /\ f.offset < f.length => out.offset < out.length
  <2>1. CASE f.swappedOut
    <3>1. out = f /\ f.nextPage <= f.nextPage
      BY <1>2, <2>1
    <3>2. f.swappedOut
      BY <2>1 DEF Sound
    <3> HIDE DEF out
    <3> QED BY <2>1, <3>1, <3>2
  <2>2. CASE ~ f.swappedOut
    BY <1>11, <2>2
  <2> QED BY <2>1, <2>2
<1> HIDE DEF out
<1>13. /\ Sound(free) /\ free.prov = out.prov /\ free.pending = out.pending /\ free.doc = out.doc
       /\ free.swappedOut = out.swappedOut /\ free.nextPage = out.nextPage
       /\ free.offset = out.offset /\ free.length = out.length
  <2>1. free = [out EXCEPT !.suppress = FALSE]
    OBVIOUS
  <2> HIDE DEF free
  <2>2. /\ IsFrame(free) /\ free.pending = out.pending /\ free.offset = out.offset
        /\ free.length = out.length /\ free.page = out.page /\ free.nextPage = out.nextPage
        /\ free.current = out.current /\ free.suppress = FALSE /\ free.prov = out.prov
        /\ free.doc = out.doc /\ free.said = out.said /\ free.swappedOut = out.swappedOut
    BY <1>12, <2>1 DEF Sound, IsFrame
  <2> QED BY <1>12, <2>2 DEF Sound
<1> HIDE DEF free
<1>14. /\ Sound(g) /\ SamePlace(free, g) /\ g.prov = free.prov /\ g.pending = free.pending
  BY <1>13, SayKeeps
<1> HIDE DEF g
<1> QED BY <1>1, <1>12, <1>13, <1>14 DEF SamePlace

-----------------------------------------------------------------------------
(* Between two steps.                                                      *)

Listed(q, n) == IsSequence(q) /\ \A i \in DOMAIN q : Entry(q[i], n)
NoNew(q) == \A i \in DOMAIN q : ~ q[i].new

Remembers(b, n) ==
  /\ b = [entries |-> b.entries, last |-> b.last, inbox |-> b.inbox]
  /\ Listed(b.entries, n) /\ Listed(b.inbox, n)
  /\ Len(b.entries) \in 0 .. Most /\ b.last \in 0 .. Len(b.entries)

Rests(f) ==
  /\ f.said = <<>> /\ f.pending = N!NoRequest
  /\ f.swappedOut => f.prov = N!NoSource /\ f.doc.url = "swappedout:"

\* A move that is under way, and that nothing has overtaken, will find its entry.
Stands(f, b, overtaken) ==
  /\ overtaken \/ f.offset < f.length
  /\ f.prov # N!NoSource /\ Aims(f.prov.of) /\ ~ overtaken =>
       NoNew(b.inbox) /\ f.prov.of.offset < Len(b.entries) /\ f.prov.of.offset < f.length

Fair(ms) == \A m \in ms :
  /\ m.type = "DidCommitProvisionalLoad" => m.request = m.cause
  /\ m.type = "UpdateState" => m.page = m.item

NavInv ==
  /\ browserSide \in BOOLEAN /\ raced \in BOOLEAN /\ loads \in 0 .. MaxLoads
  /\ Sound(frame) /\ Rests(frame) /\ Remembers(browser, frame.nextPage)
  /\ Stands(frame, browser, raced) /\ Fair(said)

LEMMA ConcatListed ==
  ASSUME NEW p, NEW q, NEW n, Listed(p, n), Listed(q, n)
  PROVE  Listed(p \o q, n) /\ (NoNew(p) /\ NoNew(q) => NoNew(p \o q))
<1>1. PICK S : p \in Seq(S)
  BY DEF Listed, IsSequence
<1>2. PICK T1 : q \in Seq(T1)
  BY DEF Listed, IsSequence
<1> DEFINE X == S \cup T1
<1>3. p \in Seq(X) /\ q \in Seq(X)
  BY <1>1, <1>2
<1> HIDE DEF X
<1>4. /\ p \o q \in Seq(X) /\ DOMAIN p = 1 .. Len(p) /\ DOMAIN q = 1 .. Len(q)
      /\ Len(p) \in Nat /\ Len(q) \in Nat /\ DOMAIN (p \o q) = 1 .. Len(p) + Len(q)
      /\ \A i \in 1 .. Len(p) + Len(q) : (p \o q)[i] = IF i <= Len(p) THEN p[i] ELSE q[i - Len(p)]
  BY <1>3
<1>5. \A i \in DOMAIN (p \o q) :
        \/ i \in DOMAIN p /\ (p \o q)[i] = p[i]
        \/ i - Len(p) \in DOMAIN q /\ (p \o q)[i] = q[i - Len(p)]
  BY <1>4
<1>6. IsSequence(p \o q)
  BY <1>4 DEF IsSequence
<1>7. \A i \in DOMAIN (p \o q) : Entry((p \o q)[i], n)
  BY <1>5 DEF Listed
<1>8. NoNew(p) /\ NoNew(q) => NoNew(p \o q)
  BY <1>5 DEF NoNew
<1> QED BY <1>6, <1>7, <1>8 DEF Listed

LEMMA CommitsListed ==
  ASSUME NEW q, NEW n, AllTrue(q, n)
  PROVE  Listed(N!Commits(q), n) /\ (Quiet(q) => NoNew(N!Commits(q)))
<1> DEFINE at == {i \in DOMAIN q : q[i].type = "DidCommitProvisionalLoad"}
<1>1. CASE at = {}
  <2>1. N!Commits(q) = <<>>
    BY <1>1 DEF N!Commits
  <2>2. <<>> \in Seq({}) /\ DOMAIN <<>> = {}
    OBVIOUS
  <2> QED BY <2>1, <2>2 DEF Listed, IsSequence, NoNew
<1>2. CASE at # {}
  <2> DEFINE j == CHOOSE i \in at : TRUE
             m == q[j]
  <2>1. j \in at
    BY <1>2
  <2>2. N!Commits(q) = <<m>>
    BY <1>2 DEF N!Commits
  <2> HIDE DEF j
  <2>3. Entry(m, n) /\ (Quiet(q) => ~ m.new)
    BY <2>1 DEF AllTrue, True, Quiet, Adds
  <2> HIDE DEF m
  <2> DEFINE c == N!Commits(q)
  <2>4. c \in Seq({m}) /\ DOMAIN c = {1} /\ c[1] = m
    BY <2>2
  <2> HIDE DEF c
  <2>5. IsSequence(c)
    BY <2>4 DEF IsSequence
  <2> QED BY <2>3, <2>4, <2>5 DEF Listed, NoNew, c
<1> QED BY <1>1, <1>2

\* One entry into the frame.
LEMMA BecomesKeeps ==
  ASSUME NavInv, NEW g, N!Becomes(g), Sound(g), frame.nextPage <= g.nextPage, g.pending = N!NoRequest,
         g.swappedOut => g.prov = N!NoSource /\ g.doc.url = "swappedout:",
         browserSide' = browserSide, raced' \in BOOLEAN, loads' \in 0 .. MaxLoads,
         raced' \/ g.offset < g.length,
         g.prov # N!NoSource /\ Aims(g.prov.of) /\ ~ raced' =>
           /\ NoNew(browser.inbox) /\ Quiet(g.said)
           /\ g.prov.of.offset < Len(browser.entries) /\ g.prov.of.offset < g.length
  PROVE  NavInv'
<1> DEFINE f == frame'
           b == browser'
<1>1. f = [g EXCEPT !.said = <<>>] /\ said' = N!OnHistory(g.said)
      /\ b = [browser EXCEPT !.inbox = browser.inbox \o N!Commits(g.said)]
  BY DEF N!Becomes
<1> HIDE DEF f, b
<1>2. /\ IsFrame(f) /\ f.said = <<>> /\ f.pending = g.pending /\ f.prov = g.prov /\ SamePlace(g, f)
  BY <1>1 DEF Sound, IsFrame, SamePlace
<1>3. Sound(f) /\ Rests(f)
  <2>1. <<>> \in Seq({}) /\ DOMAIN <<>> = {}
    OBVIOUS
  <2>2. AllTrue(<<>>, f.nextPage)
    BY <2>1 DEF AllTrue, IsSequence
  <2>3. Sound(f)
    BY <1>2, <2>2 DEF Sound, SamePlace
  <2> QED BY <1>2, <2>3 DEF Rests, SamePlace
<1>4. /\ b = [entries |-> b.entries, last |-> b.last, inbox |-> b.inbox]
      /\ b.entries = browser.entries /\ b.last = browser.last
      /\ b.inbox = browser.inbox \o N!Commits(g.said)
  BY <1>1 DEF NavInv, Remembers
<1>5. /\ frame.nextPage \in Int /\ g.nextPage \in Int /\ f.nextPage = g.nextPage
      /\ \A e : Entry(e, frame.nextPage) => Entry(e, g.nextPage)
  BY <1>2, TrueLater DEF NavInv, Sound, SamePlace
<1>6. Listed(b.entries, g.nextPage) /\ Listed(browser.inbox, g.nextPage)
  BY <1>4, <1>5 DEF NavInv, Remembers, Listed
<1>7. Listed(N!Commits(g.said), g.nextPage) /\ (Quiet(g.said) => NoNew(N!Commits(g.said)))
  BY CommitsListed DEF Sound
<1>8. Listed(b.inbox, g.nextPage)
      /\ (NoNew(browser.inbox) /\ Quiet(g.said) => NoNew(b.inbox))
  BY <1>4, <1>6, <1>7, ConcatListed
<1>9. Remembers(b, f.nextPage)
  BY <1>4, <1>5, <1>6, <1>8 DEF NavInv, Remembers
<1>10. Stands(f, b, raced')
  BY <1>2, <1>4, <1>8 DEF Stands, SamePlace
<1>11. Fair(said')
  <2>1. \A i \in DOMAIN g.said : True(g.said[i], g.nextPage)
    BY DEF Sound, AllTrue
  <2>2. \A m \in said' : \E i \in DOMAIN g.said : m = g.said[i]
    BY <1>1 DEF N!OnHistory, N!Range
  <2> QED BY <2>1, <2>2 DEF Fair, True
<1> QED BY <1>3, <1>9, <1>10, <1>11 DEF NavInv, Sound, f, b

\* What the browser asks is made of what it remembers.
LEMMA RequestsAreSensible ==
  ASSUME NavInv, Most \in Nat \ {0}, MaxLoads \in Nat
  PROVE  \A r \in N!Requests : Sensible(r, frame.nextPage) /\ r.curLength = Len(browser.entries)
<1>1. /\ loads \in Nat /\ Len(browser.entries) \in 0 .. Most /\ browser.last \in 0 .. Len(browser.entries)
      /\ \A i \in DOMAIN browser.entries : Entry(browser.entries[i], frame.nextPage)
  BY DEF NavInv, Remembers, Listed
<1>2. DOMAIN browser.entries = 1 .. Len(browser.entries)
  <2>1. PICK S : browser.entries \in Seq(S)
    BY DEF NavInv, Remembers, Listed, IsSequence
  <2> QED BY <2>1
<1>3. ASSUME NEW url, NEW replace
      PROVE  LET r == N!Request("new", url, 0, replace)
             IN  Sensible(r, frame.nextPage) /\ r.curLength = Len(browser.entries)
  <2> DEFINE r == N!Request("new", url, 0, replace)
  <2>1. /\ r.id = loads + 1 /\ r.newEntry /\ r.kind = "new" /\ r.curOffset = browser.last - 1
        /\ r.curLength = Len(browser.entries)
    BY DEF N!Request
  <2> HIDE DEF r
  <2> QED BY <1>1, <2>1 DEF Sensible, Known, Aims, r
<1>4. ASSUME NEW kind \in {"history", "reload"}, NEW i \in DOMAIN browser.entries
      PROVE  LET r == N!Request(kind, browser.entries[i].url, i, FALSE)
             IN  Sensible(r, frame.nextPage) /\ r.curLength = Len(browser.entries)
  <2> DEFINE r == N!Request(kind, browser.entries[i].url, i, FALSE)
  <2>1. /\ r.id = loads + 1 /\ ~ r.newEntry /\ r.kind # "new" /\ r.curOffset = browser.last - 1
        /\ r.curLength = Len(browser.entries) /\ r.page = browser.entries[i].page
        /\ r.offset = i - 1 /\ r.url = browser.entries[i].url
    BY DEF N!Request
  <2> HIDE DEF r
  <2>2. Entry(browser.entries[i], frame.nextPage) /\ i \in 1 .. Len(browser.entries)
    BY <1>1, <1>2
  <2>3. r.page \in Int /\ r.page < frame.nextPage /\ r.url # "javascript:"
    BY <2>1, <2>2 DEF Entry
  <2>4. r.offset \in 0 .. Most - 1 /\ r.offset < r.curLength
    BY <1>1, <2>1, <2>2
  <2>5. r.id \in Nat \ {0} /\ r.curOffset \in -1 .. Most - 1 /\ r.curLength \in 0 .. Most
        /\ r.curOffset < r.curLength
    BY <1>1, <2>1
  <2> QED BY <2>1, <2>3, <2>4, <2>5 DEF Sensible, Known, r
<1>5. ASSUME NEW r \in N!Requests
      PROVE  Sensible(r, frame.nextPage) /\ r.curLength = Len(browser.entries)
  <2> DEFINE fresh == {N!Request("new", url, 0, replace) :
                         url \in {"page", "javascript:"}, replace \in {x \in BOOLEAN : x => browser.last > 0}}
             moves == {N!Request("history", browser.entries[i].url, i, FALSE) :
                         i \in DOMAIN browser.entries \ {browser.last}}
             again == {N!Request("reload", browser.entries[i].url, i, FALSE) :
                         i \in DOMAIN browser.entries \cap {browser.last}}
  <2>5. N!Requests = (fresh \cup moves) \cup again
    BY DEF N!Requests
  <2>6. r \in fresh => \E url, replace : r = N!Request("new", url, 0, replace)
    OBVIOUS
  <2>7. r \in moves => \E i \in DOMAIN browser.entries : r = N!Request("history", browser.entries[i].url, i, FALSE)
    OBVIOUS
  <2>8. r \in again => \E i \in DOMAIN browser.entries : r = N!Request("reload", browser.entries[i].url, i, FALSE)
    OBVIOUS
  <2> HIDE DEF fresh, moves, again
  <2>1. \/ \E url, replace : r = N!Request("new", url, 0, replace)
        \/ \E i \in DOMAIN browser.entries : r = N!Request("history", browser.entries[i].url, i, FALSE)
        \/ \E i \in DOMAIN browser.entries : r = N!Request("reload", browser.entries[i].url, i, FALSE)
    BY <1>5, <2>5, <2>6, <2>7, <2>8
  <2>2. CASE \E url, replace : r = N!Request("new", url, 0, replace)
    BY <1>3, <2>2
  <2>3. CASE \E i \in DOMAIN browser.entries : r = N!Request("history", browser.entries[i].url, i, FALSE)
    BY <1>4, <2>3
  <2>4. CASE \E i \in DOMAIN browser.entries : r = N!Request("reload", browser.entries[i].url, i, FALSE)
    BY <1>4, <2>4
  <2> QED BY <2>1, <2>2, <2>3, <2>4
<1> QED BY <1>5

LEMMA NavigationRests ==
  ASSUME NavInv, UNCHANGED navigationVars
  PROVE  NavInv'
BY DEF NavInv, Sound, navigationVars

LEMMA InitNavigation ==
  ASSUME Init, N!NavigationAssumption
  PROVE  NavInv
<1>1. Most \in Nat \ {0} /\ MaxLoads \in Nat
  BY DEF N!NavigationAssumption, Most
<1>2. PICK opener \in BOOLEAN, n \in Restored :
        /\ frame = [pending |-> N!NoRequest, swappedOut |-> FALSE, offset |-> -1, length |-> 0,
                    page |-> 0, nextPage |-> n + 1, current |-> 0, suppress |-> FALSE,
                    opener |-> opener, prov |-> N!NoSource,
                    doc |-> N!Wanted(0, "about:blank", "Inert", 0), said |-> <<>>]
        /\ browser = [entries |-> [i \in 1 .. n |-> [page |-> i, doc |-> i, url |-> "page"]],
                      last |-> n, inbox |-> <<>>]
  BY DEF Init, N!Init
<1>3. browserSide \in BOOLEAN /\ raced = FALSE /\ loads = 0 /\ said = {}
  BY DEF Init, N!Init, N!NavigationAssumption
<1>4. n \in 0 .. Most
  BY DEF N!NavigationAssumption, Most
<1>5. <<>> \in Seq({}) /\ DOMAIN <<>> = {}
  OBVIOUS
<1>6. /\ IsFrame(frame) /\ frame.said = <<>> /\ frame.pending = N!NoRequest /\ frame.prov = N!NoSource
      /\ ~ frame.swappedOut /\ frame.swappedOut \in BOOLEAN /\ frame.suppress \in BOOLEAN
      /\ frame.offset = -1 /\ frame.length = 0 /\ frame.page = 0 /\ frame.nextPage = n + 1
      /\ frame.current = 0 /\ frame.doc = N!Wanted(0, "about:blank", "Inert", 0)
  BY <1>2 DEF IsFrame
<1>7. IsSource(frame.doc) /\ frame.doc.url # "javascript:"
  BY <1>6 DEF N!Wanted, IsSource
<1>8. AllTrue(frame.said, frame.nextPage)
  BY <1>5, <1>6 DEF AllTrue, IsSequence
<1>9. Sound(frame) /\ Rests(frame)
  BY <1>1, <1>4, <1>6, <1>7, <1>8 DEF Sound, Rests
<1> DEFINE entries == [i \in 1 .. n |-> [page |-> i, doc |-> i, url |-> "page"]]
<1>10. /\ browser.entries = entries /\ browser.last = n /\ browser.inbox = <<>>
       /\ browser = [entries |-> browser.entries, last |-> browser.last, inbox |-> browser.inbox]
  BY <1>2
<1>11. Listed(entries, n + 1) /\ Len(entries) = n
  <2>1. \A i \in 1 .. n : entries[i].page = i /\ entries[i].url = "page"
    OBVIOUS
  <2>2. entries \in Seq({[page |-> i, doc |-> i, url |-> "page"] : i \in 1 .. n}) /\ Len(entries) = n
        /\ DOMAIN entries = 1 .. n
    BY <1>4
  <2> HIDE DEF entries
  <2>3. \A i \in DOMAIN entries : Entry(entries[i], n + 1)
    BY <1>4, <2>1, <2>2 DEF Entry
  <2> QED BY <2>2, <2>3 DEF Listed, IsSequence
<1> HIDE DEF entries
<1>12. Remembers(browser, frame.nextPage)
  BY <1>4, <1>5, <1>6, <1>10, <1>11 DEF Remembers, Listed, IsSequence
<1>13. Stands(frame, browser, raced)
  BY <1>6 DEF Stands
<1>14. raced \in BOOLEAN
  BY <1>3
<1>15. loads \in 0 .. MaxLoads
  BY <1>1, <1>3
<1>16. Fair(said)
  BY <1>3 DEF Fair
<1> QED BY <1>3, <1>9, <1>12, <1>13, <1>14, <1>15, <1>16 DEF NavInv

\* The browser's list grows by whole entries, at its end or at the one it stands on.
LEMMA HearingKeeps ==
  ASSUME NavInv, N!BrowserHearsCommit, Most \in Nat \ {0}
  PROVE  NavInv'
<1> DEFINE n == frame.nextPage
           m == Head(browser.inbox)
           e == [page |-> m.page, doc |-> m.doc, url |-> m.url]
           kept == SubSeq(browser.entries, 1, browser.last)
           all == IF m.replace /\ kept # <<>> THEN Append(SubSeq(kept, 1, Len(kept) - 1), e) ELSE Append(kept, e)
           list == IF Len(all) > Most THEN Tail(all) ELSE all
           at == {i \in DOMAIN browser.entries : browser.entries[i].page = m.page}
           b == browser'
<1>1. /\ browser.inbox # <<>> /\ said' = {} /\ UNCHANGED <<frame, browserSide, loads, raced>>
      /\ b = [browser EXCEPT !.inbox = Tail(browser.inbox),
                             !.entries = IF m.new THEN list ELSE browser.entries,
                             !.last = IF m.new THEN Len(list)
                                      ELSE IF at # {} THEN CHOOSE i \in at : TRUE ELSE browser.last]
  BY DEF N!BrowserHearsCommit, Most
<1>2. /\ browser = [entries |-> browser.entries, last |-> browser.last, inbox |-> browser.inbox]
      /\ Listed(browser.entries, n) /\ Listed(browser.inbox, n)
      /\ Len(browser.entries) \in 0 .. Most /\ browser.last \in 0 .. Len(browser.entries)
  BY DEF NavInv, Remembers
<1>3. PICK S : browser.inbox \in Seq(S)
  BY <1>2 DEF Listed, IsSequence
<1>4. PICK U : browser.entries \in Seq(U)
  BY <1>2 DEF Listed, IsSequence
<1>5. /\ m = browser.inbox[1] /\ 1 \in DOMAIN browser.inbox /\ Tail(browser.inbox) \in Seq(S)
      /\ \A i \in DOMAIN Tail(browser.inbox) :
            i + 1 \in DOMAIN browser.inbox /\ Tail(browser.inbox)[i] = browser.inbox[i + 1]
  BY <1>1, <1>3
<1>6. Entry(m, n) /\ Listed(Tail(browser.inbox), n) /\ (NoNew(browser.inbox) => ~ m.new /\ NoNew(Tail(browser.inbox)))
  BY <1>2, <1>5 DEF Listed, IsSequence, NoNew
<1> HIDE DEF m
<1>7. Entry(e, n)
  BY <1>6 DEF Entry
<1> HIDE DEF e
<1> DEFINE X == U \cup {e}
<1>8. /\ kept \in Seq(X) /\ Len(kept) = browser.last /\ \A i \in 1 .. Len(kept) : kept[i] = browser.entries[i]
      /\ browser.entries \in Seq(X) /\ e \in X /\ DOMAIN browser.entries = 1 .. Len(browser.entries)
  BY <1>2, <1>4
<1> HIDE DEF X
<1>9. Listed(kept, n)
  <2>1. \A i \in DOMAIN kept : i \in DOMAIN browser.entries /\ kept[i] = browser.entries[i]
    BY <1>2, <1>8
  <2> HIDE DEF kept
  <2> QED BY <1>2, <1>8, <2>1 DEF Listed, IsSequence
<1> HIDE DEF kept
<1>10. ASSUME kept # <<>>
       PROVE  /\ SubSeq(kept, 1, Len(kept) - 1) \in Seq(X) /\ Listed(SubSeq(kept, 1, Len(kept) - 1), n)
              /\ Len(SubSeq(kept, 1, Len(kept) - 1)) = Len(kept) - 1
  <2> DEFINE q == SubSeq(kept, 1, Len(kept) - 1)
  <2>1. q = SubSeq(kept, 1, Len(kept) - 1)
    OBVIOUS
  <2> HIDE DEF q
  <2>2. /\ q \in Seq(X) /\ Len(q) = Len(kept) - 1
        /\ \A i \in DOMAIN q : i \in DOMAIN kept /\ q[i] = kept[i]
    BY <1>8, <1>10, <2>1
  <2> QED BY <1>9, <2>2 DEF Listed, IsSequence, q
<1>11. ASSUME NEW q \in Seq(X), Listed(q, n) PROVE Append(q, e) \in Seq(X) /\ Listed(Append(q, e), n)
  <2>1. /\ Append(q, e) \in Seq(X) /\ DOMAIN Append(q, e) = 1 .. Len(q) + 1 /\ DOMAIN q = 1 .. Len(q)
        /\ Len(q) \in Nat /\ Append(q, e)[Len(q) + 1] = e
        /\ \A i \in DOMAIN q : Append(q, e)[i] = q[i]
    BY <1>8, <1>11
  <2>2. \A i \in DOMAIN Append(q, e) : i \in DOMAIN q \/ i = Len(q) + 1
    BY <2>1
  <2>3. \A i \in DOMAIN Append(q, e) : Entry(Append(q, e)[i], n)
    BY <1>7, <1>11, <2>1, <2>2 DEF Listed
  <2> QED BY <2>1, <2>3 DEF Listed, IsSequence
<1>12. all \in Seq(X) /\ Listed(all, n) /\ Len(all) \in 1 .. Most + 1
  <2>1. Len(kept) \in 0 .. Most
    BY <1>2, <1>8
  <2>2. ASSUME NEW q \in Seq(X), Listed(q, n), Len(q) \in 0 .. Most, all = Append(q, e)
        PROVE  all \in Seq(X) /\ Listed(all, n) /\ Len(all) \in 1 .. Most + 1
    <3> HIDE DEF all
    <3>1. Append(q, e) \in Seq(X) /\ Listed(Append(q, e), n)
      BY <1>11, <2>2
    <3>2. Len(Append(q, e)) = Len(q) + 1
      BY <1>8, <2>2
    <3>3. Len(q) + 1 \in 1 .. Most + 1
      BY <2>2
    <3> QED BY <2>2, <3>1, <3>2, <3>3
  <2>3. CASE m.replace /\ kept # <<>>
    <3>1. all = Append(SubSeq(kept, 1, Len(kept) - 1), e)
      BY <2>3
    <3> HIDE DEF all
    <3>2. Len(kept) >= 1 /\ Len(kept) - 1 \in 0 .. Most
      <4>1. Len(kept) # 0
        BY <1>8, <2>3
      <4> QED BY <2>1, <4>1
    <3>3. SubSeq(kept, 1, Len(kept) - 1) \in Seq(X) /\ Listed(SubSeq(kept, 1, Len(kept) - 1), n) /\ Len(SubSeq(kept, 1, Len(kept) - 1)) \in 0 .. Most
      BY <1>10, <2>3, <3>2
    <3> QED BY <2>2, <3>1, <3>3
  <2>4. CASE ~ (m.replace /\ kept # <<>>)
    <3>1. all = Append(kept, e)
      BY <2>4
    <3> HIDE DEF all
    <3> QED BY <1>8, <1>9, <2>1, <2>2, <3>1
  <2> QED BY <2>3, <2>4
<1> HIDE DEF all
<1>13. Listed(list, n) /\ Len(list) \in 0 .. Most
  <2>1. CASE Len(all) > Most
    <3>1. /\ Tail(all) \in Seq(X) /\ Len(Tail(all)) = Len(all) - 1
          /\ \A i \in DOMAIN Tail(all) : i + 1 \in DOMAIN all /\ Tail(all)[i] = all[i + 1]
      BY <1>12
    <3>2. list = Tail(all)
      BY <2>1
    <3> HIDE DEF list
    <3> QED BY <1>12, <3>1, <3>2 DEF Listed, IsSequence
  <2>2. CASE ~ Len(all) > Most
    BY <1>12, <2>2
  <2> QED BY <2>1, <2>2
<1> HIDE DEF list, b
<1>14. /\ b = [entries |-> b.entries, last |-> b.last, inbox |-> b.inbox]
       /\ b.inbox = Tail(browser.inbox)
       /\ b.entries = (IF m.new THEN list ELSE browser.entries)
       /\ b.last = IF m.new THEN Len(list) ELSE IF at # {} THEN CHOOSE i \in at : TRUE ELSE browser.last
  BY <1>1, <1>2
<1>15. at # {} => (CHOOSE i \in at : TRUE) \in 0 .. Len(browser.entries)
  <2>1. at # {} => (CHOOSE i \in at : TRUE) \in DOMAIN browser.entries
    OBVIOUS
  <2> HIDE DEF at
  <2> QED BY <1>8, <2>1
<1> HIDE DEF at
<1>16. Listed(b.entries, n) /\ Len(b.entries) \in 0 .. Most /\ b.last \in 0 .. Len(b.entries)
  <2>1. CASE m.new
    BY <1>13, <1>14, <2>1
  <2>2. CASE ~ m.new
    BY <1>2, <1>14, <1>15, <2>2
  <2> QED BY <2>1, <2>2
<1>17. Remembers(b, n)
  BY <1>6, <1>14, <1>16 DEF Remembers
<1>18. Stands(frame, b, raced)
  <2>1. Stands(frame, browser, raced)
    BY DEF NavInv
  <2>2. NoNew(browser.inbox) => b.entries = browser.entries /\ NoNew(b.inbox)
    BY <1>6, <1>14
  <2> QED BY <2>1, <2>2 DEF Stands
<1>19. Fair({})
  BY DEF Fair
<1> QED BY <1>1, <1>17, <1>18, <1>19 DEF NavInv, Sound, b

LEMMA NavigationMoves ==
  ASSUME NavInv, N!Next, N!NavigationAssumption, MayDrop = FALSE
  PROVE  NavInv'
<1> DEFINE n == frame.nextPage
<1>1. Most \in Nat \ {0} /\ MaxLoads \in Nat
  BY DEF N!NavigationAssumption, Most
<1>2. /\ browserSide \in BOOLEAN /\ raced \in BOOLEAN /\ loads \in 0 .. MaxLoads /\ Sound(frame)
      /\ frame.said = <<>> /\ frame.pending = N!NoRequest /\ Stands(frame, browser, raced)
      /\ frame.swappedOut => frame.prov = N!NoSource /\ frame.doc.url = "swappedout:"
      /\ n \in Int /\ n <= n
  BY DEF NavInv, Rests, Sound
<1>3. Given(frame) = N!NoRequest /\ Given(frame).id = 0 /\ Known(Given(frame), n)
  BY <1>2, GivenIs
<1>4. Quiet(frame.said)
  BY <1>2 DEF Quiet
<1>5. N!CountLoad => loads' \in 0 .. MaxLoads
  BY <1>1, <1>2 DEF N!CountLoad
<1>6. raced \/ frame.offset < frame.length
  BY <1>2 DEF Stands
\* What leaves the move that is under way alone, or a move to the same entry.
<1>7. ASSUME NEW g, N!Becomes(g), Sound(g), SamePlace(frame, g), Quiet(g.said), g.pending = N!NoRequest,
             UNCHANGED <<browserSide, raced>>, loads' \in 0 .. MaxLoads,
             g.swappedOut => g.prov = N!NoSource,
             g.prov = N!NoSource \/ g.prov.of = N!NoRequest
               \/ (frame.prov # N!NoSource /\ g.prov.of = frame.prov.of)
      PROVE  NavInv'
  <2>1. g.prov # N!NoSource /\ Aims(g.prov.of) => frame.prov # N!NoSource /\ g.prov.of = frame.prov.of
    BY <1>7, GivenIs DEF Aims
  <2>2. /\ g.nextPage = n /\ g.offset = frame.offset /\ g.length = frame.length
        /\ g.swappedOut = frame.swappedOut /\ g.doc = frame.doc
    BY <1>7 DEF SamePlace
  <2>3. raced' \/ g.offset < g.length
    BY <1>6, <1>7, <2>2
  <2>4. g.prov # N!NoSource /\ Aims(g.prov.of) /\ ~ raced' =>
          /\ NoNew(browser.inbox) /\ Quiet(g.said)
          /\ g.prov.of.offset < Len(browser.entries) /\ g.prov.of.offset < g.length
    BY <1>2, <1>7, <2>1, <2>2 DEF Stands
  <2>5. raced' \in BOOLEAN /\ (g.swappedOut => g.doc.url = "swappedout:")
    BY <1>2, <1>7, <2>2
  <2> QED BY <1>2, <1>7, <2>2, <2>3, <2>4, <2>5, BecomesKeeps
\* Requests of the browser.
<1>8. ASSUME NEW r \in N!Requests, NEW g, N!Becomes(g), Sound(g), g.pending = N!NoRequest, ~ g.swappedOut,
             n <= g.nextPage, g.offset < g.length, g.length = r.curLength, Quiet(g.said),
             g.prov = frame.prov \/ g.prov.of = r, UNCHANGED browserSide, N!CountLoad,
             raced' = (browser.inbox # <<>> \/ (raced /\ N!StillUnderWay))
      PROVE  NavInv'
  <2>1. Sensible(r, n) /\ r.curLength = Len(browser.entries)
    BY <1>1, RequestsAreSensible
  <2>2. frame'.prov = g.prov
    BY <1>8 DEF N!Becomes, Sound, IsFrame
  <2>3. raced' \in BOOLEAN
    BY <1>8
  <2>4. ASSUME g.prov # N!NoSource, Aims(g.prov.of), ~ raced'
        PROVE  /\ NoNew(browser.inbox) /\ Quiet(g.said)
               /\ g.prov.of.offset < Len(browser.entries) /\ g.prov.of.offset < g.length
    <3>1. browser.inbox = <<>> /\ (g.prov = frame.prov => ~ raced)
      BY <1>8, <2>2, <2>4 DEF N!StillUnderWay
    <3>2. NoNew(browser.inbox)
      BY <3>1 DEF NoNew
    <3>3. g.prov.of.offset < Len(browser.entries)
      <4>1. CASE g.prov = frame.prov
        BY <1>2, <2>4, <3>1, <4>1 DEF Stands
      <4>2. CASE g.prov.of = r
        BY <2>1, <2>4, <4>2 DEF Sensible, Aims
      <4> QED BY <1>8, <4>1, <4>2
    <3> QED BY <1>8, <2>1, <3>2, <3>3
  <2> QED BY <1>5, <1>8, <2>3, <2>4, BecomesKeeps
<1>9. CASE N!OnNavigate
  <2>1. PICK r \in N!Requests :
          /\ N!CountLoad /\ N!Becomes(N!NavigateInternal(frame, r)) /\ UNCHANGED browserSide
          /\ raced' = (browser.inbox # <<>> \/ (raced /\ N!StillUnderWay))
    BY <1>9 DEF N!OnNavigate
  <2> DEFINE g == N!NavigateInternal(frame, r)
  <2>2. /\ Sound(g) /\ g.pending = N!NoRequest /\ ~ g.swappedOut
        /\ n <= g.nextPage /\ g.offset < g.length /\ g.length = r.curLength
        /\ Quiet(g.said) /\ (g.prov = frame.prov \/ g.prov.of = r)
    BY <1>1, <1>2, <1>4, RequestsAreSensible, NavigateKeeps
  <2>3. N!Becomes(g)
    BY <2>1
  <2> HIDE DEF g
  <2> QED BY <1>8, <2>1, <2>2, <2>3
<1>10. CASE N!FailedNavigation
  <2>1. PICK r \in N!Requests :
          /\ N!CountLoad /\ N!Becomes(N!OnFailedNavigation(frame, r, "network"))
          /\ UNCHANGED browserSide /\ r.url # "javascript:"
          /\ raced' = (browser.inbox # <<>> \/ (raced /\ N!StillUnderWay))
    BY <1>10 DEF N!FailedNavigation
  <2> DEFINE g == N!OnFailedNavigation(frame, r, "network")
  <2>2. /\ Sound(g) /\ g.pending = N!NoRequest /\ ~ g.swappedOut
        /\ n <= g.nextPage /\ g.offset < g.length /\ g.length = r.curLength
        /\ Quiet(g.said) /\ g.prov.of = r
    BY <1>1, <1>2, <1>4, <2>1, RequestsAreSensible, FailedKeeps
  <2>3. N!Becomes(g)
    BY <2>1
  <2> HIDE DEF g
  <2> QED BY <1>8, <2>1, <2>2, <2>3
<1>11. CASE N!ContentNavigate
  <2>1. PICK url \in N!Urls, ctype \in {"Standard", "Inert"}, scripted \in BOOLEAN :
          /\ N!CountLoad /\ UNCHANGED <<browserSide, raced>>
          /\ N!Becomes(N!Load(frame, N!Wanted(0, url, ctype, IF ctype = "Inert" THEN frame.doc.doc ELSE 0),
                              scripted))
    BY <1>11 DEF N!ContentNavigate
  <2> DEFINE s == N!Wanted(0, url, ctype, IF ctype = "Inert" THEN frame.doc.doc ELSE 0)
             g == N!Load(frame, s, scripted)
  <2>2. IsSource(s) /\ s.cause = 0 /\ s.url = url
    BY DEF N!Wanted, IsSource
  <2>3. N!Becomes(g)
    BY <2>1
  <2> HIDE DEF s
  <2>4. s.url # "javascript:" /\ s.url # "swappedout:"
    BY <2>2 DEF N!Urls
  <2>5. /\ Sound(g) /\ SamePlace(frame, g) /\ (Quiet(frame.said) => Quiet(g.said))
        /\ \/ g.prov = frame.prov /\ g.pending = frame.pending
              /\ ~ (frame.swappedOut /\ s.url = "swappedout:")
              /\ (~ frame.swappedOut /\ s.url # "javascript:" => ~ N!IsBrowserInitiated(frame.pending))
           \/ s.url # "javascript:" /\ g.prov = Starts(frame, s) /\ g.pending = N!NoRequest
              /\ ~ (frame.swappedOut /\ s.url # "swappedout:")
    BY <1>2, <1>3, <2>2, LoadKeeps
  <2> HIDE DEF g
  <2>6. Starts(frame, s).of = N!NoRequest
    BY <1>2, <1>3, <2>2, <2>4, StartsIs
  <2>7. g.swappedOut = frame.swappedOut
    BY <2>5 DEF SamePlace
  <2>8. g.swappedOut => g.prov = N!NoSource
    BY <1>2, <2>4, <2>5, <2>7
  <2>9. g.prov = N!NoSource \/ g.prov.of = N!NoRequest
          \/ (frame.prov # N!NoSource /\ g.prov.of = frame.prov.of)
    BY <2>5, <2>6
  <2>10. g.pending = N!NoRequest
    BY <1>2, <2>5
  <2> QED BY <1>4, <1>5, <1>7, <2>1, <2>3, <2>5, <2>8, <2>9, <2>10
<1>12. CASE N!NavigateWithinPage
  <2>1. PICK ctype \in {"Standard", "Inert"} :
          /\ ~ frame.swappedOut /\ N!CountLoad /\ UNCHANGED browserSide
          /\ N!Becomes(N!didNavigateWithinPage(frame, 0, ctype))
          /\ raced' = (raced \/ (frame.prov # N!NoSource /\ frame.prov.of.id # 0))
    BY <1>12 DEF N!NavigateWithinPage
  <2> DEFINE cause == Given(frame).id
             g == N!didNavigateWithinPage(frame, cause, ctype)
  <2>9. cause = 0 /\ cause = Given(frame).id
    BY <1>3
  <2> HIDE DEF cause
  <2>2. /\ Sound(g) /\ g.prov = frame.prov /\ g.pending = N!NoRequest
        /\ g.doc.url = frame.doc.url /\ g.swappedOut = frame.swappedOut /\ frame.nextPage <= g.nextPage
        /\ frame.offset < frame.length /\ (Aims(Given(frame)) => Given(frame).offset < frame.length)
             => g.offset < g.length
        /\ ctype # "Standard" => g.length = frame.length
        /\ ctype # "Standard" /\ Quiet(frame.said) => Quiet(g.said)
    BY <1>1, <1>2, <1>3, <2>9, WithinPageKeeps
  <2>3. N!Becomes(g)
    BY <2>1, <2>9
  <2> HIDE DEF g
  <2>4. ~ Aims(Given(frame))
    BY <1>3 DEF Aims
  <2>5. raced' \/ g.offset < g.length
    BY <1>6, <2>1, <2>2, <2>4
  <2>6. g.prov # N!NoSource /\ Aims(g.prov.of) => raced'
    BY <2>1, <2>2 DEF Aims
  <2>7. raced' \in BOOLEAN
    BY <2>1
  <2>8. ~ g.swappedOut
    BY <2>1, <2>2
  <2> QED BY <1>5, <2>1, <2>2, <2>3, <2>5, <2>6, <2>7, <2>8, BecomesKeeps
<1>13. CASE N!Redirect
  <2>1. PICK url \in N!Urls :
          /\ frame.prov # N!NoSource /\ UNCHANGED <<browserSide, loads, raced>>
          /\ LET src    == [frame.prov EXCEPT !.url = url]
                 policy == N!decidePolicyForNavigation(frame, src, frame.prov.of.id = 0, FALSE)
             IN N!Becomes(CASE policy = "open"  -> N!OnStop(N!OpenURL(frame, src.ctype = "Inert"))
                            [] policy = "begin" -> N!OnStop(N!BeginNavigation(frame, src))
                            [] OTHER            -> [frame EXCEPT !.prov.url = url])
    BY <1>13 DEF N!Redirect
  <2> DEFINE src == [frame.prov EXCEPT !.url = url]
             a == N!OpenURL(frame, src.ctype = "Inert")
             b == N!BeginNavigation(frame, src)
             c == [frame EXCEPT !.prov.url = url]
  <2>2. N!Becomes(N!OnStop(a)) \/ N!Becomes(N!OnStop(b)) \/ N!Becomes(c)
    BY <2>1
  <2>3. ~ frame.swappedOut
    BY <1>2, <2>1
  <2>4. ASSUME NEW m, ~ Adds(m), True(m, n), NEW e, e = N!Send(frame, m), N!Becomes(N!OnStop(e))
        PROVE  NavInv'
    <3> DEFINE g == N!OnStop(e)
    <3>1. /\ Sound(e) /\ SamePlace(frame, e) /\ e.prov = frame.prov /\ e.pending = frame.pending
          /\ Quiet(frame.said) => Quiet(e.said)
      BY <1>2, <1>4, <2>4, SendKeeps
    <3>2. /\ Sound(g) /\ SamePlace(e, g) /\ (Quiet(e.said) => Quiet(g.said))
          /\ g.pending = N!NoRequest /\ g.prov = N!NoSource
      BY <1>2, <3>1, StopKeeps
    <3>3. N!Becomes(g)
      BY <2>4
    <3> HIDE DEF g
    <3>4. SamePlace(frame, g)
      BY <3>1, <3>2 DEF SamePlace
    <3> QED BY <1>2, <1>4, <1>7, <2>1, <3>1, <3>2, <3>3, <3>4
  <2>5. CASE N!Becomes(N!OnStop(a))
    <3> DEFINE m == [type |-> "OpenURL", replace |->
                       IF N!IsBrowserInitiated(frame.pending) THEN frame.pending.replace
                       ELSE src.ctype = "Inert" /\ frame.length > 0]
    <3>1. a = N!Send(frame, m) /\ ~ Adds(m) /\ True(m, n)
      BY DEF N!OpenURL, Adds, True
    <3> HIDE DEF m, a
    <3> QED BY <2>4, <2>5, <3>1
  <2>6. CASE N!Becomes(N!OnStop(b))
    <3> DEFINE m == [type |-> "BeginNavigation", replace |-> frame.length > 0 /\ src.ctype = "Inert"]
    <3>1. b = N!Send(frame, m) /\ ~ Adds(m) /\ True(m, n)
      BY DEF N!BeginNavigation, Adds, True
    <3> HIDE DEF m, b
    <3> QED BY <2>4, <2>6, <3>1
  <2>7. CASE N!Becomes(c)
    <3>1. Serves(frame.prov, n)
      BY <1>2, <2>1 DEF Sound
    <3>2. src = [frame.prov EXCEPT !.url = url]
      OBVIOUS
    <3> HIDE DEF src
    <3>3. IsSource(src) /\ src.cause = frame.prov.cause /\ src.of = frame.prov.of /\ src.url = url
      BY <3>1, <3>2 DEF Serves, IsSource
    <3>4. Serves(src, n)
      BY <3>1, <3>3 DEF Serves, N!Urls
    <3>5. c = [frame EXCEPT !.prov = src]
      BY <1>2, <3>2 DEF Sound, IsFrame
    <3> HIDE DEF c
    <3>6. /\ IsFrame(c) /\ c.prov = src /\ c.pending = frame.pending /\ c.said = frame.said
          /\ SamePlace(frame, c)
      BY <1>2, <3>5 DEF Sound, IsFrame, SamePlace
    <3>7. Sound(c)
      BY <1>2, <3>4, <3>6 DEF Sound, SamePlace
    <3>8. ~ c.swappedOut
      BY <2>3, <3>6 DEF SamePlace
    <3> QED BY <1>2, <1>4, <1>7, <2>1, <2>7, <3>3, <3>6, <3>7, <3>8
  <2> QED BY <2>2, <2>5, <2>6, <2>7
<1>14. CASE N!FailProvisionalLoad
  <2>1. PICK error \in {"aborted", "network"} :
          /\ frame.prov # N!NoSource /\ UNCHANGED <<browserSide, loads, raced>>
          /\ N!Becomes(N!didFailProvisionalLoad(frame, error))
    BY <1>14 DEF N!FailProvisionalLoad
  <2> DEFINE g == N!didFailProvisionalLoad(frame, error)
  <2>2. /\ Sound(g) /\ SamePlace(frame, g) /\ (Quiet(frame.said) => Quiet(g.said))
        /\ g.pending = N!NoRequest
        /\ g.prov = N!NoSource \/ g.prov.of = N!NoRequest \/ g.prov.of = frame.prov.of
    BY <1>2, <2>1, FailKeeps
  <2>3. N!Becomes(g)
    BY <2>1
  <2> HIDE DEF g
  <2>4. ~ g.swappedOut
    BY <1>2, <2>1, <2>2 DEF SamePlace
  <2> QED BY <1>2, <1>4, <1>7, <2>1, <2>2, <2>3, <2>4
<1>15. CASE N!CommitProvisionalLoad
  <2> DEFINE none == [frame EXCEPT !.prov = N!NoSource]
             g == N!didCommitProvisionalLoad(none, frame.prov)
  <2>1. /\ frame.prov # N!NoSource /\ UNCHANGED <<browserSide, loads, raced>> /\ N!Becomes(g)
    BY <1>15 DEF N!CommitProvisionalLoad
  <2>2. none = [frame EXCEPT !.prov = N!NoSource]
    OBVIOUS
  <2> HIDE DEF none
  <2>3. /\ IsFrame(none) /\ none.prov = N!NoSource /\ none.pending = frame.pending
        /\ none.said = frame.said /\ SamePlace(frame, none)
    BY <1>2, <2>2 DEF Sound, IsFrame, SamePlace
  <2>4. Sound(none) /\ none.nextPage = n
    BY <1>2, <2>3 DEF Sound, SamePlace
  <2>5. Serves(frame.prov, none.nextPage)
    BY <1>2, <2>1, <2>4 DEF Sound
  <2>6. /\ Sound(g) /\ g.prov = none.prov /\ g.pending = none.pending
        /\ g.doc.url = frame.prov.url /\ g.swappedOut = none.swappedOut /\ none.nextPage <= g.nextPage
        /\ none.offset < none.length /\ (Aims(frame.prov.of) => frame.prov.of.offset < none.length)
             => g.offset < g.length
    BY <1>1, <1>2, <2>4, <2>5, CommitKeeps
  <2> HIDE DEF g
  <2>7. raced' \/ g.offset < g.length
    <3>1. none.offset = frame.offset /\ none.length = frame.length
      BY <2>3 DEF SamePlace
    <3>2. ~ raced /\ Aims(frame.prov.of) => frame.prov.of.offset < frame.length
      BY <1>2, <2>1 DEF Stands
    <3> QED BY <1>6, <2>1, <2>6, <3>1, <3>2
  <2>8. ~ g.swappedOut
    BY <1>2, <2>1, <2>3, <2>6 DEF SamePlace
  <2> QED BY <1>2, <2>1, <2>3, <2>4, <2>6, <2>7, <2>8, BecomesKeeps
<1>16. CASE N!FinishDocumentLoad
  <2> DEFINE heard == N!Say(frame, "DidFinishDocumentLoad")
             s == N!Wanted(0, "error", "Inert", heard.doc.doc)
             g == N!StartLoad(heard, s)
  <2>1. frame.doc.url = "page" /\ N!CountLoad /\ N!Becomes(g) /\ UNCHANGED <<browserSide, raced>>
    BY <1>16 DEF N!FinishDocumentLoad, N!LoadNavigationErrorPage
  <2>2. /\ Sound(heard) /\ SamePlace(frame, heard) /\ heard.pending = N!NoRequest /\ Quiet(heard.said)
    BY <1>2, <1>4, SayKeeps
  <2> HIDE DEF heard
  <2>3. IsSource(s) /\ s.cause = 0 /\ s.url = "error"
    BY DEF N!Wanted, IsSource
  <2> HIDE DEF s
  <2>4. Given(heard) = N!NoRequest /\ s.cause = Given(heard).id /\ Known(Given(heard), heard.nextPage)
    BY <2>2, <2>3, GivenIs
  <2>5. /\ Sound(g) /\ SamePlace(heard, g) /\ g.pending = N!NoRequest /\ g.prov = Starts(heard, s)
        /\ Quiet(heard.said) => Quiet(g.said)
    BY <2>2, <2>3, <2>4, StartLoadKeeps
  <2>6. g.prov.of = N!NoRequest
    BY <2>2, <2>3, <2>4, <2>5, StartsIs
  <2> HIDE DEF g
  <2>7. SamePlace(frame, g) /\ ~ g.swappedOut
    BY <1>2, <2>1, <2>2, <2>5 DEF SamePlace
  <2> QED BY <1>5, <1>7, <2>1, <2>2, <2>5, <2>6, <2>7
<1>17. CASE N!Stop
  <2>1. frame.prov # N!NoSource /\ N!Becomes(N!OnStop(frame)) /\ UNCHANGED <<browserSide, loads, raced>>
    BY <1>17 DEF N!Stop
  <2> DEFINE g == N!OnStop(frame)
  <2>2. /\ Sound(g) /\ SamePlace(frame, g) /\ (Quiet(frame.said) => Quiet(g.said))
        /\ g.pending = N!NoRequest /\ g.prov = N!NoSource
    BY <1>2, StopKeeps
  <2>3. N!Becomes(g)
    BY <2>1
  <2> HIDE DEF g
  <2> QED BY <1>2, <1>4, <1>7, <2>1, <2>2, <2>3
<1>18. CASE N!SwapOut
  <2> DEFINE g == N!OnSwapOut(frame)
  <2>1. N!CountLoad /\ N!Becomes(g) /\ UNCHANGED <<browserSide, raced>>
    BY <1>18 DEF N!SwapOut
  <2>2. /\ Sound(g) /\ g.pending = N!NoRequest /\ g.swappedOut /\ g.prov = N!NoSource
        /\ g.doc.url = "swappedout:" /\ n <= g.nextPage
        /\ frame.offset < frame.length => g.offset < g.length
    BY <1>1, <1>2, SwapOutKeeps
  <2> HIDE DEF g
  <2>3. raced' \/ g.offset < g.length
    BY <1>6, <2>1, <2>2
  <2>4. raced' \in BOOLEAN
    BY <1>2, <2>1
  <2> QED BY <1>5, <2>1, <2>2, <2>3, <2>4, BecomesKeeps
<1>19. CASE N!BeforeUnload
  <2>1. PICK user \in BOOLEAN : N!Becomes(N!OnBeforeUnload(frame, user)) /\ UNCHANGED <<browserSide, loads, raced>>
    BY <1>19 DEF N!BeforeUnload
  <2> DEFINE m == [type |-> "BeforeUnload_ACK", proceed |-> N!runModalBeforeUnloadDialog(frame, user)]
             g == N!Send(frame, m)
  <2>2. N!Becomes(g) /\ True(m, n) /\ ~ Adds(m)
    BY <2>1 DEF N!OnBeforeUnload, True, Adds
  <2> HIDE DEF m
  <2>3. /\ Sound(g) /\ SamePlace(frame, g) /\ g.prov = frame.prov /\ g.pending = frame.pending
        /\ Quiet(frame.said) /\ ~ Adds(m) => Quiet(g.said)
    BY <1>2, <2>2, SendKeeps
  <2> HIDE DEF g
  <2>4. g.swappedOut => g.prov = N!NoSource
    BY <1>2, <2>3 DEF SamePlace
  <2> QED BY <1>2, <1>4, <1>7, <2>1, <2>2, <2>3, <2>4
<1>20. CASE N!SuppressDialogsUntilSwapOut
  <2> DEFINE g == [frame EXCEPT !.suppress = TRUE]
  <2>1. N!Becomes(g) /\ UNCHANGED <<browserSide, loads, raced>>
    BY <1>20 DEF N!SuppressDialogsUntilSwapOut
  <2>2. g = [frame EXCEPT !.suppress = TRUE]
    OBVIOUS
  <2> HIDE DEF g
  <2>3. /\ IsFrame(g) /\ g.pending = frame.pending /\ g.offset = frame.offset
        /\ g.length = frame.length /\ g.page = frame.page /\ g.nextPage = frame.nextPage
        /\ g.current = frame.current /\ g.suppress \in BOOLEAN /\ g.prov = frame.prov
        /\ g.doc = frame.doc /\ g.said = frame.said /\ g.swappedOut = frame.swappedOut
    BY <1>2, <2>2 DEF Sound, IsFrame
  <2>4. Sound(g)
    BY <1>2, <2>3 DEF Sound
  <2>5. raced' \/ g.offset < g.length
    BY <1>6, <2>1, <2>3
  <2>6. g.prov # N!NoSource /\ Aims(g.prov.of) /\ ~ raced' =>
          /\ NoNew(browser.inbox) /\ Quiet(g.said)
          /\ g.prov.of.offset < Len(browser.entries) /\ g.prov.of.offset < g.length
    BY <1>2, <1>4, <2>1, <2>3 DEF Stands
  <2>7. g.swappedOut => g.prov = N!NoSource /\ g.doc.url = "swappedout:"
    BY <1>2, <2>3
  <2>8. raced' \in BOOLEAN /\ loads' \in 0 .. MaxLoads /\ n <= g.nextPage /\ g.pending = N!NoRequest
    BY <1>2, <2>1, <2>3
  <2> QED BY <2>1, <2>4, <2>5, <2>6, <2>7, <2>8, BecomesKeeps
<1>21. CASE N!didChangeOpener
  <2> DEFINE shut == [frame EXCEPT !.opener = FALSE]
             g == N!Say(shut, "DidChangeOpener")
  <2>1. ~ frame.swappedOut /\ N!Becomes(g) /\ UNCHANGED <<browserSide, loads, raced>>
    BY <1>21 DEF N!didChangeOpener
  <2>2. shut = [frame EXCEPT !.opener = FALSE]
    OBVIOUS
  <2> HIDE DEF shut
  <2>3. /\ IsFrame(shut) /\ shut.pending = frame.pending /\ shut.prov = frame.prov
        /\ shut.said = frame.said /\ SamePlace(frame, shut)
    BY <1>2, <2>2 DEF Sound, IsFrame, SamePlace
  <2>4. Sound(shut)
    BY <1>2, <2>3 DEF Sound, SamePlace
  <2>5. /\ Sound(g) /\ SamePlace(shut, g) /\ g.prov = shut.prov /\ g.pending = shut.pending
        /\ Quiet(shut.said) => Quiet(g.said)
    BY <2>4, SayKeeps
  <2> HIDE DEF g
  <2>6. SamePlace(frame, g) /\ ~ g.swappedOut
    BY <2>1, <2>3, <2>5 DEF SamePlace
  <2> QED BY <1>2, <1>4, <1>7, <2>1, <2>3, <2>5, <2>6
<1>22. CASE N!BrowserHearsCommit
  BY <1>22, <1>1, HearingKeeps
<1> QED
  BY <1>9, <1>10, <1>11, <1>12, <1>13, <1>14, <1>15, <1>16, <1>17, <1>18, <1>19, <1>20, <1>21, <1>22
  DEF N!Next

LEMMA NavigationIsTrue ==
  ASSUME NavInv
  PROVE  HistoryIsTrue
<1>1. /\ browserSide \in BOOLEAN /\ raced \in BOOLEAN /\ loads \in 0 .. MaxLoads /\ Sound(frame)
      /\ frame.said = <<>> /\ Stands(frame, browser, raced) /\ Fair(said)
      /\ frame.swappedOut => frame.prov = N!NoSource /\ frame.doc.url = "swappedout:"
  BY DEF NavInv, Rests
<1>2. N!TypeOK
  BY <1>1 DEF N!TypeOK, Sound, Most
<1>3. N!CommitNamesItsRequest /\ N!StateUpdatesNameTheirPage
  BY <1>1 DEF Fair, N!CommitNamesItsRequest, N!StateUpdatesNameTheirPage
<1>4. N!SwappedOutIsBlank
  BY <1>1 DEF N!SwappedOutIsBlank
<1>5. N!StandsInHistory
  BY <1>1 DEF Stands, N!StandsInHistory
<1> QED BY <1>2, <1>3, <1>4, <1>5 DEF HistoryIsTrue, N!HistoryIsTrue

\* What the browser hears of session history is true, as long as the embedder shows
\* every error page: a commit names the request that led to it, a page's state is filed
\* under that page, the view stands on an entry it counts, and a frame that is swapped
\* out is blank (render_frame_impl.cc: didCreateDataSource, didCommitProvisionalLoad,
\* NavigateInternal, OnFailedNavigation, OnSwapOut).
THEOREM HistoryStaysTrue ==
  ASSUME MayDrop = FALSE
  PROVE  Spec => []HistoryIsTrue
<1>1. N!NavigationAssumption
  BY PageAssumption
<1>2. Init => NavInv
  BY <1>1, InitNavigation
<1>3. NavInv /\ [Next]_vars => NavInv'
  <2> SUFFICES ASSUME NavInv, [Next]_vars PROVE NavInv'
    OBVIOUS
  <2>1. CASE Navigation
    BY <1>1, <2>1, NavigationMoves DEF Navigation
  <2>2. CASE Text
    BY <2>2, NavigationRests DEF Text
  <2>3. CASE OfWidgets
    BY <2>3, NavigationRests DEF OfWidgets
  <2>4. CASE Input
    BY <2>4, NavigationRests DEF Input
  <2>5. CASE Requests
    BY <2>5, NavigationRests DEF Requests
  <2>6. CASE UNCHANGED vars
    BY <2>6, NavigationRests DEF vars
  <2> QED BY <2>1, <2>2, <2>3, <2>4, <2>5, <2>6 DEF Next
<1>4. NavInv => HistoryIsTrue
  BY NavigationIsTrue
<1> QED BY <1>2, <1>3, <1>4, PTL DEF Spec

-----------------------------------------------------------------------------
(* WidgetLife: the life of a widget, and what is said to it and by it.     *)

\* What the two sides know of a widget, what they say to each other, and the tasks.
Rw == [made : BOOLEAN, routed : BOOLEAN, hidden : BOOLEAN, swapped : BOOLEAN, webwidget : BOOLEAN,
       compositor : BOOLEAN, outputs : Nat, shown : BOOLEAN, pending : Nat, closing : BOOLEAN,
       host_closing : BOOLEAN]
Rwh == [made : BOOLEAN, renderer_initialized : BOOLEAN, hidden : BOOLEAN, view : BOOLEAN,
        gone : BOOLEAN, swapped : BOOLEAN]
ToWidget ==
  [type : {"New"}, w : Widgets, hidden : BOOLEAN, swapped : BOOLEAN]
    \cup [type : {"WasHidden", "WasShown", "Close", "Move_ACK"}, w : Widgets]
    \cup [type : {"SwapOut", "SwapIn"}, w : Widgets \cap {"view"}]
OfWidget == [type : {"ShowWidget", "RequestMove", "Close", "RouteCloseEvent"}, w : Widgets]
Task == [task : {"DoDeferredClose", "Close"}, w : Widgets]

\* The types; the counts are integers until they are known to be counts.
LifeTyped ==
  /\ rw \in [Widgets -> Rw] /\ rwh \in [Widgets -> Rwh]
  /\ thread \in [widgets : Int, hidden : Int, process : Int]
  /\ visible \in Int /\ acts \in 0 .. MaxActs /\ crashed \in BOOLEAN
  /\ sent \in Seq(ToWidget) /\ told \in Seq(OfWidget) /\ tasks \in Seq(Task)
  /\ leaks \in [closing : SUBSET Widgets, visible : Nat, webwidgets : SUBSET Widgets,
                moves : [Widgets -> Nat]]

Kinds(w, K) == {m \in ToWidget : m.w = w /\ m.type \in K}
Tells(w, K) == {m \in OfWidget : m.w = w /\ m.type \in K}
ToIt(w) == {m \in ToWidget : m.w = w}
OfIt(w) == {m \in OfWidget : m.w = w}
TasksOf(w, K) == {t \in Task : t.w = w /\ t.task \in K}
Moves(w) == Tells(w, {"RequestMove", "ShowWidget"})
AnyTask(w) == TasksOf(w, {"DoDeferredClose", "Close"})
CloseTask(w) == TasksOf(w, {"Close"})

Said(q, S) == \E i \in DOMAIN q : q[i] \in S

\* What the last word of the first n says, of the words A of which those in Y say yes;
\* b if there is none.
Says(q, n, A, Y, b) ==
  IF \A i \in 1 .. n : q[i] \notin A THEN b
  ELSE \E i \in 1 .. n : q[i] \in Y /\ \A j \in 1 .. n : q[j] \in A => j <= i

\* Whether a widget will be hidden, or swapped out, by the words q to it.
HideWords(w) == Kinds(w, {"New", "WasHidden", "WasShown"})
ToHide(w) == {m \in HideWords(w) : m.type = "WasHidden" \/ (m.type = "New" /\ m.hidden)}
SwapWords(w) == Kinds(w, {"New", "SwapOut", "SwapIn"})
ToSwap(w) == {m \in SwapWords(w) : m.type = "SwapOut" \/ (m.type = "New" /\ m.swapped)}

WillHide(w, q, b) == Says(q, Len(q), HideWords(w), ToHide(w), b)
WillSwap(w, q, b) == Says(q, Len(q), SwapWords(w), ToSwap(w), b)

\* The first word to a widget makes it.
MadeFirst(w, q) ==
  \A i, j \in DOMAIN q : q[j] \in Kinds(w, {"New"}) /\ q[i] \in ToIt(w) => j <= i

\* A widget is swapped in and out by turns.
ByTurns(w, q, b) ==
  \A i \in DOMAIN q : q[i] \in Kinds(w, {"SwapOut", "SwapIn"}) =>
    (q[i] \in ToSwap(w)) # Says(q, i - 1, SwapWords(w), ToSwap(w), b)

\* It is there, or will be.
Live(w, r, q) == r.routed \/ Said(q, Kinds(w, {"New"}))

\* A widget r of the renderer with its host h, the words q to it and t of it, its tasks ts,
\* its moves that nobody heard, and whether nobody heard that it closes.
Grown(w, r, h, q, t, ts, moves) ==
  /\ ~ r.made => r = W!Unmade
  /\ r.made => h.made
  /\ r.routed => r.made /\ ~ r.closing
  /\ r.made /\ ~ r.routed /\ r.webwidget => Said(ts, CloseTask(w))
  /\ Said(q, Kinds(w, {"New"})) => h.made /\ ~ r.made
  /\ ~ h.made => h = W!NoHost /\ ~ Said(q, ToIt(w))
  /\ ~ r.made /\ (Said(q, Kinds(w, {"New"})) \/ ~ h.made) =>
       ~ Said(t, OfIt(w)) /\ ~ Said(q, Kinds(w, {"Move_ACK"})) /\ moves = 0
  /\ MadeFirst(w, q)
  /\ h.gone /\ Live(w, r, q) => Said(q, Kinds(w, {"Close"}))
  /\ Said(ts, AnyTask(w)) => r.made
  /\ Said(ts, CloseTask(w)) => ~ r.routed

\* Its host's word on whether it is hidden, or swapped out, is the last one on its way.
Agrees(w, r, h, q) ==
  Live(w, r, q) =>
    /\ ~ h.gone => WillHide(w, q, r.hidden) = h.hidden
    /\ WillSwap(w, q, r.swapped) = h.swapped
    /\ ByTurns(w, q, r.swapped)

\* A pending move is on its way or was not heard, and who gave up to be closed is closed.
Owes(w, r, q, t, moves, unheard) ==
  r.routed =>
    /\ r.pending = Number(t, Moves(w)) + Number(q, Kinds(w, {"Move_ACK"})) + moves
    /\ r.host_closing => unheard \/ Said(t, Tells(w, {"Close"})) \/ Said(q, Kinds(w, {"Close"}))

Lived(w, r, h, q, t, ts, moves, unheard) ==
  Grown(w, r, h, q, t, ts, moves) /\ Agrees(w, r, h, q) /\ Owes(w, r, q, t, moves, unheard)

\* A widget that was made by the browser is initialized until the renderer crashes.
Lives(w) ==
  /\ Lived(w, rw[w], rwh[w], sent, told, tasks, leaks.moves[w], w \in leaks.closing)
  /\ w # "popup" /\ rwh[w].made /\ ~ crashed => rwh[w].renderer_initialized

\* The inductive invariant: every widget lives so, and is counted once on each side.
LifeKept ==
  /\ LifeTyped /\ (\A w \in Widgets : Lives(w))
  /\ W!ThreadCounts /\ W!ProcessCounts /\ W!OnlyTheFailedLeaks

LEMMA SaidAppend ==
  ASSUME NEW X, NEW q \in Seq(X), NEW m \in X, NEW S
  PROVE  Said(Append(q, m), S) = (Said(q, S) \/ m \in S)
<1> DEFINE r == Append(q, m)
           n == Len(q) + 1
<1>1. /\ Len(q) \in Nat /\ DOMAIN r = 1 .. n /\ DOMAIN q = 1 .. Len(q)
      /\ r[n] = m /\ \A i \in DOMAIN q : r[i] = q[i]
  OBVIOUS
<1> HIDE DEF r
<1>2. \A i \in DOMAIN r : i = n \/ i \in DOMAIN q
  BY <1>1
<1>3. n \in DOMAIN r /\ \A i \in DOMAIN q : i \in DOMAIN r
  BY <1>1
<1> QED BY <1>1, <1>2, <1>3 DEF Said, r

LEMMA SaidTail ==
  ASSUME NEW X, NEW q \in Seq(X), q # <<>>, NEW S
  PROVE  Said(q, S) = (Head(q) \in S \/ Said(Tail(q), S))
<1> DEFINE r == Tail(q)
<1>1. /\ Len(q) \in Nat /\ Len(q) >= 1 /\ DOMAIN q = 1 .. Len(q) /\ Head(q) = q[1]
      /\ DOMAIN r = 1 .. (Len(q) - 1) /\ \A i \in 1 .. (Len(q) - 1) : r[i] = q[i + 1]
  OBVIOUS
<1> HIDE DEF r
<1>2. \A i \in DOMAIN q : i = 1 \/ (i - 1 \in DOMAIN r /\ r[i - 1] = q[i])
  BY <1>1
<1>3. 1 \in DOMAIN q /\ \A i \in DOMAIN r : i + 1 \in DOMAIN q /\ r[i] = q[i + 1]
  BY <1>1
<1> QED BY <1>1, <1>2, <1>3 DEF Said, r

LEMMA SaysIsBoolean ==
  ASSUME NEW q, NEW n, NEW A, NEW Y, NEW b \in BOOLEAN
  PROVE  Says(q, n, A, Y, b) \in BOOLEAN
BY DEF Says

LEMMA SaysAppend ==
  ASSUME NEW X, NEW q \in Seq(X), NEW m \in X, NEW A, NEW Y, Y \subseteq A, NEW b \in BOOLEAN
  PROVE  /\ \A n \in 0 .. Len(q) : Says(Append(q, m), n, A, Y, b) = Says(q, n, A, Y, b)
         /\ Says(Append(q, m), Len(q) + 1, A, Y, b) = IF m \in A THEN m \in Y ELSE Says(q, Len(q), A, Y, b)
<1> DEFINE r == Append(q, m)
           k == Len(q) + 1
<1>1. /\ Len(q) \in Nat /\ r[k] = m /\ \A i \in 1 .. Len(q) : r[i] = q[i]
  OBVIOUS
<1> HIDE DEF r
<1>2. \A n \in 0 .. Len(q) : Says(r, n, A, Y, b) = Says(q, n, A, Y, b)
  <2> TAKE n \in 0 .. Len(q)
  <2>1. \A i \in 1 .. n : r[i] = q[i]
    BY <1>1
  <2> QED BY <2>1 DEF Says
<1>3. \A i : i \in 1 .. k <=> i \in 1 .. Len(q) \/ i = k
  BY <1>1
<1>4. k \in Nat /\ \A i \in 1 .. k : i <= k
  BY <1>1
<1>5. CASE m \in A
  <2>1. \A i \in 1 .. k : (\A j \in 1 .. k : r[j] \in A => j <= i) => i = k
    <3> SUFFICES ASSUME NEW i \in 1 .. k, \A j \in 1 .. k : r[j] \in A => j <= i PROVE i = k
      OBVIOUS
    <3>1. k <= i
      BY <1>1, <1>3, <1>5
    <3> QED BY <1>4, <3>1
  <2>2. Says(r, k, A, Y, b) = (\E i \in 1 .. k : r[i] \in Y /\ \A j \in 1 .. k : r[j] \in A => j <= i)
    BY <1>1, <1>3, <1>5 DEF Says
  <2>3. k \in 1 .. k
    BY <1>3
  <2>4. (\E i \in 1 .. k : r[i] \in Y /\ \A j \in 1 .. k : r[j] \in A => j <= i) <=> m \in Y
    BY <1>1, <1>4, <2>1, <2>3
  <2>5. Says(r, k, A, Y, b) = (m \in Y)
    <3>1. Says(r, k, A, Y, b) <=> m \in Y
      BY <2>2, <2>4
    <3>2. Says(r, k, A, Y, b) \in BOOLEAN /\ (m \in Y) \in BOOLEAN
      BY SaysIsBoolean
    <3> QED BY <3>1, <3>2
  <2> QED BY <1>2, <1>5, <2>5 DEF r
<1>6. CASE m \notin A
  <2>1. (\A i \in 1 .. k : r[i] \notin A) <=> (\A i \in 1 .. Len(q) : q[i] \notin A)
    BY <1>1, <1>3, <1>6
  <2>2. \A i \in 1 .. Len(q) : (\A j \in 1 .. k : r[j] \in A => j <= i) <=> (\A j \in 1 .. Len(q) : q[j] \in A => j <= i)
    BY <1>1, <1>3, <1>6
  <2>3. (\E i \in 1 .. k : r[i] \in Y /\ \A j \in 1 .. k : r[j] \in A => j <= i)
          <=> (\E i \in 1 .. Len(q) : q[i] \in Y /\ \A j \in 1 .. Len(q) : q[j] \in A => j <= i)
    BY <1>1, <1>3, <1>6, <2>2
  <2>4. Says(r, k, A, Y, b) = Says(q, Len(q), A, Y, b)
    BY <2>1, <2>3 DEF Says
  <2> QED BY <1>2, <1>6, <2>4 DEF r
<1> QED BY <1>5, <1>6

LEMMA SaysTail ==
  ASSUME NEW X, NEW q \in Seq(X), q # <<>>, NEW A, NEW Y, Y \subseteq A, NEW b \in BOOLEAN, NEW n \in 1 .. Len(q)
  PROVE  Says(q, n, A, Y, b) = Says(Tail(q), n - 1, A, Y, IF Head(q) \in A THEN Head(q) \in Y ELSE b)
<1> DEFINE r == Tail(q)
           c == IF Head(q) \in A THEN Head(q) \in Y ELSE b
           l == n - 1
<1>1. /\ n \in Nat /\ l \in Nat /\ n >= 1 /\ n = l + 1 /\ Head(q) = q[1]
      /\ \A i \in 1 .. l : r[i] = q[i + 1]
  OBVIOUS
<1>2. c \in BOOLEAN
  <2>1. CASE Head(q) \in A
    BY <2>1
  <2>2. CASE Head(q) \notin A
    BY <2>2
  <2> QED BY <2>1, <2>2
<1> HIDE DEF r, l
<1>3. \A i \in 1 .. l : i \in Nat /\ i >= 1 /\ i + 1 \in 1 .. n /\ q[i + 1] = r[i]
  BY <1>1
<1>4. \A i \in 1 .. n : i \in Nat /\ (i = 1 \/ (i > 1 /\ i - 1 \in 1 .. l /\ r[i - 1] = q[i]))
  BY <1>1
<1>5. 1 \in 1 .. n
  BY <1>1
<1>6. CASE \E k \in 1 .. l : r[k] \in A
  <2>1. PICK k \in 1 .. l : r[k] \in A
    BY <1>6
  <2>2. k + 1 \in 1 .. n /\ q[k + 1] \in A /\ k \in Nat /\ k >= 1
    BY <1>3, <2>1
  <2>3. Says(q, n, A, Y, b) = (\E i \in 1 .. n : q[i] \in Y /\ \A j \in 1 .. n : q[j] \in A => j <= i)
    BY <2>2 DEF Says
  <2>4. Says(r, l, A, Y, c) = (\E i \in 1 .. l : r[i] \in Y /\ \A j \in 1 .. l : r[j] \in A => j <= i)
    BY <2>1 DEF Says
  <2>5. ASSUME NEW i \in 1 .. n, q[i] \in Y, \A j \in 1 .. n : q[j] \in A => j <= i
        PROVE  \E h \in 1 .. l : r[h] \in Y /\ \A j \in 1 .. l : r[j] \in A => j <= h
    <3>1. k + 1 <= i /\ i \in Nat
      BY <1>4, <2>2, <2>5
    <3>2. i - 1 \in 1 .. l /\ r[i - 1] = q[i]
      BY <1>4, <2>2, <3>1
    <3>3. \A j \in 1 .. l : r[j] \in A => j <= i - 1
      <4> SUFFICES ASSUME NEW j \in 1 .. l, r[j] \in A PROVE j <= i - 1
        OBVIOUS
      <4>1. j + 1 <= i /\ j \in Nat
        BY <1>3, <2>5
      <4> QED BY <3>1, <4>1
    <3> QED BY <2>5, <3>2, <3>3
  <2>6. ASSUME NEW i \in 1 .. l, r[i] \in Y, \A j \in 1 .. l : r[j] \in A => j <= i
        PROVE  \E h \in 1 .. n : q[h] \in Y /\ \A j \in 1 .. n : q[j] \in A => j <= h
    <3>1. i + 1 \in 1 .. n /\ q[i + 1] \in Y /\ i \in Nat
      BY <1>3, <2>6
    <3>2. \A j \in 1 .. n : q[j] \in A => j <= i + 1
      <4> SUFFICES ASSUME NEW j \in 1 .. n, q[j] \in A PROVE j <= i + 1
        OBVIOUS
      <4>1. CASE j = 1
        BY <3>1, <4>1
      <4>2. CASE j # 1
        <5>1. j - 1 \in 1 .. l /\ r[j - 1] = q[j] /\ j \in Nat
          BY <1>4, <4>2
        <5>2. j - 1 <= i
          BY <2>6, <5>1
        <5> QED BY <3>1, <5>1, <5>2
      <4> QED BY <4>1, <4>2
    <3> QED BY <3>1, <3>2
  <2>7. (\E i \in 1 .. n : q[i] \in Y /\ \A j \in 1 .. n : q[j] \in A => j <= i)
          <=> (\E i \in 1 .. l : r[i] \in Y /\ \A j \in 1 .. l : r[j] \in A => j <= i)
    BY <2>5, <2>6
  <2> HIDE DEF c
  <2>8. Says(q, n, A, Y, b) = Says(r, l, A, Y, c)
    BY <2>3, <2>4, <2>7
  <2> QED BY <2>8 DEF r, l, c
<1>7. CASE \A k \in 1 .. l : r[k] \notin A
  <2>1. Says(r, l, A, Y, c) = c
    BY <1>7 DEF Says
  <2>2. \A i \in 1 .. n : q[i] \in A => i = 1
    BY <1>4, <1>7
  <2>3. CASE Head(q) \in A
    <3>1. Says(q, n, A, Y, b) = (\E i \in 1 .. n : q[i] \in Y /\ \A j \in 1 .. n : q[j] \in A => j <= i)
      BY <1>1, <1>5, <2>3 DEF Says
    <3>2. (\E i \in 1 .. n : q[i] \in Y /\ \A j \in 1 .. n : q[j] \in A => j <= i) <=> q[1] \in Y
      <4>1. \A i \in 1 .. n : q[i] \in Y => i = 1
        BY <2>2
      <4>2. \A j \in 1 .. n : q[j] \in A => j <= 1
        BY <2>2
      <4> QED BY <1>5, <4>1, <4>2
    <3>3. Says(q, n, A, Y, b) <=> q[1] \in Y
      BY <3>1, <3>2
    <3>4. Says(q, n, A, Y, b) \in BOOLEAN /\ (q[1] \in Y) \in BOOLEAN
      BY SaysIsBoolean
    <3>5. Says(q, n, A, Y, b) = (q[1] \in Y)
      BY <3>3, <3>4
    <3>6. c = (q[1] \in Y)
      BY <1>1, <2>3
    <3>7. Says(q, n, A, Y, b) = Says(r, l, A, Y, c)
      BY <2>1, <3>5, <3>6
    <3> QED BY <3>7 DEF r, l
  <2>4. CASE Head(q) \notin A
    <3>1. \A i \in 1 .. n : q[i] \notin A
      BY <1>1, <2>2, <2>4
    <3>2. Says(q, n, A, Y, b) = b
      BY <3>1 DEF Says
    <3> QED BY <2>1, <2>4, <3>2 DEF r, l
  <2> QED BY <2>3, <2>4
<1> QED BY <1>6, <1>7

\* The word that makes a widget stays the first to it.
LEMMA FirstAppend ==
  ASSUME NEW w, NEW q \in Seq(ToWidget), NEW m \in ToWidget, MadeFirst(w, q),
         m \in Kinds(w, {"New"}) => ~ Said(q, ToIt(w))
  PROVE  MadeFirst(w, Append(q, m))
<1> DEFINE r == Append(q, m)
           n == Len(q) + 1
<1>1. /\ Len(q) \in Nat /\ DOMAIN r = 1 .. n /\ DOMAIN q = 1 .. Len(q)
      /\ r[n] = m /\ \A i \in DOMAIN q : r[i] = q[i]
  OBVIOUS
<1> HIDE DEF r
<1>2. \A i \in DOMAIN r : i \in Nat /\ i <= n /\ (i = n \/ i \in DOMAIN q)
  BY <1>1
<1>3. \A i, j \in DOMAIN r : r[j] \in Kinds(w, {"New"}) /\ r[i] \in ToIt(w) => j <= i
  <2> SUFFICES ASSUME NEW i \in DOMAIN r, NEW j \in DOMAIN r, r[j] \in Kinds(w, {"New"}), r[i] \in ToIt(w)
               PROVE  j <= i
    OBVIOUS
  <2>1. CASE i = n
    BY <1>2, <2>1
  <2>2. CASE i # n /\ j # n
    BY <1>1, <1>2, <2>2 DEF MadeFirst
  <2>3. CASE i # n /\ j = n
    BY <1>1, <1>2, <2>3 DEF Said
  <2> QED BY <2>1, <2>2, <2>3
<1> QED BY <1>3 DEF MadeFirst, r

LEMMA FirstTail ==
  ASSUME NEW w, NEW q \in Seq(ToWidget), q # <<>>, MadeFirst(w, q)
  PROVE  /\ MadeFirst(w, Tail(q))
         /\ Head(q) \in ToIt(w) => ~ Said(Tail(q), Kinds(w, {"New"}))
<1> DEFINE r == Tail(q)
<1>1. /\ Len(q) \in Nat /\ Len(q) >= 1 /\ DOMAIN q = 1 .. Len(q) /\ Head(q) = q[1]
      /\ DOMAIN r = 1 .. (Len(q) - 1) /\ \A i \in 1 .. (Len(q) - 1) : r[i] = q[i + 1]
  OBVIOUS
<1> HIDE DEF r
<1>2. 1 \in DOMAIN q /\ \A i \in DOMAIN r : i \in Nat /\ i >= 1 /\ i + 1 \in DOMAIN q /\ r[i] = q[i + 1]
  BY <1>1
<1>3. MadeFirst(w, r)
  <2> SUFFICES ASSUME NEW i \in DOMAIN r, NEW j \in DOMAIN r, r[j] \in Kinds(w, {"New"}), r[i] \in ToIt(w)
               PROVE  j <= i
    BY DEF MadeFirst
  <2>1. j + 1 <= i + 1
    BY <1>2 DEF MadeFirst
  <2> QED BY <1>2, <2>1
<1>4. ASSUME q[1] \in ToIt(w), NEW j \in DOMAIN r, r[j] \in Kinds(w, {"New"}) PROVE FALSE
  <2>1. j + 1 <= 1
    BY <1>2, <1>4 DEF MadeFirst
  <2> QED BY <1>2, <2>1
<1> QED BY <1>1, <1>3, <1>4 DEF Said, r

LEMMA SwapSubsets == \A w : ToSwap(w) \subseteq SwapWords(w) /\ ToHide(w) \subseteq HideWords(w)
BY DEF ToSwap, ToHide

LEMMA TurnsAppend ==
  ASSUME NEW w, NEW q \in Seq(ToWidget), NEW m \in ToWidget, NEW b \in BOOLEAN, ByTurns(w, q, b),
         m \in Kinds(w, {"SwapOut", "SwapIn"}) =>
           (m \in ToSwap(w)) # Says(q, Len(q), SwapWords(w), ToSwap(w), b)
  PROVE  ByTurns(w, Append(q, m), b)
<1> DEFINE r == Append(q, m)
           n == Len(q) + 1
           A == SwapWords(w)
           Y == ToSwap(w)
           S == Kinds(w, {"SwapOut", "SwapIn"})
<1>1. /\ Len(q) \in Nat /\ DOMAIN r = 1 .. n /\ DOMAIN q = 1 .. Len(q)
      /\ r[n] = m /\ \A i \in DOMAIN q : r[i] = q[i]
  OBVIOUS
<1> HIDE DEF r
<1>2. \A k \in 0 .. Len(q) : Says(r, k, A, Y, b) = Says(q, k, A, Y, b)
  BY SwapSubsets, SaysAppend DEF r
<1>3. \A i \in DOMAIN r : i - 1 \in 0 .. Len(q) /\ (i = n \/ i \in DOMAIN q) /\ n - 1 = Len(q)
  BY <1>1
<1> HIDE DEF A, Y, S
<1>4. \A i \in DOMAIN q : q[i] \in S => (q[i] \in Y) # Says(q, i - 1, A, Y, b)
  BY DEF ByTurns, A, Y, S
<1>5. m \in S => (m \in Y) # Says(q, Len(q), A, Y, b)
  BY DEF A, Y, S
<1>6. \A i \in DOMAIN r : r[i] \in S => (r[i] \in Y) # Says(r, i - 1, A, Y, b)
  <2> SUFFICES ASSUME NEW i \in DOMAIN r, r[i] \in S PROVE (r[i] \in Y) # Says(r, i - 1, A, Y, b)
    OBVIOUS
  <2>1. Says(r, i - 1, A, Y, b) = Says(q, i - 1, A, Y, b)
    BY <1>2, <1>3
  <2>2. CASE i = n
    BY <1>1, <1>3, <1>5, <2>1, <2>2
  <2>3. CASE i \in DOMAIN q
    BY <1>1, <1>4, <2>1, <2>3
  <2> QED BY <1>3, <2>2, <2>3
<1> QED BY <1>6 DEF ByTurns, A, Y, S, r

LEMMA TurnsTail ==
  ASSUME NEW w, NEW q \in Seq(ToWidget), q # <<>>, NEW b \in BOOLEAN, ByTurns(w, q, b)
  PROVE  /\ ByTurns(w, Tail(q), IF Head(q) \in SwapWords(w) THEN Head(q) \in ToSwap(w) ELSE b)
         /\ Head(q) \in Kinds(w, {"SwapOut", "SwapIn"}) => (Head(q) \in ToSwap(w)) # b
<1> DEFINE r == Tail(q)
           A == SwapWords(w)
           Y == ToSwap(w)
           S == Kinds(w, {"SwapOut", "SwapIn"})
           c == IF Head(q) \in A THEN Head(q) \in Y ELSE b
<1>1. /\ Len(q) \in Nat /\ Len(q) >= 1 /\ DOMAIN q = 1 .. Len(q) /\ Head(q) = q[1]
      /\ DOMAIN r = 1 .. (Len(q) - 1) /\ \A i \in 1 .. (Len(q) - 1) : r[i] = q[i + 1]
  OBVIOUS
<1>2. \A n \in 1 .. Len(q) : Says(q, n, A, Y, b) = Says(r, n - 1, A, Y, c)
  BY SwapSubsets, SaysTail
<1> HIDE DEF r, c, A, Y, S
<1>3. \A i \in DOMAIN q : q[i] \in S => (q[i] \in Y) # Says(q, i - 1, A, Y, b)
  BY DEF ByTurns, A, Y, S
<1>4. \A i \in DOMAIN r : r[i] \in S => (r[i] \in Y) # Says(r, i - 1, A, Y, c)
  <2> SUFFICES ASSUME NEW i \in DOMAIN r, r[i] \in S PROVE (r[i] \in Y) # Says(r, i - 1, A, Y, c)
    OBVIOUS
  <2>1. i + 1 \in DOMAIN q /\ r[i] = q[i + 1] /\ i \in 1 .. Len(q) /\ (i + 1) - 1 = i
    BY <1>1
  <2>2. Says(q, i, A, Y, b) = Says(r, i - 1, A, Y, c)
    BY <1>2, <2>1
  <2>3. (q[i + 1] \in Y) # Says(q, (i + 1) - 1, A, Y, b)
    BY <1>3, <2>1
  <2> QED BY <2>1, <2>2, <2>3
<1>5. q[1] \in S => (q[1] \in Y) # b
  <2>1. Says(q, 0, A, Y, b) = b
    BY DEF Says
  <2>2. 1 \in DOMAIN q /\ 1 - 1 = 0
    BY <1>1
  <2>3. q[1] \in S => (q[1] \in Y) # Says(q, 1 - 1, A, Y, b)
    BY <1>3, <2>2
  <2> QED BY <2>1, <2>2, <2>3
<1> QED BY <1>1, <1>4, <1>5 DEF ByTurns, A, Y, S, r, c

-----------------------------------------------------------------------------
(* What is said to other widgets and by them.                              *)

\* A word more or less, but none that is to w or of it.
OfOthers(w, q, r) ==
  \/ r = q
  \/ \E m : m.w # w /\ r = Append(q, m)
  \/ q # <<>> /\ Head(q).w # w /\ r = Tail(q)

LEMMA OthersSaid ==
  ASSUME NEW X, NEW w, NEW q \in Seq(X), NEW r \in Seq(X), OfOthers(w, q, r), NEW S, \A m \in S : m.w = w
  PROVE  Said(r, S) = Said(q, S) /\ Number(r, S) = Number(q, S)
<1>1. CASE r = q
  BY <1>1
<1>2. CASE \E m : m.w # w /\ r = Append(q, m)
  <2>1. PICK m : m.w # w /\ r = Append(q, m)
    BY <1>2
  <2>2. m \in X /\ m \notin S
    <3>1. r[Len(q) + 1] = m /\ Len(r) = Len(q) + 1
      BY <2>1
    <3>2. Len(q) + 1 \in 1 .. Len(r)
      BY <3>1
    <3> QED BY <2>1, <3>1, <3>2
  <2> QED BY <2>1, <2>2, SaidAppend, NumberAppend DEF Said
<1>3. CASE q # <<>> /\ Head(q).w # w /\ r = Tail(q)
  <2>1. Head(q) \notin S
    BY <1>3
  <2> QED BY <1>3, <2>1, SaidTail, NumberTail DEF Said
<1> QED BY <1>1, <1>2, <1>3 DEF OfOthers

LEMMA OthersSay ==
  ASSUME NEW w, NEW q \in Seq(ToWidget), NEW r \in Seq(ToWidget), OfOthers(w, q, r)
  PROVE  /\ \A b \in BOOLEAN :
              /\ Says(r, Len(r), HideWords(w), ToHide(w), b) = Says(q, Len(q), HideWords(w), ToHide(w), b)
              /\ Says(r, Len(r), SwapWords(w), ToSwap(w), b) = Says(q, Len(q), SwapWords(w), ToSwap(w), b)
              /\ ByTurns(w, q, b) => ByTurns(w, r, b)
         /\ MadeFirst(w, q) => MadeFirst(w, r)
<1>1. CASE r = q
  BY <1>1
<1>2. CASE \E m : m.w # w /\ r = Append(q, m)
  <2>1. PICK m : m.w # w /\ r = Append(q, m)
    BY <1>2
  <2>2. m \in ToWidget
    <3>1. r[Len(q) + 1] = m /\ Len(r) = Len(q) + 1
      BY <2>1
    <3>2. Len(q) + 1 \in 1 .. Len(r)
      BY <3>1
    <3> QED BY <3>1, <3>2
  <2>3. m \notin HideWords(w) /\ m \notin SwapWords(w) /\ m \notin Kinds(w, {"SwapOut", "SwapIn"}) /\ m \notin Kinds(w, {"New"})
    BY <2>1 DEF HideWords, SwapWords, Kinds
  <2>4. Len(r) = Len(q) + 1
    BY <2>1
  <2>5. \A b \in BOOLEAN :
          /\ Says(r, Len(r), HideWords(w), ToHide(w), b) = Says(q, Len(q), HideWords(w), ToHide(w), b)
          /\ Says(r, Len(r), SwapWords(w), ToSwap(w), b) = Says(q, Len(q), SwapWords(w), ToSwap(w), b)
    BY <2>1, <2>2, <2>3, <2>4, SwapSubsets, SaysAppend
  <2>6. \A b \in BOOLEAN : ByTurns(w, q, b) => ByTurns(w, r, b)
    BY <2>1, <2>2, <2>3, TurnsAppend
  <2>7. MadeFirst(w, q) => MadeFirst(w, r)
    BY <2>1, <2>2, <2>3, FirstAppend
  <2> QED BY <2>5, <2>6, <2>7
<1>3. CASE q # <<>> /\ Head(q).w # w /\ r = Tail(q)
  <2>1. Head(q) \notin HideWords(w) /\ Head(q) \notin SwapWords(w)
    BY <1>3 DEF HideWords, SwapWords, Kinds
  <2>2. Len(q) \in 1 .. Len(q) /\ Len(r) = Len(q) - 1
    BY <1>3
  <2>3. \A b \in BOOLEAN :
          /\ Says(q, Len(q), HideWords(w), ToHide(w), b) = Says(r, Len(q) - 1, HideWords(w), ToHide(w), b)
          /\ Says(q, Len(q), SwapWords(w), ToSwap(w), b) = Says(r, Len(q) - 1, SwapWords(w), ToSwap(w), b)
    <3> TAKE b \in BOOLEAN
    <3> DEFINE A == HideWords(w)
               Y == ToHide(w)
               B == SwapWords(w)
               Z == ToSwap(w)
               n == Len(q)
    <3>1. n \in 1 .. Len(q) /\ Y \subseteq A /\ Z \subseteq B /\ Head(q) \notin A /\ Head(q) \notin B
      BY <2>1, <2>2, SwapSubsets
    <3> HIDE DEF A, Y, B, Z, n
    <3>2. Says(q, n, A, Y, b) = Says(Tail(q), n - 1, A, Y, IF Head(q) \in A THEN Head(q) \in Y ELSE b)
      BY <1>3, <3>1, SaysTail
    <3>3. Says(q, n, B, Z, b) = Says(Tail(q), n - 1, B, Z, IF Head(q) \in B THEN Head(q) \in Z ELSE b)
      BY <1>3, <3>1, SaysTail
    <3> QED BY <1>3, <3>1, <3>2, <3>3 DEF A, Y, B, Z, n
  <2>4. \A b \in BOOLEAN : ByTurns(w, q, b) => ByTurns(w, r, b)
    BY <1>3, <2>1, TurnsTail
  <2>5. MadeFirst(w, q) => MadeFirst(w, r)
    BY <1>3, FirstTail
  <2> QED BY <2>2, <2>3, <2>4, <2>5
<1> QED BY <1>1, <1>2, <1>3 DEF OfOthers

LEMMA OthersLive ==
  ASSUME NEW w, NEW r \in Rw, NEW h, NEW moves, NEW unheard \in BOOLEAN, NEW unheard_ \in BOOLEAN, unheard => unheard_,
         NEW q \in Seq(ToWidget), NEW q_ \in Seq(ToWidget), OfOthers(w, q, q_),
         NEW t \in Seq(OfWidget), NEW t_ \in Seq(OfWidget), OfOthers(w, t, t_),
         NEW ts \in Seq(Task), NEW ts_ \in Seq(Task), OfOthers(w, ts, ts_),
         Lived(w, r, h, q, t, ts, moves, unheard)
  PROVE  Lived(w, r, h, q_, t_, ts_, moves, unheard_)
<1>1. \A K : /\ Said(q_, Kinds(w, K)) = Said(q, Kinds(w, K)) /\ Number(q_, Kinds(w, K)) = Number(q, Kinds(w, K))
             /\ Said(t_, Tells(w, K)) = Said(t, Tells(w, K)) /\ Number(t_, Tells(w, K)) = Number(t, Tells(w, K))
             /\ Said(ts_, TasksOf(w, K)) = Said(ts, TasksOf(w, K))
  <2> TAKE K
  <2>1. (\A m \in Kinds(w, K) : m.w = w) /\ (\A m \in Tells(w, K) : m.w = w) /\ (\A m \in TasksOf(w, K) : m.w = w)
    BY DEF Kinds, Tells, TasksOf
  <2> QED BY <2>1, OthersSaid
<1>2. Said(q_, ToIt(w)) = Said(q, ToIt(w)) /\ Said(t_, OfIt(w)) = Said(t, OfIt(w))
  <2>1. (\A m \in ToIt(w) : m.w = w) /\ (\A m \in OfIt(w) : m.w = w)
    BY DEF ToIt, OfIt
  <2> QED BY <2>1, OthersSaid
<1>3. r.hidden \in BOOLEAN /\ r.swapped \in BOOLEAN
  BY DEF Rw
<1>4. /\ Says(q_, Len(q_), HideWords(w), ToHide(w), r.hidden) = Says(q, Len(q), HideWords(w), ToHide(w), r.hidden)
      /\ Says(q_, Len(q_), SwapWords(w), ToSwap(w), r.swapped) = Says(q, Len(q), SwapWords(w), ToSwap(w), r.swapped)
      /\ ByTurns(w, q, r.swapped) => ByTurns(w, q_, r.swapped)
      /\ MadeFirst(w, q) => MadeFirst(w, q_)
  BY <1>3, OthersSay
<1>5. Grown(w, r, h, q_, t_, ts_, moves)
  BY <1>1, <1>2, <1>4 DEF Lived, Grown, Live, AnyTask, CloseTask
<1>6. Agrees(w, r, h, q_)
  BY <1>1, <1>4 DEF Lived, Agrees, Live, WillHide, WillSwap
<1>7. Owes(w, r, q_, t_, moves, unheard_)
  BY <1>1 DEF Lived, Owes, Moves
<1> QED BY <1>5, <1>6, <1>7 DEF Lived

\* The widgets that a step does not touch.
LEMMA OthersRest ==
  ASSUME LifeTyped, LifeTyped', NEW w \in Widgets, Lives(w),
         rw'[w] = rw[w], rwh'[w] = rwh[w], leaks'.moves[w] = leaks.moves[w],
         w \in leaks.closing => w \in leaks'.closing, crashed' = crashed,
         OfOthers(w, sent, sent'), OfOthers(w, told, told'), OfOthers(w, tasks, tasks')
  PROVE  Lives(w)'
<1>1. rw[w] \in Rw /\ sent \in Seq(ToWidget) /\ told \in Seq(OfWidget) /\ tasks \in Seq(Task)
  BY DEF LifeTyped
<1>2. sent' \in Seq(ToWidget) /\ told' \in Seq(OfWidget) /\ tasks' \in Seq(Task)
  BY DEF LifeTyped
<1>3. Lived(w, rw[w], rwh[w], sent, told, tasks, leaks.moves[w], w \in leaks.closing)
  BY DEF Lives
<1>4. (w \in leaks.closing) \in BOOLEAN /\ (w \in leaks'.closing) \in BOOLEAN
  OBVIOUS
<1>5. Lived(w, rw[w], rwh[w], sent', told', tasks', leaks.moves[w], w \in leaks'.closing)
  <2> DEFINE r == rw[w]
             h == rwh[w]
             q == sent
             q_ == sent'
             t == told
             t_ == told'
             ts == tasks
             ts_ == tasks'
             moves == leaks.moves[w]
             unheard == w \in leaks.closing
             unheard_ == w \in leaks'.closing
  <2>1. /\ r \in Rw /\ unheard \in BOOLEAN /\ unheard_ \in BOOLEAN /\ (unheard => unheard_)
        /\ q \in Seq(ToWidget) /\ q_ \in Seq(ToWidget) /\ OfOthers(w, q, q_)
        /\ t \in Seq(OfWidget) /\ t_ \in Seq(OfWidget) /\ OfOthers(w, t, t_)
        /\ ts \in Seq(Task) /\ ts_ \in Seq(Task) /\ OfOthers(w, ts, ts_)
        /\ Lived(w, r, h, q, t, ts, moves, unheard)
    BY <1>1, <1>2, <1>3, <1>4
  <2> HIDE DEF r, h, q, q_, t, t_, ts, ts_, moves, unheard, unheard_
  <2>2. Lived(w, r, h, q_, t_, ts_, moves, unheard_)
    BY <2>1, OthersLive
  <2> QED BY <2>2 DEF r, h, q_, t_, ts_, moves, unheard_
<1>6. Lived(w, rw'[w], rwh'[w], sent', told', tasks', leaks'.moves[w], w \in leaks'.closing)
  BY <1>5
<1> QED BY <1>6 DEF Lives

-----------------------------------------------------------------------------
(* What is said to a widget and by it.                                     *)

\* A message m more to w, after the messages q.
AddsWords(w, q, m, r, b, c) ==
  /\ r \in Seq(ToWidget) /\ Said(r, ToIt(w))
  /\ Said(r, Kinds(w, {"New"})) <=> (Said(q, Kinds(w, {"New"})) \/ m.type = "New")
  /\ Said(r, Kinds(w, {"Close"})) <=> (Said(q, Kinds(w, {"Close"})) \/ m.type = "Close")
  /\ Said(r, Kinds(w, {"Move_ACK"})) <=> (Said(q, Kinds(w, {"Move_ACK"})) \/ m.type = "Move_ACK")
  /\ Number(r, Kinds(w, {"Move_ACK"})) = Number(q, Kinds(w, {"Move_ACK"})) + W!One(m.type = "Move_ACK")
  /\ Number(q, Kinds(w, {"Move_ACK"})) \in Nat
  /\ WillHide(w, r, b) = IF m.type \in {"New", "WasHidden", "WasShown"} THEN m \in ToHide(w) ELSE WillHide(w, q, b)
  /\ WillSwap(w, r, c) = IF m.type \in {"New", "SwapOut", "SwapIn"} THEN m \in ToSwap(w) ELSE WillSwap(w, q, c)
  /\ (m.type \in {"SwapOut", "SwapIn"} => (m \in ToSwap(w)) # WillSwap(w, q, c)) =>
       (ByTurns(w, q, c) => ByTurns(w, r, c))
  /\ (m.type = "New" => ~ Said(q, ToIt(w))) => (MadeFirst(w, q) => MadeFirst(w, r))

LEMMA SaidTo ==
  ASSUME NEW w \in Widgets, NEW q \in Seq(ToWidget), NEW m \in ToWidget, m.w = w,
         NEW b \in BOOLEAN, NEW c \in BOOLEAN
  PROVE  AddsWords(w, q, m, Append(q, m), b, c)
<1> DEFINE r == Append(q, m)
<1>1. \A K : m \in Kinds(w, K) <=> m.type \in K
  BY DEF Kinds
<1>2. m \in ToIt(w)
  BY DEF ToIt
<1>3. r \in Seq(ToWidget) /\ Len(r) = Len(q) + 1
  OBVIOUS
<1>4. \A K : Said(r, Kinds(w, K)) = (Said(q, Kinds(w, K)) \/ m.type \in K)
  <2>1. \A K : Said(r, Kinds(w, K)) = (Said(q, Kinds(w, K)) \/ m \in Kinds(w, K))
    BY SaidAppend
  <2> QED BY <1>1, <2>1
<1>5. Said(r, ToIt(w))
  <2>1. Said(r, ToIt(w)) = (Said(q, ToIt(w)) \/ m \in ToIt(w))
    BY SaidAppend
  <2> QED BY <1>2, <2>1
<1>6. /\ Number(r, Kinds(w, {"Move_ACK"})) = Number(q, Kinds(w, {"Move_ACK"})) + W!One(m.type = "Move_ACK")
      /\ Number(q, Kinds(w, {"Move_ACK"})) \in Nat
  <2> DEFINE S == Kinds(w, {"Move_ACK"})
  <2>1. m \in S <=> m.type = "Move_ACK"
    BY <1>1
  <2> HIDE DEF S
  <2>2. Number(r, S) = IF m \in S THEN Number(q, S) + 1 ELSE Number(q, S)
    BY NumberAppend
  <2>3. Number(q, S) \in Nat
    BY NumberIsNat
  <2> HIDE DEF r
  <2>4. Number(r, S) = Number(q, S) + W!One(m.type = "Move_ACK")
    BY <2>1, <2>2, <2>3 DEF W!One
  <2> QED BY <2>3, <2>4 DEF S
<1>7. /\ WillHide(w, r, b) = IF m.type \in {"New", "WasHidden", "WasShown"} THEN m \in ToHide(w) ELSE WillHide(w, q, b)
      /\ WillSwap(w, r, c) = IF m.type \in {"New", "SwapOut", "SwapIn"} THEN m \in ToSwap(w) ELSE WillSwap(w, q, c)
  <2>1. /\ m \in HideWords(w) <=> m.type \in {"New", "WasHidden", "WasShown"}
        /\ m \in SwapWords(w) <=> m.type \in {"New", "SwapOut", "SwapIn"}
    BY <1>1 DEF HideWords, SwapWords
  <2> DEFINE A == HideWords(w)
             Y == ToHide(w)
             B == SwapWords(w)
             Z == ToSwap(w)
  <2>2. Y \subseteq A /\ Z \subseteq B
    BY SwapSubsets
  <2> HIDE DEF A, Y, B, Z
  <2>3. /\ Says(r, Len(q) + 1, A, Y, b) = IF m \in A THEN m \in Y ELSE Says(q, Len(q), A, Y, b)
        /\ Says(r, Len(q) + 1, B, Z, c) = IF m \in B THEN m \in Z ELSE Says(q, Len(q), B, Z, c)
    BY <2>2, SaysAppend
  <2> QED BY <1>3, <2>1, <2>3 DEF A, Y, B, Z, WillHide, WillSwap
<1>8. (m.type \in {"SwapOut", "SwapIn"} => (m \in ToSwap(w)) # WillSwap(w, q, c)) =>
        (ByTurns(w, q, c) => ByTurns(w, r, c))
  BY <1>1, TurnsAppend DEF WillSwap
<1>9. (m.type = "New" => ~ Said(q, ToIt(w))) => (MadeFirst(w, q) => MadeFirst(w, r))
  BY <1>1, FirstAppend
<1>10. \A k \in {"New", "Close", "Move_ACK"} : Said(r, Kinds(w, {k})) = (Said(q, Kinds(w, {k})) \/ m.type = k)
  BY <1>4
<1> HIDE DEF r
<1>11. /\ Said(r, Kinds(w, {"New"})) <=> (Said(q, Kinds(w, {"New"})) \/ m.type = "New")
       /\ Said(r, Kinds(w, {"Close"})) <=> (Said(q, Kinds(w, {"Close"})) \/ m.type = "Close")
       /\ Said(r, Kinds(w, {"Move_ACK"})) <=> (Said(q, Kinds(w, {"Move_ACK"})) \/ m.type = "Move_ACK")
  BY <1>10
<1>12. AddsWords(w, q, m, r, b, c)
  BY <1>3, <1>5, <1>6, <1>7, <1>8, <1>9, <1>11 DEF AddsWords
<1> QED BY <1>12 DEF r

\* A message m to w is heard; the messages r are left.
Hears(w, q, m, r, b, c) ==
  /\ r \in Seq(ToWidget) /\ Said(q, ToIt(w)) /\ (Said(r, ToIt(w)) => Said(q, ToIt(w)))
  /\ Said(q, Kinds(w, {"New"})) <=> (Said(r, Kinds(w, {"New"})) \/ m.type = "New")
  /\ Said(q, Kinds(w, {"Close"})) <=> (Said(r, Kinds(w, {"Close"})) \/ m.type = "Close")
  /\ Said(q, Kinds(w, {"Move_ACK"})) <=> (Said(r, Kinds(w, {"Move_ACK"})) \/ m.type = "Move_ACK")
  /\ Number(q, Kinds(w, {"Move_ACK"})) = Number(r, Kinds(w, {"Move_ACK"})) + W!One(m.type = "Move_ACK")
  /\ Number(r, Kinds(w, {"Move_ACK"})) \in Nat
  /\ WillHide(w, q, b) = WillHide(w, r, IF m.type \in {"New", "WasHidden", "WasShown"} THEN m \in ToHide(w) ELSE b)
  /\ WillSwap(w, q, c) = WillSwap(w, r, IF m.type \in {"New", "SwapOut", "SwapIn"} THEN m \in ToSwap(w) ELSE c)
  /\ ByTurns(w, q, c) =>
       /\ ByTurns(w, r, IF m.type \in {"New", "SwapOut", "SwapIn"} THEN m \in ToSwap(w) ELSE c)
       /\ m.type \in {"SwapOut", "SwapIn"} => (m \in ToSwap(w)) # c
  /\ MadeFirst(w, q) => MadeFirst(w, r) /\ ~ Said(r, Kinds(w, {"New"}))

LEMMA HeardBy ==
  ASSUME NEW w \in Widgets, NEW q \in Seq(ToWidget), q # <<>>, Head(q).w = w, NEW b \in BOOLEAN, NEW c \in BOOLEAN
  PROVE  Hears(w, q, Head(q), Tail(q), b, c) /\ Head(q) \in ToWidget
<1> DEFINE r == Tail(q)
           m == Head(q)
<1>1. r \in Seq(ToWidget) /\ m \in ToWidget /\ Len(r) = Len(q) - 1 /\ Len(q) \in 1 .. Len(q)
  OBVIOUS
<1>2. m \in ToIt(w) /\ \A K : m \in Kinds(w, K) <=> m.type \in K
  BY <1>1 DEF Kinds, ToIt
<1>3. \A K : Said(q, Kinds(w, K)) = (Said(r, Kinds(w, K)) \/ m.type \in K)
  <2>1. \A K : Said(q, Kinds(w, K)) = (m \in Kinds(w, K) \/ Said(r, Kinds(w, K)))
    BY SaidTail
  <2> QED BY <1>2, <2>1
<1>4. Said(q, ToIt(w))
  <2>1. Said(q, ToIt(w)) = (m \in ToIt(w) \/ Said(r, ToIt(w)))
    BY SaidTail
  <2> QED BY <1>2, <2>1
<1>5. /\ Number(q, Kinds(w, {"Move_ACK"})) = Number(r, Kinds(w, {"Move_ACK"})) + W!One(m.type = "Move_ACK")
      /\ Number(r, Kinds(w, {"Move_ACK"})) \in Nat
  <2> DEFINE S == Kinds(w, {"Move_ACK"})
  <2>1. m \in S <=> m.type = "Move_ACK"
    BY <1>2
  <2> HIDE DEF S
  <2>2. Number(q, S) = IF m \in S THEN Number(r, S) + 1 ELSE Number(r, S)
    BY NumberTail
  <2>3. Number(r, S) \in Nat
    BY <1>1, NumberIsNat
  <2> HIDE DEF r, m
  <2>4. Number(q, S) = Number(r, S) + W!One(m.type = "Move_ACK")
    BY <2>1, <2>2, <2>3 DEF W!One
  <2> QED BY <2>3, <2>4 DEF S
<1>6. /\ m \in HideWords(w) <=> m.type \in {"New", "WasHidden", "WasShown"}
      /\ m \in SwapWords(w) <=> m.type \in {"New", "SwapOut", "SwapIn"}
  BY <1>2 DEF HideWords, SwapWords
<1>7. /\ WillHide(w, q, b) = WillHide(w, r, IF m.type \in {"New", "WasHidden", "WasShown"} THEN m \in ToHide(w) ELSE b)
      /\ WillSwap(w, q, c) = WillSwap(w, r, IF m.type \in {"New", "SwapOut", "SwapIn"} THEN m \in ToSwap(w) ELSE c)
  <2> DEFINE A == HideWords(w)
             Y == ToHide(w)
             B == SwapWords(w)
             Z == ToSwap(w)
             n == Len(q)
  <2>1. Y \subseteq A /\ Z \subseteq B /\ n \in 1 .. Len(q)
    BY <1>1, SwapSubsets
  <2> HIDE DEF A, Y, B, Z, n
  <2>2. Says(q, n, A, Y, b) = Says(Tail(q), n - 1, A, Y, IF Head(q) \in A THEN Head(q) \in Y ELSE b)
    BY <2>1, SaysTail
  <2>3. Says(q, n, B, Z, c) = Says(Tail(q), n - 1, B, Z, IF Head(q) \in B THEN Head(q) \in Z ELSE c)
    BY <2>1, SaysTail
  <2>4. (IF Head(q) \in A THEN Head(q) \in Y ELSE b) = IF m.type \in {"New", "WasHidden", "WasShown"} THEN m \in Y ELSE b
    BY <1>6 DEF A
  <2>5. (IF Head(q) \in B THEN Head(q) \in Z ELSE c) = IF m.type \in {"New", "SwapOut", "SwapIn"} THEN m \in Z ELSE c
    BY <1>6 DEF B
  <2>6. n - 1 = Len(r) /\ n = Len(q)
    BY <1>1 DEF n
  <2> QED BY <2>2, <2>3, <2>4, <2>5, <2>6 DEF A, Y, B, Z, WillHide, WillSwap
<1>8. ByTurns(w, q, c) =>
        /\ ByTurns(w, r, IF m.type \in {"New", "SwapOut", "SwapIn"} THEN m \in ToSwap(w) ELSE c)
        /\ m.type \in {"SwapOut", "SwapIn"} => (m \in ToSwap(w)) # c
  <2> SUFFICES ASSUME ByTurns(w, q, c)
               PROVE  /\ ByTurns(w, r, IF m.type \in {"New", "SwapOut", "SwapIn"} THEN m \in ToSwap(w) ELSE c)
                      /\ m.type \in {"SwapOut", "SwapIn"} => (m \in ToSwap(w)) # c
    OBVIOUS
  <2>1. /\ ByTurns(w, Tail(q), IF Head(q) \in SwapWords(w) THEN Head(q) \in ToSwap(w) ELSE c)
        /\ Head(q) \in Kinds(w, {"SwapOut", "SwapIn"}) => (Head(q) \in ToSwap(w)) # c
    BY TurnsTail
  <2>2. (IF Head(q) \in SwapWords(w) THEN Head(q) \in ToSwap(w) ELSE c)
          = IF m.type \in {"New", "SwapOut", "SwapIn"} THEN m \in ToSwap(w) ELSE c
    BY <1>6
  <2> QED BY <1>2, <2>1, <2>2
<1>9. MadeFirst(w, q) => MadeFirst(w, r) /\ ~ Said(r, Kinds(w, {"New"}))
  BY <1>2, FirstTail
<1>10. \A k \in {"New", "Close", "Move_ACK"} : Said(q, Kinds(w, {k})) = (Said(r, Kinds(w, {k})) \/ m.type = k)
  BY <1>3
<1> HIDE DEF r, m
<1>11. /\ Said(q, Kinds(w, {"New"})) <=> (Said(r, Kinds(w, {"New"})) \/ m.type = "New")
       /\ Said(q, Kinds(w, {"Close"})) <=> (Said(r, Kinds(w, {"Close"})) \/ m.type = "Close")
       /\ Said(q, Kinds(w, {"Move_ACK"})) <=> (Said(r, Kinds(w, {"Move_ACK"})) \/ m.type = "Move_ACK")
  BY <1>10
<1>12. Hears(w, q, m, r, b, c)
  BY <1>1, <1>4, <1>5, <1>7, <1>8, <1>9, <1>11 DEF Hears
<1> QED BY <1>1, <1>12 DEF r, m

\* A message m of w more.
IsMove(m) == m.type \in {"RequestMove", "ShowWidget"}
Spoken(w, t, m, r) ==
  /\ r \in Seq(OfWidget)
  /\ Said(r, Tells(w, {"Close"})) <=> (Said(t, Tells(w, {"Close"})) \/ m.type = "Close")
  /\ Number(r, Moves(w)) = Number(t, Moves(w)) + W!One(IsMove(m))
  /\ Number(t, Moves(w)) \in Nat

LEMMA SaidOf ==
  ASSUME NEW w \in Widgets, NEW t \in Seq(OfWidget), NEW m \in OfWidget, m.w = w
  PROVE  Spoken(w, t, m, Append(t, m))
<1> DEFINE r == Append(t, m)
           S == Moves(w)
           C == Tells(w, {"Close"})
<1>1. r \in Seq(OfWidget) /\ (m \in S <=> IsMove(m)) /\ (m \in C <=> m.type = "Close")
  BY DEF Tells, Moves, IsMove
<1> HIDE DEF S, C
<1>2. Said(r, C) = (Said(t, C) \/ m \in C) /\ Number(r, S) = (IF m \in S THEN Number(t, S) + 1 ELSE Number(t, S))
  BY SaidAppend, NumberAppend
<1>3. Number(t, S) \in Nat
  BY NumberIsNat
<1> HIDE DEF r
<1>4. Number(r, S) = Number(t, S) + W!One(IsMove(m))
  BY <1>1, <1>2, <1>3 DEF W!One
<1>5. Said(r, C) = (Said(t, C) \/ m.type = "Close")
  BY <1>1, <1>2
<1>6. Spoken(w, t, m, r)
  BY <1>1, <1>3, <1>4, <1>5 DEF Spoken, S, C
<1> QED BY <1>6 DEF r

LEMMA HeardOf ==
  ASSUME NEW w \in Widgets, NEW t \in Seq(OfWidget), t # <<>>, Head(t).w = w
  PROVE  /\ Head(t) \in OfWidget /\ Tail(t) \in Seq(OfWidget) /\ Said(t, OfIt(w)) /\ Number(Tail(t), Moves(w)) \in Nat
         /\ Said(t, Tells(w, {"Close"})) <=> (Said(Tail(t), Tells(w, {"Close"})) \/ Head(t).type = "Close")
         /\ Number(t, Moves(w)) = Number(Tail(t), Moves(w)) + W!One(IsMove(Head(t)))
<1> DEFINE r == Tail(t)
           m == Head(t)
           S == Moves(w)
           C == Tells(w, {"Close"})
           O == OfIt(w)
<1>1. r \in Seq(OfWidget) /\ m \in OfWidget
  OBVIOUS
<1>2. (m \in S <=> IsMove(m)) /\ (m \in C <=> m.type = "Close") /\ m \in O
  BY <1>1 DEF Tells, Moves, IsMove, OfIt
<1> HIDE DEF S, C, O
<1>3. /\ Said(t, C) = (m \in C \/ Said(r, C)) /\ Said(t, O) = (m \in O \/ Said(r, O))
      /\ Number(t, S) = (IF m \in S THEN Number(r, S) + 1 ELSE Number(r, S))
  BY SaidTail, NumberTail
<1>4. Number(r, S) \in Nat
  BY <1>1, NumberIsNat
<1> HIDE DEF r, m
<1>5. Number(t, S) = Number(r, S) + W!One(IsMove(m))
  BY <1>2, <1>3, <1>4 DEF W!One
<1>6. Said(t, C) = (Said(r, C) \/ m.type = "Close") /\ Said(t, O)
  BY <1>2, <1>3
<1> QED BY <1>1, <1>4, <1>5, <1>6 DEF r, m, S, C, O

LEMMA TaskPosted ==
  ASSUME NEW w \in Widgets, NEW ts \in Seq(Task), NEW m \in Task, m.w = w
  PROVE  /\ Append(ts, m) \in Seq(Task) /\ Said(Append(ts, m), AnyTask(w))
         /\ Said(Append(ts, m), CloseTask(w)) <=> (Said(ts, CloseTask(w)) \/ m.task = "Close")
<1> DEFINE A == AnyTask(w)
           C == CloseTask(w)
<1>1. m \in A /\ (m \in C <=> m.task = "Close")
  BY DEF AnyTask, CloseTask, TasksOf, Task
<1> HIDE DEF A, C
<1>2. Said(Append(ts, m), A) = (Said(ts, A) \/ m \in A) /\ Said(Append(ts, m), C) = (Said(ts, C) \/ m \in C)
  BY SaidAppend
<1>3. Append(ts, m) \in Seq(Task)
  OBVIOUS
<1> QED BY <1>1, <1>2, <1>3 DEF A, C

LEMMA TaskRun ==
  ASSUME NEW w \in Widgets, NEW ts \in Seq(Task), ts # <<>>, Head(ts).w = w
  PROVE  /\ Tail(ts) \in Seq(Task) /\ Head(ts) \in Task /\ Said(ts, AnyTask(w))
         /\ Said(Tail(ts), AnyTask(w)) => Said(ts, AnyTask(w))
         /\ Said(ts, CloseTask(w)) <=> (Said(Tail(ts), CloseTask(w)) \/ Head(ts).task = "Close")
<1> DEFINE A == AnyTask(w)
           C == CloseTask(w)
           r == Tail(ts)
           m == Head(ts)
<1>1. r \in Seq(Task) /\ m \in Task
  OBVIOUS
<1>2. m \in A /\ (m \in C <=> m.task = "Close")
  BY <1>1 DEF AnyTask, CloseTask, TasksOf, Task
<1> HIDE DEF A, C
<1>3. Said(ts, A) = (m \in A \/ Said(r, A)) /\ Said(ts, C) = (m \in C \/ Said(r, C))
  BY SaidTail
<1> HIDE DEF r, m
<1> QED BY <1>1, <1>2, <1>3 DEF A, C, r, m
-----------------------------------------------------------------------------
(* The counts.                                                             *)

LEMMA FewWidgets == IsFiniteSet(Widgets) /\ \A S \in SUBSET Widgets : IsFiniteSet(S) /\ Cardinality(S) \in Nat
<1>1. Widgets \subseteq {"view", "popup", "frame"}
  BY PageAssumption DEF PageAssumption, W!WidgetsAssumption
<1>2. IsFiniteSet({"view", "popup", "frame"})
  <2>1. IsFiniteSet({} \cup {"view"})
    BY FS_EmptySet, FS_AddElement
  <2>2. IsFiniteSet(({} \cup {"view"}) \cup {"popup"})
    BY <2>1, FS_AddElement
  <2>3. IsFiniteSet((({} \cup {"view"}) \cup {"popup"}) \cup {"frame"})
    BY <2>2, FS_AddElement
  <2>4. {"view", "popup", "frame"} = (({} \cup {"view"}) \cup {"popup"}) \cup {"frame"}
    OBVIOUS
  <2> QED BY <2>3, <2>4
<1> QED BY <1>1, <1>2, FS_Subset, FS_CardinalityType

\* One widget comes into a set or leaves it.
LEMMA OneMore ==
  ASSUME NEW A \in SUBSET Widgets, NEW B \in SUBSET Widgets, NEW w \in Widgets,
         \A k \in Widgets : k # w => (k \in A <=> k \in B)
  PROVE  Cardinality(B) = Cardinality(A) + W!One(w \in B) - W!One(w \in A)
<1>1. IsFiniteSet(A) /\ IsFiniteSet(B) /\ Cardinality(A) \in Nat /\ Cardinality(B) \in Nat
  BY FewWidgets
<1>2. CASE w \in A <=> w \in B
  <2>1. A = B
    BY <1>2
  <2> QED BY <1>1, <2>1 DEF W!One
<1>3. CASE w \in A /\ w \notin B
  <2>1. B = A \ {w}
    BY <1>3
  <2>2. Cardinality(A \ {w}) = Cardinality(A) - 1
    BY <1>1, <1>3, FS_RemoveElement
  <2> QED BY <1>1, <1>3, <2>1, <2>2 DEF W!One
<1>4. CASE w \notin A /\ w \in B
  <2>1. B = A \cup {w}
    BY <1>4
  <2>2. Cardinality(A \cup {w}) = Cardinality(A) + 1
    BY <1>1, <1>4, FS_AddElement
  <2> QED BY <1>1, <1>4, <2>1, <2>2 DEF W!One
<1> QED BY <1>2, <1>3, <1>4

LEMMA LifeCounted == \A S : W!Cardinality(S) = Cardinality(S)
BY DEF W!Cardinality, Cardinality

LEMMA ThreadsStep ==
  ASSUME W!ThreadCounts, NEW w \in Widgets, \A k \in Widgets : k # w => rw'[k] = rw[k],
         thread'.widgets = thread.widgets + W!One(rw'[w].routed) - W!One(rw[w].routed),
         thread'.hidden = thread.hidden + W!One(rw'[w].routed /\ rw'[w].hidden) - W!One(rw[w].routed /\ rw[w].hidden),
         thread'.process = thread.process + W!One(rw'[w].made /\ ~ rw'[w].swapped) - W!One(rw[w].made /\ ~ rw[w].swapped)
  PROVE  W!ThreadCounts'
<1> DEFINE A == {k \in Widgets : rw[k].routed}
           A_ == {k \in Widgets : rw'[k].routed}
           B == {k \in Widgets : rw[k].routed /\ rw[k].hidden}
           B_ == {k \in Widgets : rw'[k].routed /\ rw'[k].hidden}
           C == {k \in Widgets : rw[k].made /\ ~ rw[k].swapped}
           C_ == {k \in Widgets : rw'[k].made /\ ~ rw'[k].swapped}
<1>1. thread.widgets = Cardinality(A) /\ thread.hidden = Cardinality(B) /\ thread.process = Cardinality(C)
  BY LifeCounted DEF W!ThreadCounts
<1>2. Cardinality(A_) = Cardinality(A) + W!One(w \in A_) - W!One(w \in A)
  BY OneMore
<1>3. Cardinality(B_) = Cardinality(B) + W!One(w \in B_) - W!One(w \in B)
  BY OneMore
<1>4. Cardinality(C_) = Cardinality(C) + W!One(w \in C_) - W!One(w \in C)
  BY OneMore
<1>5. /\ W!One(w \in A_) = W!One(rw'[w].routed) /\ W!One(w \in A) = W!One(rw[w].routed)
      /\ W!One(w \in B_) = W!One(rw'[w].routed /\ rw'[w].hidden) /\ W!One(w \in B) = W!One(rw[w].routed /\ rw[w].hidden)
      /\ W!One(w \in C_) = W!One(rw'[w].made /\ ~ rw'[w].swapped)
      /\ W!One(w \in C) = W!One(rw[w].made /\ ~ rw[w].swapped)
  BY DEF W!One
<1> HIDE DEF A, A_, B, B_, C, C_
<1>6. thread'.widgets = Cardinality(A_) /\ thread'.hidden = Cardinality(B_) /\ thread'.process = Cardinality(C_)
  BY <1>1, <1>2, <1>3, <1>4, <1>5
<1> QED BY <1>6, LifeCounted DEF W!ThreadCounts, A_, B_, C_

Counted(h) == h.made /\ ~ h.gone /\ ~ h.hidden

LEMMA ProcessStep ==
  ASSUME W!ProcessCounts, NEW w \in Widgets, \A k \in Widgets : k # w => rwh'[k] = rwh[k],
         visible' - leaks'.visible
           = visible - leaks.visible + W!One(Counted(rwh'[w])) - W!One(Counted(rwh[w]))
  PROVE  W!ProcessCounts'
<1> DEFINE A == {k \in Widgets : Counted(rwh[k])}
           A_ == {k \in Widgets : Counted(rwh'[k])}
<1>1. visible - leaks.visible = Cardinality(A)
  BY LifeCounted DEF W!ProcessCounts, W!There, Counted
<1>2. Cardinality(A_) = Cardinality(A) + W!One(w \in A_) - W!One(w \in A)
  BY OneMore
<1>3. W!One(w \in A_) = W!One(Counted(rwh'[w])) /\ W!One(w \in A) = W!One(Counted(rwh[w]))
  BY DEF W!One
<1> HIDE DEF A, A_
<1>4. visible' - leaks'.visible = Cardinality(A_)
  BY <1>1, <1>2, <1>3
<1> QED BY <1>4, LifeCounted DEF W!ProcessCounts, W!There, Counted, A_

-----------------------------------------------------------------------------
(* The host of a widget speaks.                                            *)

\* A widget with everything that is on its way.
Placed(w, r, h, q, t, ts, moves, unheard) ==
  /\ w \in Widgets /\ r \in Rw /\ h \in Rwh /\ moves \in Nat /\ unheard \in BOOLEAN
  /\ q \in Seq(ToWidget) /\ t \in Seq(OfWidget) /\ ts \in Seq(Task)
  /\ Lived(w, r, h, q, t, ts, moves, unheard)

LEMMA PlacedIs ==
  ASSUME NEW w, NEW r, NEW h, NEW q, NEW t, NEW ts, NEW moves, NEW unheard, Placed(w, r, h, q, t, ts, moves, unheard)
  PROVE  /\ w \in Widgets /\ r \in Rw /\ h \in Rwh /\ moves \in Nat /\ unheard \in BOOLEAN
         /\ q \in Seq(ToWidget) /\ t \in Seq(OfWidget) /\ ts \in Seq(Task)
         /\ Grown(w, r, h, q, t, ts, moves) /\ Agrees(w, r, h, q) /\ Owes(w, r, q, t, moves, unheard)
         /\ r.hidden \in BOOLEAN /\ r.swapped \in BOOLEAN /\ r.pending \in Nat
         /\ h.hidden \in BOOLEAN /\ h.swapped \in BOOLEAN
BY DEF Placed, Lived, Rw, Rwh

LEMMA MessageKinds ==
  ASSUME NEW w, NEW m \in ToWidget, m.w = w
  PROVE  /\ m \in ToHide(w) <=> m.type = "WasHidden" \/ (m.type = "New" /\ m.hidden)
         /\ m \in ToSwap(w) <=> m.type = "SwapOut" \/ (m.type = "New" /\ m.swapped)
         /\ m.type \in {"New", "WasHidden", "WasShown", "Close", "Move_ACK", "SwapOut", "SwapIn"}
         /\ m.type = "New" => m.hidden \in BOOLEAN /\ m.swapped \in BOOLEAN
BY DEF ToHide, HideWords, ToSwap, SwapWords, Kinds, ToWidget

LEMMA LivedMade ==
  ASSUME NEW w, NEW r, NEW h, NEW q, NEW t, NEW ts, NEW moves, NEW unheard, Placed(w, r, h, q, t, ts, moves, unheard),
         ~ h.made, NEW m \in ToWidget, m.w = w, m.type = "New",
         NEW h_ \in Rwh, h_.made, ~ h_.gone, h_.hidden = m.hidden, h_.swapped = m.swapped
  PROVE  Placed(w, r, h_, Append(q, m), t, ts, moves, unheard)
<1> DEFINE q_ == Append(q, m)
<1>1. /\ w \in Widgets /\ r \in Rw /\ h \in Rwh /\ moves \in Nat /\ unheard \in BOOLEAN
      /\ q \in Seq(ToWidget) /\ t \in Seq(OfWidget) /\ ts \in Seq(Task)
      /\ Grown(w, r, h, q, t, ts, moves) /\ Agrees(w, r, h, q) /\ Owes(w, r, q, t, moves, unheard)
      /\ r.hidden \in BOOLEAN /\ r.swapped \in BOOLEAN
  BY PlacedIs
<1>2. /\ r = W!Unmade /\ ~ r.made /\ ~ r.routed /\ ~ Said(q, ToIt(w)) /\ ~ Said(t, OfIt(w)) /\ moves = 0
      /\ ~ Said(q, Kinds(w, {"Move_ACK"})) /\ MadeFirst(w, q) /\ ~ Said(ts, AnyTask(w)) /\ ~ Said(ts, CloseTask(w))
  <2>1. Said(ts, CloseTask(w)) => Said(ts, AnyTask(w))
    BY DEF Said, AnyTask, CloseTask, TasksOf
  <2> QED BY <1>1, <2>1 DEF Grown, W!Unmade
<1>3. ByTurns(w, q, r.swapped)
  <2>1. \A i \in DOMAIN q : q[i] \notin Kinds(w, {"SwapOut", "SwapIn"})
    BY <1>2 DEF Said, ToIt, Kinds
  <2> QED BY <2>1 DEF ByTurns
<1>4. AddsWords(w, q, m, q_, r.hidden, r.swapped)
  BY <1>1, SaidTo
<1>5. (m \in ToHide(w) <=> m.hidden) /\ (m \in ToSwap(w) <=> m.swapped) /\ m.hidden \in BOOLEAN /\ m.swapped \in BOOLEAN
  BY MessageKinds
<1> HIDE DEF q_
<1>6. /\ q_ \in Seq(ToWidget) /\ Said(q_, Kinds(w, {"New"})) /\ ~ Said(q_, Kinds(w, {"Move_ACK"}))
      /\ ByTurns(w, q_, r.swapped) /\ MadeFirst(w, q_)
  BY <1>2, <1>3, <1>4 DEF AddsWords
<1>7. WillHide(w, q_, r.hidden) = h_.hidden /\ WillSwap(w, q_, r.swapped) = h_.swapped
  BY <1>4, <1>5 DEF AddsWords
<1>8. Grown(w, r, h_, q_, t, ts, moves)
  BY <1>1, <1>2, <1>6 DEF Grown
<1>9. Agrees(w, r, h_, q_)
  BY <1>6, <1>7 DEF Agrees
<1>10. Owes(w, r, q_, t, moves, unheard)
  BY <1>2 DEF Owes
<1> QED BY <1>1, <1>6, <1>8, <1>9, <1>10 DEF Placed, Lived, q_

\* Hidden or shown, swapped or closed: what a host says later.
LEMMA LivedTold ==
  ASSUME NEW w, NEW r, NEW h, NEW q, NEW t, NEW ts, NEW moves, NEW unheard, Placed(w, r, h, q, t, ts, moves, unheard),
         h.made, NEW m \in ToWidget, m.w = w, m.type \notin {"New", "Move_ACK"},
         NEW h_ \in Rwh, h_.made, h_.gone = (h.gone \/ m.type = "Close"),
         IF m.type \in {"WasHidden", "WasShown"} THEN ~ h.gone /\ h_.hidden = (m.type = "WasHidden")
         ELSE h_.hidden = h.hidden,
         IF m.type \in {"SwapOut", "SwapIn"} THEN h_.swapped = (m.type = "SwapOut") /\ h.swapped = (m.type = "SwapIn")
         ELSE h_.swapped = h.swapped
  PROVE  Placed(w, r, h_, Append(q, m), t, ts, moves, unheard)
<1> DEFINE q_ == Append(q, m)
<1>1. /\ w \in Widgets /\ r \in Rw /\ h \in Rwh /\ moves \in Nat /\ unheard \in BOOLEAN
      /\ q \in Seq(ToWidget) /\ t \in Seq(OfWidget) /\ ts \in Seq(Task)
      /\ Grown(w, r, h, q, t, ts, moves) /\ Agrees(w, r, h, q) /\ Owes(w, r, q, t, moves, unheard)
      /\ r.hidden \in BOOLEAN /\ r.swapped \in BOOLEAN /\ h.swapped \in BOOLEAN
  BY PlacedIs
<1>2. h_.hidden \in BOOLEAN /\ h_.swapped \in BOOLEAN /\ h_.gone \in BOOLEAN
  BY DEF Rwh
<1>3. m.type \in {"WasHidden", "WasShown", "Close", "SwapOut", "SwapIn"}
      /\ (m \in ToHide(w) <=> m.type = "WasHidden") /\ (m \in ToSwap(w) <=> m.type = "SwapOut")
  BY MessageKinds
<1>4. AddsWords(w, q, m, q_, r.hidden, r.swapped)
  BY <1>1, SaidTo
<1> HIDE DEF q_
<1>5. /\ q_ \in Seq(ToWidget) /\ Said(q_, ToIt(w))
      /\ Said(q_, Kinds(w, {"New"})) <=> Said(q, Kinds(w, {"New"}))
      /\ Said(q_, Kinds(w, {"Move_ACK"})) <=> Said(q, Kinds(w, {"Move_ACK"}))
      /\ Said(q_, Kinds(w, {"Close"})) <=> (Said(q, Kinds(w, {"Close"})) \/ m.type = "Close")
      /\ Number(q_, Kinds(w, {"Move_ACK"})) = Number(q, Kinds(w, {"Move_ACK"}))
      /\ MadeFirst(w, q) => MadeFirst(w, q_)
  BY <1>3, <1>4 DEF AddsWords, W!One
<1>6. Grown(w, r, h_, q_, t, ts, moves)
  BY <1>1, <1>5 DEF Grown, Live
<1>7. Agrees(w, r, h_, q_)
  <2> SUFFICES ASSUME Live(w, r, q_)
               PROVE  /\ ~ h_.gone => WillHide(w, q_, r.hidden) = h_.hidden
                      /\ WillSwap(w, q_, r.swapped) = h_.swapped
                      /\ ByTurns(w, q_, r.swapped)
    BY DEF Agrees
  <2>1. /\ ~ h.gone => WillHide(w, q, r.hidden) = h.hidden
        /\ WillSwap(w, q, r.swapped) = h.swapped
        /\ ByTurns(w, q, r.swapped)
    BY <1>1, <1>5 DEF Agrees, Live
  <2>2. ~ h_.gone => WillHide(w, q_, r.hidden) = h_.hidden
    <3>1. CASE m.type \in {"WasHidden", "WasShown"}
      BY <1>2, <1>3, <1>4, <3>1 DEF AddsWords
    <3>2. CASE m.type \notin {"WasHidden", "WasShown"}
      <4>1. WillHide(w, q_, r.hidden) = WillHide(w, q, r.hidden)
        BY <1>3, <1>4, <3>2 DEF AddsWords
      <4> QED BY <2>1, <3>2, <4>1
    <3> QED BY <3>1, <3>2
  <2>3. WillSwap(w, q_, r.swapped) = h_.swapped /\ ByTurns(w, q_, r.swapped)
    <3>1. CASE m.type \in {"SwapOut", "SwapIn"}
      <4>1. WillSwap(w, q_, r.swapped) = (m \in ToSwap(w))
        BY <1>4, <3>1 DEF AddsWords
      <4>2. (m \in ToSwap(w)) = h_.swapped /\ (m \in ToSwap(w)) # h.swapped
        BY <1>1, <1>2, <1>3, <3>1
      <4>3. ByTurns(w, q_, r.swapped)
        BY <1>4, <2>1, <4>2 DEF AddsWords
      <4> QED BY <4>1, <4>2, <4>3
    <3>2. CASE m.type \notin {"SwapOut", "SwapIn"}
      <4>1. WillSwap(w, q_, r.swapped) = WillSwap(w, q, r.swapped) /\ ByTurns(w, q_, r.swapped)
        BY <1>3, <1>4, <2>1, <3>2 DEF AddsWords
      <4> QED BY <2>1, <3>2, <4>1
    <3> QED BY <3>1, <3>2
  <2> QED BY <2>2, <2>3
<1>8. Owes(w, r, q_, t, moves, unheard)
  BY <1>1, <1>5 DEF Owes
<1> QED BY <1>1, <1>5, <1>6, <1>7, <1>8 DEF Placed, Lived, q_

\* A move of a living widget is acknowledged.
LEMMA LivedAcked ==
  ASSUME NEW w, NEW r, NEW h, NEW q, NEW t, NEW ts, NEW moves \in Nat, NEW unheard,
         Placed(w, r, h, q, t, ts, moves + 1, unheard), h.made, NEW m \in ToWidget, m.w = w, m.type = "Move_ACK"
  PROVE  Placed(w, r, h, Append(q, m), t, ts, moves, unheard)
<1> DEFINE q_ == Append(q, m)
<1>1. /\ w \in Widgets /\ r \in Rw /\ h \in Rwh /\ unheard \in BOOLEAN /\ moves + 1 # 0
      /\ q \in Seq(ToWidget) /\ t \in Seq(OfWidget) /\ ts \in Seq(Task)
      /\ Grown(w, r, h, q, t, ts, moves + 1) /\ Agrees(w, r, h, q) /\ Owes(w, r, q, t, moves + 1, unheard)
      /\ r.hidden \in BOOLEAN /\ r.swapped \in BOOLEAN
  BY PlacedIs
<1>2. AddsWords(w, q, m, q_, r.hidden, r.swapped)
  BY <1>1, SaidTo
<1>3. Number(t, Moves(w)) \in Nat
  BY <1>1, NumberIsNat
<1> HIDE DEF q_
<1>4. /\ q_ \in Seq(ToWidget) /\ Said(q_, ToIt(w))
      /\ Said(q_, Kinds(w, {"New"})) <=> Said(q, Kinds(w, {"New"}))
      /\ Said(q_, Kinds(w, {"Close"})) <=> Said(q, Kinds(w, {"Close"}))
      /\ Number(q_, Kinds(w, {"Move_ACK"})) = Number(q, Kinds(w, {"Move_ACK"})) + 1
      /\ Number(q, Kinds(w, {"Move_ACK"})) \in Nat
      /\ MadeFirst(w, q) => MadeFirst(w, q_)
      /\ WillHide(w, q_, r.hidden) = WillHide(w, q, r.hidden) /\ WillSwap(w, q_, r.swapped) = WillSwap(w, q, r.swapped)
      /\ ByTurns(w, q, r.swapped) => ByTurns(w, q_, r.swapped)
  BY <1>2 DEF AddsWords, W!One
<1>5. Grown(w, r, h, q_, t, ts, moves)
  BY <1>1, <1>4 DEF Grown, Live
<1>6. Agrees(w, r, h, q_)
  BY <1>1, <1>4 DEF Agrees, Live
<1>7. Owes(w, r, q_, t, moves, unheard)
  BY <1>1, <1>3, <1>4 DEF Owes
<1> QED BY <1>1, <1>4, <1>5, <1>6, <1>7 DEF Placed, Lived, q_

\* A host that is there or not hears what its widget said.
LEMMA LivedHeard ==
  ASSUME NEW w, NEW r, NEW h, NEW q, NEW t, NEW ts, NEW moves, NEW unheard, Placed(w, r, h, q, t, ts, moves, unheard),
         t # <<>>, Head(t).w = w, Head(t).type = "Close" /\ h.made => h.gone
  PROVE  Placed(w, r, h, q, Tail(t), ts, moves + W!One(IsMove(Head(t))), unheard)
<1> DEFINE t_ == Tail(t)
           m == Head(t)
           moves_ == moves + W!One(IsMove(m))
<1>1. /\ w \in Widgets /\ r \in Rw /\ h \in Rwh /\ moves \in Nat /\ unheard \in BOOLEAN
      /\ q \in Seq(ToWidget) /\ t \in Seq(OfWidget) /\ ts \in Seq(Task)
      /\ Grown(w, r, h, q, t, ts, moves) /\ Agrees(w, r, h, q) /\ Owes(w, r, q, t, moves, unheard)
      /\ r.hidden \in BOOLEAN /\ r.swapped \in BOOLEAN /\ r.pending \in Nat
  BY PlacedIs
<1>2. /\ t_ \in Seq(OfWidget) /\ Said(t, OfIt(w)) /\ Number(t_, Moves(w)) \in Nat
      /\ Said(t, Tells(w, {"Close"})) <=> (Said(t_, Tells(w, {"Close"})) \/ m.type = "Close")
      /\ Number(t, Moves(w)) = Number(t_, Moves(w)) + W!One(IsMove(m))
  BY <1>1, HeardOf
<1>3. W!One(IsMove(m)) \in Nat /\ Number(q, Kinds(w, {"Move_ACK"})) \in Nat /\ (m.type = "Close" /\ h.made => h.gone)
  BY <1>1, NumberIsNat DEF W!One
<1> HIDE DEF t_, m
<1>4. moves_ \in Nat
  BY <1>1, <1>3
<1>5. Grown(w, r, h, q, t_, ts, moves_)
  <2>1. r.made \/ ~ (Said(q, Kinds(w, {"New"})) \/ ~ h.made)
    BY <1>1, <1>2 DEF Grown
  <2> QED BY <1>1, <2>1 DEF Grown
<1>6. Owes(w, r, q, t_, moves_, unheard)
  <2>1. r.routed => r.made /\ h.made
    BY <1>1 DEF Grown
  <2>2. r.routed /\ h.gone => Said(q, Kinds(w, {"Close"}))
    BY <1>1 DEF Grown, Live
  <2>3. r.routed => r.pending = Number(t_, Moves(w)) + Number(q, Kinds(w, {"Move_ACK"})) + moves_
    BY <1>1, <1>2, <1>3 DEF Owes
  <2>4. r.routed /\ r.host_closing => unheard \/ Said(t_, Tells(w, {"Close"})) \/ Said(q, Kinds(w, {"Close"}))
    BY <1>1, <1>2, <1>3, <2>1, <2>2 DEF Owes
  <2> QED BY <2>3, <2>4 DEF Owes
<1> QED BY <1>1, <1>2, <1>4, <1>5, <1>6 DEF Placed, Lived, t_, m

LEMMA LivedSame ==
  ASSUME NEW w, NEW r, NEW h, NEW q, NEW t, NEW ts, NEW moves, NEW unheard, Placed(w, r, h, q, t, ts, moves, unheard),
         h.made, NEW h_ \in Rwh, h_.made, h_.gone = h.gone, h_.hidden = h.hidden, h_.swapped = h.swapped
  PROVE  Placed(w, r, h_, q, t, ts, moves, unheard)
BY DEF Placed, Lived, Grown, Agrees, Owes

-----------------------------------------------------------------------------
(* A widget hears, speaks and goes.                                        *)

\* A popup is made by its page.
LEMMA LivedCreated ==
  ASSUME NEW w, NEW r, NEW h, NEW q, NEW t, NEW ts, NEW moves, NEW unheard, Placed(w, r, h, q, t, ts, moves, unheard),
         ~ r.made, ~ h.made,
         NEW r_ \in Rw, r_.made, r_.routed, ~ r_.closing, r_.pending = 0, ~ r_.host_closing, r_.hidden = FALSE, r_.swapped = FALSE,
         NEW h_ \in Rwh, h_.made, ~ h_.gone, h_.hidden = FALSE, h_.swapped = FALSE
  PROVE  Placed(w, r_, h_, q, t, ts, moves, unheard)
<1>1. /\ w \in Widgets /\ r \in Rw /\ h \in Rwh /\ moves \in Nat /\ unheard \in BOOLEAN
      /\ q \in Seq(ToWidget) /\ t \in Seq(OfWidget) /\ ts \in Seq(Task)
      /\ Grown(w, r, h, q, t, ts, moves)
  BY PlacedIs
<1>2. ~ Said(q, ToIt(w)) /\ ~ Said(t, OfIt(w)) /\ moves = 0 /\ ~ Said(ts, AnyTask(w)) /\ MadeFirst(w, q)
  BY <1>1 DEF Grown
<1>3. \A i \in DOMAIN q : /\ q[i] \notin HideWords(w) /\ q[i] \notin SwapWords(w)
                          /\ \A K : q[i] \notin Kinds(w, K)
  BY <1>2 DEF Said, ToIt, HideWords, SwapWords, Kinds
<1>4. DOMAIN q = 1 .. Len(q)
  BY <1>1
<1>5. ByTurns(w, q, FALSE) /\ WillHide(w, q, FALSE) = FALSE /\ WillSwap(w, q, FALSE) = FALSE /\ ~ Said(q, Kinds(w, {"New"}))
  BY <1>3, <1>4 DEF ByTurns, WillHide, WillSwap, Says, Said
<1>6. Number(t, Moves(w)) = 0 /\ Number(q, Kinds(w, {"Move_ACK"})) = 0
  <2>1. Places(t, Moves(w)) = {}
    BY <1>2 DEF Places, Said, Moves, Tells, OfIt
  <2>2. Places(q, Kinds(w, {"Move_ACK"})) = {}
    BY <1>3 DEF Places
  <2> QED BY <2>1, <2>2, FS_EmptySet DEF Number
<1>7. ~ Said(ts, CloseTask(w))
  BY <1>2 DEF Said, AnyTask, CloseTask, TasksOf
<1>8. Grown(w, r_, h_, q, t, ts, moves)
  BY <1>2, <1>5, <1>7 DEF Grown
<1>9. Agrees(w, r_, h_, q)
  BY <1>5 DEF Agrees
<1>10. Owes(w, r_, q, t, moves, unheard)
  BY <1>2, <1>6 DEF Owes
<1> QED BY <1>1, <1>8, <1>9, <1>10 DEF Placed, Lived

\* A widget that is not routed, or not any more, hears nothing.
LEMMA LivedDropped ==
  ASSUME NEW w, NEW r, NEW h, NEW q, NEW t, NEW ts, NEW moves, NEW unheard, Placed(w, r, h, q, t, ts, moves, unheard),
         ~ r.routed, q # <<>>, Head(q).w = w, Head(q).type # "New"
  PROVE  Placed(w, r, h, Tail(q), t, ts, moves, unheard)
<1> DEFINE q_ == Tail(q)
           m == Head(q)
<1>1. /\ w \in Widgets /\ r \in Rw /\ h \in Rwh /\ moves \in Nat /\ unheard \in BOOLEAN
      /\ q \in Seq(ToWidget) /\ t \in Seq(OfWidget) /\ ts \in Seq(Task)
      /\ Grown(w, r, h, q, t, ts, moves)
      /\ r.hidden \in BOOLEAN /\ r.swapped \in BOOLEAN
  BY PlacedIs
<1>2. Hears(w, q, m, q_, r.hidden, r.swapped) /\ m.type # "New"
  BY <1>1, HeardBy
<1> HIDE DEF q_, m
<1>3. /\ q_ \in Seq(ToWidget) /\ MadeFirst(w, q_) /\ ~ Said(q_, Kinds(w, {"New"})) /\ Said(q, ToIt(w))
  BY <1>1, <1>2 DEF Hears, Grown
<1>4. Grown(w, r, h, q_, t, ts, moves)
  BY <1>1, <1>3 DEF Grown, Live
<1> QED BY <1>1, <1>3, <1>4 DEF Placed, Lived, Agrees, Owes, Live, q_

\* The browser makes the widget of a host.
LEMMA LivedBorn ==
  ASSUME NEW w, NEW r, NEW h, NEW q, NEW t, NEW ts, NEW moves, NEW unheard, Placed(w, r, h, q, t, ts, moves, unheard),
         q # <<>>, Head(q).w = w, Head(q).type = "New",
         NEW r_ \in Rw, r_.made, r_.routed, ~ r_.closing, r_.pending = 0, ~ r_.host_closing,
         r_.hidden = Head(q).hidden, r_.swapped = Head(q).swapped
  PROVE  Placed(w, r_, h, Tail(q), t, ts, moves, unheard)
<1> DEFINE q_ == Tail(q)
           m == Head(q)
<1>1. /\ w \in Widgets /\ r \in Rw /\ h \in Rwh /\ moves \in Nat /\ unheard \in BOOLEAN
      /\ q \in Seq(ToWidget) /\ t \in Seq(OfWidget) /\ ts \in Seq(Task)
      /\ Grown(w, r, h, q, t, ts, moves) /\ Agrees(w, r, h, q)
      /\ r.hidden \in BOOLEAN /\ r.swapped \in BOOLEAN
  BY PlacedIs
<1>2. Hears(w, q, m, q_, r.hidden, r.swapped) /\ m \in ToWidget
  BY <1>1, HeardBy
<1>3. (m \in ToHide(w)) = r_.hidden /\ (m \in ToSwap(w)) = r_.swapped
  BY <1>2, MessageKinds
<1> HIDE DEF q_
<1>4. /\ Said(q, Kinds(w, {"New"})) /\ q_ \in Seq(ToWidget)
      /\ Said(q_, Kinds(w, {"Close"})) <=> Said(q, Kinds(w, {"Close"}))
  BY <1>2 DEF Hears
<1>5. /\ h.made /\ ~ r.made /\ ~ Said(t, OfIt(w)) /\ ~ Said(q, Kinds(w, {"Move_ACK"})) /\ moves = 0
      /\ ~ Said(ts, AnyTask(w)) /\ (h.gone => Said(q, Kinds(w, {"Close"}))) /\ MadeFirst(w, q)
  BY <1>1, <1>4 DEF Grown, Live
<1>6. MadeFirst(w, q_) /\ ~ Said(q_, Kinds(w, {"New"}))
  BY <1>2, <1>5 DEF Hears
<1>7. ~ Said(ts, CloseTask(w))
  BY <1>5 DEF Said, AnyTask, CloseTask, TasksOf
<1>8. Number(t, Moves(w)) = 0 /\ Number(q_, Kinds(w, {"Move_ACK"})) = 0
  <2>1. Places(t, Moves(w)) = {}
    BY <1>5 DEF Places, Said, Moves, Tells, OfIt
  <2>2. ~ Said(q_, Kinds(w, {"Move_ACK"}))
    BY <1>2, <1>5 DEF Hears
  <2>3. Places(q_, Kinds(w, {"Move_ACK"})) = {}
    BY <2>2 DEF Places, Said
  <2> QED BY <2>1, <2>3, FS_EmptySet DEF Number
<1>9. Grown(w, r_, h, q_, t, ts, moves)
  BY <1>4, <1>5, <1>6, <1>7 DEF Grown
<1>10. Agrees(w, r_, h, q_)
  <2>1. /\ ~ h.gone => WillHide(w, q, r.hidden) = h.hidden
        /\ WillSwap(w, q, r.swapped) = h.swapped
        /\ ByTurns(w, q, r.swapped)
    BY <1>1, <1>4 DEF Agrees, Live
  <2>2. /\ WillHide(w, q, r.hidden) = WillHide(w, q_, m \in ToHide(w))
        /\ WillSwap(w, q, r.swapped) = WillSwap(w, q_, m \in ToSwap(w))
        /\ ByTurns(w, q_, m \in ToSwap(w))
    BY <1>2, <2>1 DEF Hears
  <2>3. /\ WillHide(w, q, r.hidden) = WillHide(w, q_, r_.hidden)
        /\ WillSwap(w, q, r.swapped) = WillSwap(w, q_, r_.swapped)
        /\ ByTurns(w, q_, r_.swapped)
    BY <1>3, <2>2
  <2> QED BY <2>1, <2>3 DEF Agrees
<1>11. Owes(w, r_, q_, t, moves, unheard)
  BY <1>5, <1>8 DEF Owes
<1> QED BY <1>1, <1>4, <1>9, <1>10, <1>11 DEF Placed, Lived, q_

\* A routed widget is hidden or shown, swapped, or its move acknowledged.
LEMMA LivedObeys ==
  ASSUME NEW w, NEW r, NEW h, NEW q, NEW t, NEW ts, NEW moves, NEW unheard, Placed(w, r, h, q, t, ts, moves, unheard),
         r.routed, q # <<>>, Head(q).w = w, Head(q).type \notin {"New", "Close"},
         NEW r_ \in Rw, r_.made = r.made, r_.routed = r.routed, r_.webwidget = r.webwidget, r_.closing = r.closing,
         r_.host_closing = r.host_closing,
         r_.hidden = (IF Head(q).type \in {"WasHidden", "WasShown"} THEN Head(q).type = "WasHidden" ELSE r.hidden),
         r_.swapped = (IF Head(q).type \in {"SwapOut", "SwapIn"} THEN Head(q).type = "SwapOut" ELSE r.swapped),
         r_.pending = r.pending - W!One(Head(q).type = "Move_ACK")
  PROVE  Placed(w, r_, h, Tail(q), t, ts, moves, unheard)
<1> DEFINE q_ == Tail(q)
           m == Head(q)
<1>1. /\ w \in Widgets /\ r \in Rw /\ h \in Rwh /\ moves \in Nat /\ unheard \in BOOLEAN
      /\ q \in Seq(ToWidget) /\ t \in Seq(OfWidget) /\ ts \in Seq(Task)
      /\ Grown(w, r, h, q, t, ts, moves) /\ Agrees(w, r, h, q) /\ Owes(w, r, q, t, moves, unheard)
      /\ r.hidden \in BOOLEAN /\ r.swapped \in BOOLEAN /\ r.pending \in Nat
  BY PlacedIs
<1>2. Hears(w, q, m, q_, r.hidden, r.swapped) /\ m \in ToWidget
  BY <1>1, HeardBy
<1>3. /\ m.type \in {"WasHidden", "WasShown", "Move_ACK", "SwapOut", "SwapIn"}
      /\ (m \in ToHide(w)) = (m.type = "WasHidden") /\ (m \in ToSwap(w)) = (m.type = "SwapOut")
  BY <1>2, MessageKinds
<1>4. /\ r_.hidden = IF m.type \in {"New", "WasHidden", "WasShown"} THEN m \in ToHide(w) ELSE r.hidden
      /\ r_.swapped = IF m.type \in {"New", "SwapOut", "SwapIn"} THEN m \in ToSwap(w) ELSE r.swapped
  BY <1>3
<1>5. Number(t, Moves(w)) \in Nat /\ W!One(m.type = "Move_ACK") \in Nat /\ r_.pending = r.pending - W!One(m.type = "Move_ACK")
  BY <1>1, NumberIsNat DEF W!One
<1> HIDE DEF q_, m
<1>6. /\ q_ \in Seq(ToWidget) /\ (Said(q_, ToIt(w)) => Said(q, ToIt(w)))
      /\ Said(q_, Kinds(w, {"New"})) <=> Said(q, Kinds(w, {"New"}))
      /\ Said(q_, Kinds(w, {"Close"})) <=> Said(q, Kinds(w, {"Close"}))
      /\ Said(q_, Kinds(w, {"Move_ACK"})) => Said(q, Kinds(w, {"Move_ACK"}))
      /\ Number(q, Kinds(w, {"Move_ACK"})) = Number(q_, Kinds(w, {"Move_ACK"})) + W!One(m.type = "Move_ACK")
      /\ Number(q_, Kinds(w, {"Move_ACK"})) \in Nat
      /\ MadeFirst(w, q) => MadeFirst(w, q_)
  BY <1>2, <1>3 DEF Hears
<1>7. Grown(w, r_, h, q_, t, ts, moves)
  BY <1>1, <1>6 DEF Grown, Live
<1>8. Agrees(w, r_, h, q_)
  <2>1. /\ ~ h.gone => WillHide(w, q, r.hidden) = h.hidden
        /\ WillSwap(w, q, r.swapped) = h.swapped
        /\ ByTurns(w, q, r.swapped)
    BY <1>1 DEF Agrees, Live
  <2>2. /\ WillHide(w, q, r.hidden) = WillHide(w, q_, r_.hidden)
        /\ WillSwap(w, q, r.swapped) = WillSwap(w, q_, r_.swapped)
        /\ ByTurns(w, q_, r_.swapped)
    BY <1>2, <1>4, <2>1 DEF Hears
  <2> QED BY <2>1, <2>2 DEF Agrees
<1>9. Owes(w, r_, q_, t, moves, unheard)
  BY <1>1, <1>5, <1>6 DEF Owes
<1> QED BY <1>1, <1>6, <1>7, <1>8, <1>9 DEF Placed, Lived, q_

\* A widget gives up its route, or its WebWidget after that.
LEMMA LivedUnrouted ==
  ASSUME NEW w, NEW r, NEW h, NEW q, NEW t, NEW ts, NEW moves, NEW unheard, Placed(w, r, h, q, t, ts, moves, unheard),
         r.made, NEW r_ \in Rw, r_.made, ~ r_.routed, NEW ts_ \in Seq(Task), r_.webwidget => Said(ts_, CloseTask(w))
  PROVE  Placed(w, r_, h, q, t, ts_, moves, unheard)
<1>1. /\ w \in Widgets /\ r \in Rw /\ h \in Rwh /\ moves \in Nat /\ unheard \in BOOLEAN
      /\ q \in Seq(ToWidget) /\ t \in Seq(OfWidget)
      /\ Grown(w, r, h, q, t, ts, moves)
  BY PlacedIs
<1>2. Grown(w, r_, h, q, t, ts_, moves) /\ ~ Live(w, r_, q)
  BY <1>1 DEF Grown, Live
<1> QED BY <1>1, <1>2 DEF Placed, Lived, Agrees, Owes

\* The destructor.
LEMMA LivedGone ==
  ASSUME NEW w, NEW r, NEW h, NEW q, NEW t, NEW ts, NEW moves, NEW unheard, Placed(w, r, h, q, t, ts, moves, unheard),
         r.made, ~ r.routed, ~ Said(ts, AnyTask(w))
  PROVE  Placed(w, W!Unmade, h, q, t, ts, moves, unheard)
<1>1. /\ w \in Widgets /\ r \in Rw /\ h \in Rwh /\ moves \in Nat /\ unheard \in BOOLEAN
      /\ q \in Seq(ToWidget) /\ t \in Seq(OfWidget) /\ ts \in Seq(Task)
      /\ Grown(w, r, h, q, t, ts, moves)
  BY PlacedIs
<1>2. W!Unmade \in Rw /\ ~ W!Unmade.made /\ ~ W!Unmade.routed
  BY DEF W!Unmade, Rw
<1>3. ~ Said(ts, CloseTask(w))
  BY DEF Said, AnyTask, CloseTask, TasksOf
<1>4. Grown(w, W!Unmade, h, q, t, ts, moves) /\ ~ Live(w, W!Unmade, q)
  BY <1>1, <1>2, <1>3 DEF Grown, Live
<1> QED BY <1>1, <1>2, <1>4 DEF Placed, Lived, Agrees, Owes

\* A widget says something, or does what nobody but it knows of.
LEMMA LivedSpeaks ==
  ASSUME NEW w, NEW r, NEW h, NEW q, NEW t, NEW ts, NEW moves, NEW unheard, Placed(w, r, h, q, t, ts, moves, unheard),
         r.made, NEW r_ \in Rw, r_.made, r_.routed = r.routed, r_.webwidget = r.webwidget, r_.closing = r.closing,
         r_.hidden = r.hidden, r_.swapped = r.swapped,
         NEW t_ \in Seq(OfWidget), NEW moves_ \in Nat, NEW unheard_ \in BOOLEAN, NEW d \in 0 .. 1,
         r_.pending = r.pending + d, Number(t_, Moves(w)) + moves_ = Number(t, Moves(w)) + moves + d,
         unheard => unheard_, Said(t, Tells(w, {"Close"})) => Said(t_, Tells(w, {"Close"})),
         r_.routed /\ r_.host_closing => r.host_closing \/ unheard_ \/ Said(t_, Tells(w, {"Close"}))
  PROVE  Placed(w, r_, h, q, t_, ts, moves_, unheard_)
<1>1. /\ w \in Widgets /\ r \in Rw /\ h \in Rwh /\ moves \in Nat /\ unheard \in BOOLEAN
      /\ q \in Seq(ToWidget) /\ t \in Seq(OfWidget) /\ ts \in Seq(Task) /\ r.pending \in Nat
      /\ Grown(w, r, h, q, t, ts, moves) /\ Agrees(w, r, h, q) /\ Owes(w, r, q, t, moves, unheard)
  BY PlacedIs
<1>2. Number(t, Moves(w)) \in Nat /\ Number(t_, Moves(w)) \in Nat /\ Number(q, Kinds(w, {"Move_ACK"})) \in Nat
  BY <1>1, NumberIsNat
<1>3. Grown(w, r_, h, q, t_, ts, moves_)
  BY <1>1 DEF Grown, Live
<1>4. Agrees(w, r_, h, q)
  BY <1>1 DEF Agrees, Live
<1>5. r_.routed => r_.pending = Number(t_, Moves(w)) + Number(q, Kinds(w, {"Move_ACK"})) + moves_
  <2> SUFFICES ASSUME r.routed
               PROVE  r_.pending = Number(t_, Moves(w)) + Number(q, Kinds(w, {"Move_ACK"})) + moves_
    OBVIOUS
  <2>1. r.pending = Number(t, Moves(w)) + Number(q, Kinds(w, {"Move_ACK"})) + moves
    BY <1>1 DEF Owes
  <2> DEFINE a == Number(t, Moves(w))
             a_ == Number(t_, Moves(w))
             k == Number(q, Kinds(w, {"Move_ACK"}))
  <2>2. /\ a \in Nat /\ a_ \in Nat /\ k \in Nat /\ moves \in Nat /\ d \in 0 .. 1
        /\ r.pending = a + k + moves /\ a_ + moves_ = a + moves + d
    BY <1>1, <1>2, <2>1
  <2> HIDE DEF a, a_, k
  <2>3. r.pending + d = a_ + k + moves_
    BY <2>2
  <2> QED BY <2>3 DEF a, a_, k
<1>6. r_.routed /\ r_.host_closing => unheard_ \/ Said(t_, Tells(w, {"Close"})) \/ Said(q, Kinds(w, {"Close"}))
  BY <1>1 DEF Owes
<1>7. Owes(w, r_, q, t_, moves_, unheard_)
  BY <1>5, <1>6 DEF Owes
<1> QED BY <1>1, <1>3, <1>4, <1>7 DEF Placed, Lived

\* A widget asks to be closed later.
LEMMA LivedPosts ==
  ASSUME NEW w, NEW r, NEW h, NEW q, NEW t, NEW ts, NEW moves, NEW unheard, Placed(w, r, h, q, t, ts, moves, unheard),
         r.made, NEW m \in Task, m.w = w, m.task = "DoDeferredClose"
  PROVE  Placed(w, r, h, q, t, Append(ts, m), moves, unheard)
<1> DEFINE ts_ == Append(ts, m)
<1>1. /\ w \in Widgets /\ r \in Rw /\ h \in Rwh /\ moves \in Nat /\ unheard \in BOOLEAN
      /\ q \in Seq(ToWidget) /\ t \in Seq(OfWidget) /\ ts \in Seq(Task)
      /\ Grown(w, r, h, q, t, ts, moves) /\ Agrees(w, r, h, q) /\ Owes(w, r, q, t, moves, unheard)
  BY PlacedIs
<1>2. ts_ \in Seq(Task) /\ (Said(ts_, CloseTask(w)) <=> Said(ts, CloseTask(w)))
  BY <1>1, TaskPosted
<1> HIDE DEF ts_
<1>3. Grown(w, r, h, q, t, ts_, moves)
  BY <1>1, <1>2 DEF Grown
<1> QED BY <1>1, <1>2, <1>3 DEF Placed, Lived, ts_

\* A task has run.
LEMMA LivedRan ==
  ASSUME NEW w, NEW r, NEW h, NEW q, NEW t, NEW ts, NEW moves, NEW unheard, Placed(w, r, h, q, t, ts, moves, unheard),
         ts # <<>>, Head(ts).w = w, Head(ts).task = "Close" => ~ r.webwidget
  PROVE  Placed(w, r, h, q, t, Tail(ts), moves, unheard)
<1> DEFINE ts_ == Tail(ts)
           m == Head(ts)
<1>1. /\ w \in Widgets /\ r \in Rw /\ h \in Rwh /\ moves \in Nat /\ unheard \in BOOLEAN
      /\ q \in Seq(ToWidget) /\ t \in Seq(OfWidget) /\ ts \in Seq(Task)
      /\ Grown(w, r, h, q, t, ts, moves) /\ Agrees(w, r, h, q) /\ Owes(w, r, q, t, moves, unheard)
  BY PlacedIs
<1>2. /\ ts_ \in Seq(Task) /\ (Said(ts_, AnyTask(w)) => Said(ts, AnyTask(w)))
      /\ Said(ts, CloseTask(w)) <=> (Said(ts_, CloseTask(w)) \/ m.task = "Close")
  BY <1>1, TaskRun
<1>3. m.task = "Close" => ~ r.webwidget
  OBVIOUS
<1> HIDE DEF ts_, m
<1>4. Grown(w, r, h, q, t, ts_, moves)
  BY <1>1, <1>2, <1>3 DEF Grown
<1> QED BY <1>1, <1>2, <1>4 DEF Placed, Lived, ts_

-----------------------------------------------------------------------------
(* A step of one widget.                                                   *)

Threads == [widgets : Int, hidden : Int, process : Int]
Leaks == [closing : SUBSET Widgets, visible : Nat, webwidgets : SUBSET Widgets, moves : [Widgets -> Nat]]
OthersHear(w, q, r) == \A k \in Widgets : k # w => OfOthers(k, q, r)
InUse(r) == r.made /\ ~ r.swapped
OffScreen(r) == r.routed /\ r.hidden

Stepped(w, r, h, q, t, ts, moves, unheard) ==
  /\ Placed(w, r, h, q, t, ts, moves, unheard)
  /\ rw' = [rw EXCEPT ![w] = r] /\ rwh' = [rwh EXCEPT ![w] = h]
  /\ sent' = q /\ told' = t /\ tasks' = ts
  /\ OthersHear(w, sent, q) /\ OthersHear(w, told, t) /\ OthersHear(w, tasks, ts)
  /\ leaks' \in Leaks /\ leaks'.moves = [leaks.moves EXCEPT ![w] = moves]
  /\ leaks.closing \subseteq leaks'.closing /\ (unheard => w \in leaks'.closing)
  /\ acts' \in 0 .. MaxActs /\ crashed' = crashed
  /\ w # "popup" /\ h.made /\ ~ crashed => h.renderer_initialized

CountedBy(w, r, h) ==
  /\ thread' \in Threads /\ visible' \in Int
  /\ thread'.widgets = thread.widgets + W!One(r.routed) - W!One(rw[w].routed)
  /\ thread'.hidden = thread.hidden + W!One(OffScreen(r)) - W!One(OffScreen(rw[w]))
  /\ thread'.process = thread.process + W!One(InUse(r)) - W!One(InUse(rw[w]))
  /\ visible' - leaks'.visible = visible - leaks.visible + W!One(Counted(h)) - W!One(Counted(rwh[w]))

LEMMA LifeIsTyped ==
  ASSUME LifeKept, NEW w \in Widgets
  PROVE  /\ Placed(w, rw[w], rwh[w], sent, told, tasks, leaks.moves[w], w \in leaks.closing)
         /\ w # "popup" /\ rwh[w].made /\ ~ crashed => rwh[w].renderer_initialized
         /\ rw[w] \in Rw /\ rwh[w] \in Rwh /\ leaks.moves[w] \in Nat /\ (w \in leaks.closing) \in BOOLEAN
         /\ rw \in [Widgets -> Rw] /\ rwh \in [Widgets -> Rwh] /\ thread \in Threads /\ visible \in Int
         /\ acts \in 0 .. MaxActs /\ crashed \in BOOLEAN
         /\ sent \in Seq(ToWidget) /\ told \in Seq(OfWidget) /\ tasks \in Seq(Task) /\ leaks \in Leaks
         /\ leaks.moves \in [Widgets -> Nat] /\ leaks.visible \in Nat /\ leaks.moves = [leaks.moves EXCEPT ![w] = @]
         /\ rw = [rw EXCEPT ![w] = rw[w]] /\ rwh = [rwh EXCEPT ![w] = rwh[w]]
<1>1. /\ rw \in [Widgets -> Rw] /\ rwh \in [Widgets -> Rwh] /\ thread \in Threads /\ visible \in Int
      /\ acts \in 0 .. MaxActs /\ crashed \in BOOLEAN
      /\ sent \in Seq(ToWidget) /\ told \in Seq(OfWidget) /\ tasks \in Seq(Task) /\ leaks \in Leaks
      /\ leaks.moves \in [Widgets -> Nat] /\ leaks.visible \in Nat
  BY DEF LifeKept, LifeTyped, Threads, Leaks
<1>2. rw[w] \in Rw /\ rwh[w] \in Rwh /\ leaks.moves[w] \in Nat /\ (w \in leaks.closing) \in BOOLEAN
  BY <1>1
<1>3. /\ Placed(w, rw[w], rwh[w], sent, told, tasks, leaks.moves[w], w \in leaks.closing)
      /\ w # "popup" /\ rwh[w].made /\ ~ crashed => rwh[w].renderer_initialized
  BY <1>1, <1>2 DEF LifeKept, Lives, Placed
<1>4. /\ leaks.moves = [leaks.moves EXCEPT ![w] = @]
      /\ rw = [rw EXCEPT ![w] = rw[w]] /\ rwh = [rwh EXCEPT ![w] = rwh[w]]
  BY <1>1
<1> QED BY <1>1, <1>2, <1>3, <1>4

LEMMA OthersHearIt ==
  ASSUME NEW w, NEW q
  PROVE  /\ OthersHear(w, q, q)
         /\ \A m : m.w = w => OthersHear(w, q, Append(q, m))
         /\ q # <<>> /\ Head(q).w = w => OthersHear(w, q, Tail(q))
BY DEF OthersHear, OfOthers

LEMMA Steps ==
  ASSUME LifeKept, NEW w, NEW r, NEW h, NEW q, NEW t, NEW ts, NEW moves, NEW unheard,
         Stepped(w, r, h, q, t, ts, moves, unheard), CountedBy(w, r, h), W!OnlyTheFailedLeaks'
  PROVE  LifeKept'
<1>1. /\ w \in Widgets /\ r \in Rw /\ h \in Rwh /\ q \in Seq(ToWidget) /\ t \in Seq(OfWidget) /\ ts \in Seq(Task)
      /\ moves \in Nat /\ unheard \in BOOLEAN
  BY DEF Stepped, Placed
<1>2. /\ rw \in [Widgets -> Rw] /\ rwh \in [Widgets -> Rwh] /\ leaks.moves \in [Widgets -> Nat] /\ crashed \in BOOLEAN
  BY <1>1, LifeIsTyped
<1>3. /\ rw' \in [Widgets -> Rw] /\ rwh' \in [Widgets -> Rwh] /\ rw'[w] = r /\ rwh'[w] = h
      /\ \A k \in Widgets : k # w => rw'[k] = rw[k] /\ rwh'[k] = rwh[k]
  BY <1>1, <1>2 DEF Stepped
<1>4. LifeTyped /\ LifeTyped'
  BY <1>1, <1>2, <1>3 DEF Stepped, CountedBy, LifeKept, LifeTyped, Threads, Leaks
<1>5. leaks'.moves[w] = moves /\ \A k \in Widgets : k # w => leaks'.moves[k] = leaks.moves[k]
  BY <1>1, <1>2 DEF Stepped
<1>6. \A k \in Widgets : k # w => Lives(k)'
  <2> TAKE k \in Widgets
  <2> SUFFICES ASSUME k # w PROVE Lives(k)'
    OBVIOUS
  <2>1. Lives(k)
    BY DEF LifeKept
  <2>2. OfOthers(k, sent, sent') /\ OfOthers(k, told, told') /\ OfOthers(k, tasks, tasks')
    BY DEF Stepped, OthersHear
  <2>3. crashed' = crashed /\ (k \in leaks.closing => k \in leaks'.closing)
    BY DEF Stepped
  <2> QED BY <1>3, <1>4, <1>5, <2>1, <2>2, <2>3, OthersRest
<1>7. Lives(w)'
  <2> DEFINE u == w \in leaks'.closing
  <2>1. u \in BOOLEAN /\ (unheard => u) /\ Lived(w, r, h, q, t, ts, moves, unheard)
    BY DEF Stepped, Placed
  <2> HIDE DEF u
  <2>2. Lived(w, r, h, q, t, ts, moves, u)
    BY <2>1 DEF Lived, Owes
  <2>3. Lived(w, rw'[w], rwh'[w], sent', told', tasks', leaks'.moves[w], w \in leaks'.closing)
    BY <1>3, <1>5, <2>2 DEF u, Stepped
  <2>4. w # "popup" /\ rwh'[w].made /\ ~ crashed' => rwh'[w].renderer_initialized
    BY <1>3 DEF Stepped
  <2> QED BY <2>3, <2>4 DEF Lives
<1>8. W!ThreadCounts'
  BY <1>1, <1>3, ThreadsStep DEF CountedBy, LifeKept, OffScreen, InUse
<1>9. W!ProcessCounts'
  BY <1>1, <1>3, ProcessStep DEF CountedBy, LifeKept
<1> QED BY <1>4, <1>6, <1>7, <1>8, <1>9 DEF LifeKept

LEMMA NothingCounted ==
  ASSUME LifeKept, NEW w \in Widgets
  PROVE  UNCHANGED <<thread, visible>> /\ leaks'.visible = leaks.visible => CountedBy(w, rw[w], rwh[w])
<1>1. thread \in Threads /\ visible \in Int /\ leaks.visible \in Nat
  BY LifeIsTyped
<1>2. \A p : W!One(p) \in Int
  BY DEF W!One
<1> QED BY <1>1, <1>2 DEF CountedBy, Threads

LEMMA HostSteps ==
  ASSUME LifeKept, ~ crashed, NEW w \in Widgets, NEW h, rwh' = [rwh EXCEPT ![w] = h],
         Placed(w, rw[w], h, sent', told', tasks, leaks'.moves[w], w \in leaks.closing),
         OthersHear(w, sent, sent'), OthersHear(w, told, told'),
         UNCHANGED <<rw, tasks, thread, crashed>>, acts' \in 0 .. MaxActs,
         leaks' \in Leaks, leaks'.moves = [leaks.moves EXCEPT ![w] = leaks'.moves[w]],
         leaks'.closing = leaks.closing, leaks'.webwidgets = leaks.webwidgets, visible' \in Int,
         visible' - leaks'.visible = visible - leaks.visible + W!One(Counted(h)) - W!One(Counted(rwh[w])),
         w = "popup" => h.made = rwh[w].made, w # "popup" /\ h.made => h.renderer_initialized
  PROVE  LifeKept'
<1>1. Stepped(w, rw[w], h, sent', told', tasks, leaks'.moves[w], w \in leaks.closing)
  BY LifeIsTyped, OthersHearIt DEF Stepped
<1>2. CountedBy(w, rw[w], h)
  <2>1. thread \in Threads
    BY LifeIsTyped
  <2>2. \A p : W!One(p) \in Int
    BY DEF W!One
  <2> QED BY <2>1, <2>2 DEF CountedBy, Threads
<1>3. W!OnlyTheFailedLeaks'
  <2>1. W!OnlyTheFailedLeaks /\ leaks \in Leaks /\ rwh \in [Widgets -> Rwh]
    BY LifeIsTyped DEF LifeKept
  <2>2. leaks.webwidgets # {} => "popup" \in Widgets
    BY <2>1 DEF W!OnlyTheFailedLeaks, Leaks
  <2>3. "popup" \in Widgets => rwh'["popup"].made = rwh["popup"].made
    BY <2>1
  <2> QED BY <2>1, <2>2, <2>3 DEF W!OnlyTheFailedLeaks
<1> QED BY <1>1, <1>2, <1>3, Steps

LEMMA WidgetSteps ==
  ASSUME LifeKept, ~ crashed, NEW w \in Widgets, NEW r, NEW unheard, rw' = [rw EXCEPT ![w] = r],
         Placed(w, r, rwh[w], sent', told', tasks', leaks'.moves[w], unheard),
         OthersHear(w, sent, sent'), OthersHear(w, told, told'), OthersHear(w, tasks, tasks'),
         UNCHANGED <<rwh, visible, crashed>>, acts' \in 0 .. MaxActs,
         leaks' \in Leaks, leaks'.moves = [leaks.moves EXCEPT ![w] = leaks'.moves[w]],
         leaks.closing \subseteq leaks'.closing, unheard => w \in leaks'.closing,
         leaks'.visible = leaks.visible, leaks'.webwidgets = leaks.webwidgets, thread' \in Threads,
         thread'.widgets = thread.widgets + W!One(r.routed) - W!One(rw[w].routed),
         thread'.hidden = thread.hidden + W!One(OffScreen(r)) - W!One(OffScreen(rw[w])),
         thread'.process = thread.process + W!One(InUse(r)) - W!One(InUse(rw[w]))
  PROVE  LifeKept'
<1>1. Stepped(w, r, rwh[w], sent', told', tasks', leaks'.moves[w], unheard)
  BY LifeIsTyped DEF Stepped
<1>2. CountedBy(w, r, rwh[w])
  <2>1. visible \in Int /\ leaks.visible \in Nat
    BY LifeIsTyped
  <2>2. \A p : W!One(p) \in Int
    BY DEF W!One
  <2> QED BY <2>1, <2>2 DEF CountedBy
<1>3. W!OnlyTheFailedLeaks'
  BY DEF LifeKept, W!OnlyTheFailedLeaks
<1> QED BY <1>1, <1>2, <1>3, Steps

LEMMA Acting ==
  ASSUME LifeKept, NEW w \in Widgets, W!Act
  PROVE  ~ crashed /\ acts' \in 0 .. MaxActs
<1>1. MaxActs \in Nat
  BY PageAssumption DEF PageAssumption, W!WidgetsAssumption
<1>2. acts \in 0 .. MaxActs
  BY LifeIsTyped
<1> QED BY <1>1, <1>2 DEF W!Act

LEMMA ConcatOne == \A q \in Seq(ToWidget) : \A m \in ToWidget : q \o <<m>> = Append(q, m)
OBVIOUS

-----------------------------------------------------------------------------
(* The host.                                                               *)

LEMMA HostUnchanged ==
  ASSUME LifeKept, NEW w \in Widgets, UNCHANGED leaks
  PROVE  /\ leaks' \in Leaks /\ leaks'.moves = [leaks.moves EXCEPT ![w] = leaks'.moves[w]]
         /\ leaks'.closing = leaks.closing /\ leaks'.webwidgets = leaks.webwidgets
         /\ leaks'.visible = leaks.visible /\ leaks'.moves[w] = leaks.moves[w]
BY LifeIsTyped

LEMMA MakeWidgetKeeps == ASSUME LifeKept, NEW w \in Widgets, W!MakeWidget(w) PROVE LifeKept'
<1>1. PICK hidden \in BOOLEAN, swapped \in (IF w = "view" THEN BOOLEAN ELSE {FALSE}) :
        /\ rwh' = [rwh EXCEPT ![w] = [W!NoHost EXCEPT !.made = TRUE, !.view = TRUE,
                     !.renderer_initialized = TRUE, !.hidden = hidden, !.swapped = swapped]]
        /\ visible' = visible + W!One(~ hidden)
        /\ sent' = sent \o <<[type |-> "New", w |-> w, hidden |-> hidden, swapped |-> swapped]>>
  BY DEF W!MakeWidget, W!Tell
<1> DEFINE h == [W!NoHost EXCEPT !.made = TRUE, !.view = TRUE,
                     !.renderer_initialized = TRUE, !.hidden = hidden, !.swapped = swapped]
           m == [type |-> "New", w |-> w, hidden |-> hidden, swapped |-> swapped]
<1>2. ~ crashed /\ acts' \in 0 .. MaxActs /\ ~ rwh[w].made /\ w # "popup"
      /\ UNCHANGED <<rw, tasks, thread, told, crashed, leaks>>
  BY Acting DEF W!MakeWidget
<1>3. /\ h \in Rwh /\ h.made /\ ~ h.gone /\ h.hidden = hidden /\ h.swapped = swapped /\ h.renderer_initialized
      /\ m \in ToWidget /\ m.w = w /\ m.type = "New" /\ m.hidden = hidden /\ m.swapped = swapped
  BY DEF Rwh, W!NoHost, ToWidget
<1>4. rwh' = [rwh EXCEPT ![w] = h] /\ visible' = visible + W!One(~ hidden) /\ sent' = Append(sent, m)
  BY <1>1, <1>3, LifeIsTyped, ConcatOne
<1> HIDE DEF h, m
<1>5. Placed(w, rw[w], h, Append(sent, m), told, tasks, leaks.moves[w], w \in leaks.closing)
  <2> DEFINE u == w \in leaks.closing
             n == leaks.moves[w]
             p == rw[w]
             b == rwh[w]
  <2>1. Placed(w, p, b, sent, told, tasks, n, u) /\ ~ b.made
    BY <1>2, LifeIsTyped
  <2> HIDE DEF u, n, p, b
  <2>2. Placed(w, p, h, Append(sent, m), told, tasks, n, u)
    BY <1>3, <2>1, LivedMade
  <2> QED BY <2>2 DEF u, n, p
<1>6. /\ leaks' \in Leaks /\ leaks'.moves = [leaks.moves EXCEPT ![w] = leaks'.moves[w]]
      /\ leaks'.closing = leaks.closing /\ leaks'.webwidgets = leaks.webwidgets
      /\ leaks'.visible = leaks.visible /\ leaks'.moves[w] = leaks.moves[w]
  BY <1>2, HostUnchanged
<1>7. W!One(Counted(h)) = W!One(~ hidden) /\ W!One(Counted(rwh[w])) = 0 /\ W!One(~ hidden) \in Int
  BY <1>2, <1>3 DEF Counted, W!One
<1>8. visible' \in Int /\ visible' - leaks'.visible = visible - leaks.visible + W!One(Counted(h)) - W!One(Counted(rwh[w]))
  <2>1. visible \in Int /\ leaks.visible \in Nat
    BY LifeIsTyped
  <2> QED BY <1>4, <1>6, <1>7, <2>1
<1>9. OthersHear(w, sent, sent') /\ OthersHear(w, told, told')
  BY <1>2, <1>3, <1>4, OthersHearIt
<1> QED BY <1>2, <1>3, <1>4, <1>5, <1>6, <1>8, <1>9, HostSteps

\* What a host that is there says, with nothing but its own state behind it.
LEMMA HostTells ==
  ASSUME LifeKept, NEW w \in Widgets, W!Act, W!There(w), NEW m \in ToWidget, m.w = w, sent' = Append(sent, m),
         m.type \in {"WasHidden", "WasShown", "SwapOut", "SwapIn"}, NEW h \in Rwh, h.made, ~ h.gone,
         h.renderer_initialized = rwh[w].renderer_initialized, rwh' = [rwh EXCEPT ![w] = h],
         h.hidden = (IF m.type \in {"WasHidden", "WasShown"} THEN m.type = "WasHidden" ELSE rwh[w].hidden),
         IF m.type \in {"SwapOut", "SwapIn"} THEN h.swapped = (m.type = "SwapOut") /\ rwh[w].swapped = (m.type = "SwapIn")
         ELSE h.swapped = rwh[w].swapped,
         UNCHANGED <<rw, tasks, thread, told, crashed, leaks>>,
         visible' = visible + W!One(~ h.hidden) - W!One(~ rwh[w].hidden)
  PROVE  LifeKept'
<1>1. ~ crashed /\ acts' \in 0 .. MaxActs /\ rwh[w].made /\ ~ rwh[w].gone
  BY Acting DEF W!There
<1>2. Placed(w, rw[w], h, Append(sent, m), told, tasks, leaks.moves[w], w \in leaks.closing)
  <2>1. /\ Placed(w, rw[w], rwh[w], sent, told, tasks, leaks.moves[w], w \in leaks.closing)
        /\ rwh[w] \in Rwh
    BY LifeIsTyped
  <2>2. h.gone = (rwh[w].gone \/ m.type = "Close") /\ m.type \notin {"New", "Move_ACK"}
    BY <1>1 DEF Rwh
  <2>3. /\ IF m.type \in {"WasHidden", "WasShown"} THEN ~ rwh[w].gone /\ h.hidden = (m.type = "WasHidden")
           ELSE h.hidden = rwh[w].hidden
        /\ IF m.type \in {"SwapOut", "SwapIn"} THEN h.swapped = (m.type = "SwapOut") /\ rwh[w].swapped = (m.type = "SwapIn")
           ELSE h.swapped = rwh[w].swapped
    BY <1>1
  <2> QED BY <1>1, <2>1, <2>2, <2>3, LivedTold
<1>3. /\ leaks' \in Leaks /\ leaks'.moves = [leaks.moves EXCEPT ![w] = leaks'.moves[w]]
      /\ leaks'.closing = leaks.closing /\ leaks'.webwidgets = leaks.webwidgets
      /\ leaks'.visible = leaks.visible /\ leaks'.moves[w] = leaks.moves[w]
  BY HostUnchanged
<1>4. W!One(Counted(h)) = W!One(~ h.hidden) /\ W!One(Counted(rwh[w])) = W!One(~ rwh[w].hidden)
      /\ W!One(~ h.hidden) \in Int /\ W!One(~ rwh[w].hidden) \in Int
  BY <1>1 DEF Counted, W!One
<1>5. visible' \in Int /\ visible' - leaks'.visible = visible - leaks.visible + W!One(Counted(h)) - W!One(Counted(rwh[w]))
  BY <1>3, <1>4, LifeIsTyped
<1>6. OthersHear(w, sent, sent') /\ OthersHear(w, told, told')
  BY OthersHearIt
<1>7. (w = "popup" => h.made = rwh[w].made) /\ (w # "popup" /\ h.made => h.renderer_initialized)
  BY <1>1, LifeIsTyped DEF Rwh
<1> QED BY <1>1, <1>2, <1>3, <1>5, <1>6, <1>7, HostSteps

LEMMA WasHiddenKeeps == ASSUME LifeKept, NEW w \in Widgets, W!WasHidden(w) PROVE LifeKept'
<1> DEFINE h == [rwh[w] EXCEPT !.hidden = TRUE]
           m == W!Message("WasHidden", w)
<1>1. rwh \in [Widgets -> Rwh] /\ rwh[w] \in Rwh /\ sent \in Seq(ToWidget) /\ visible \in Int
  BY LifeIsTyped
<1>2. m \in ToWidget /\ m.w = w /\ m.type = "WasHidden"
  BY DEF ToWidget, W!Message
<1>3. /\ h \in Rwh /\ h.made = rwh[w].made /\ h.gone = rwh[w].gone /\ h.hidden = TRUE /\ h.swapped = rwh[w].swapped
      /\ h.renderer_initialized = rwh[w].renderer_initialized /\ rwh' = [rwh EXCEPT ![w] = h]
  BY <1>1 DEF Rwh, W!WasHidden
<1>4. W!Act /\ W!There(w) /\ ~ rwh[w].hidden /\ UNCHANGED <<rw, tasks, thread, told, crashed, leaks>>
      /\ sent' = sent \o <<m>> /\ visible' = visible - 1
  BY DEF W!WasHidden, W!Tell
<1>5. sent' = Append(sent, m) /\ visible' = visible + W!One(~ TRUE) - W!One(~ rwh[w].hidden)
  BY <1>1, <1>2, <1>4, ConcatOne DEF W!One
<1>6. h.made /\ ~ h.gone
  BY <1>3, <1>4 DEF W!There
<1> HIDE DEF h, m
<1> QED BY <1>2, <1>3, <1>4, <1>5, <1>6, HostTells

LEMMA WasShownKeeps == ASSUME LifeKept, NEW w \in Widgets, W!WasShown(w) PROVE LifeKept'
<1> DEFINE h == [rwh[w] EXCEPT !.hidden = FALSE]
           m == W!Message("WasShown", w)
<1>1. rwh \in [Widgets -> Rwh] /\ rwh[w] \in Rwh /\ sent \in Seq(ToWidget) /\ visible \in Int
  BY LifeIsTyped
<1>2. m \in ToWidget /\ m.w = w /\ m.type = "WasShown"
  BY DEF ToWidget, W!Message
<1>3. /\ h \in Rwh /\ h.made = rwh[w].made /\ h.gone = rwh[w].gone /\ h.hidden = FALSE /\ h.swapped = rwh[w].swapped
      /\ h.renderer_initialized = rwh[w].renderer_initialized /\ rwh' = [rwh EXCEPT ![w] = h]
  BY <1>1 DEF Rwh, W!WasShown
<1>4. W!Act /\ W!There(w) /\ rwh[w].hidden /\ UNCHANGED <<rw, tasks, thread, told, crashed, leaks>>
      /\ sent' = sent \o <<m>> /\ visible' = visible + 1
  BY DEF W!WasShown, W!Tell
<1>5. sent' = Append(sent, m) /\ visible' = visible + W!One(~ FALSE) - W!One(~ rwh[w].hidden)
  BY <1>1, <1>2, <1>4, ConcatOne DEF W!One
<1>6. h.made /\ ~ h.gone
  BY <1>3, <1>4 DEF W!There
<1> HIDE DEF h, m
<1> QED BY <1>2, <1>3, <1>4, <1>5, <1>6, HostTells

LEMMA SwapViewKeeps == ASSUME LifeKept, W!SwapView PROVE LifeKept'
<1> DEFINE w == "view"
           h == [rwh[w] EXCEPT !.swapped = ~ @]
           m == W!Message(IF rwh[w].swapped THEN "SwapIn" ELSE "SwapOut", w)
<1>1. w \in Widgets
  BY DEF W!SwapView
<1>2. rwh \in [Widgets -> Rwh] /\ rwh[w] \in Rwh /\ sent \in Seq(ToWidget) /\ visible \in Int
  BY <1>1, LifeIsTyped
<1>3. m \in ToWidget /\ m.w = w /\ m.type = IF rwh[w].swapped THEN "SwapIn" ELSE "SwapOut"
  BY <1>1 DEF ToWidget, W!Message
<1>4. /\ h \in Rwh /\ h.made = rwh[w].made /\ h.gone = rwh[w].gone /\ h.hidden = rwh[w].hidden
      /\ h.swapped = ~ rwh[w].swapped
      /\ h.renderer_initialized = rwh[w].renderer_initialized /\ rwh' = [rwh EXCEPT ![w] = h]
  BY <1>2 DEF Rwh, W!SwapView
<1>5. W!Act /\ W!There(w) /\ UNCHANGED <<rw, tasks, thread, told, crashed, leaks>>
      /\ sent' = sent \o <<m>> /\ visible' = visible
  BY DEF W!SwapView, W!Tell
<1>6. sent' = Append(sent, m) /\ visible' = visible + W!One(~ h.hidden) - W!One(~ rwh[w].hidden)
  BY <1>2, <1>3, <1>4, <1>5, ConcatOne DEF W!One
<1>7. h.made /\ ~ h.gone
  BY <1>4, <1>5 DEF W!There
<1>8. h.swapped = (m.type = "SwapOut") /\ rwh[w].swapped = (m.type = "SwapIn") /\ m.type \in {"SwapOut", "SwapIn"}
  BY <1>2, <1>3, <1>4 DEF Rwh
<1> HIDE DEF h, m
<1> QED BY <1>1, <1>3, <1>4, <1>5, <1>6, <1>7, <1>8, HostTells

LEMMA LifeViewDestroyed == ASSUME LifeKept, NEW w \in Widgets, W!ViewDestroyed(w) PROVE LifeKept'
<1> DEFINE h == [rwh[w] EXCEPT !.view = FALSE]
<1>1. rwh \in [Widgets -> Rwh] /\ rwh[w] \in Rwh /\ visible \in Int /\ leaks.visible \in Nat
  BY LifeIsTyped
<1>2. /\ ~ crashed /\ acts' \in 0 .. MaxActs /\ rwh[w].made /\ rwh' = [rwh EXCEPT ![w] = h]
      /\ UNCHANGED <<rw, tasks, thread, visible, sent, told, crashed, leaks>>
  BY <1>1, Acting DEF W!ViewDestroyed, W!There
<1>3. /\ h \in Rwh /\ h.made = rwh[w].made /\ h.gone = rwh[w].gone /\ h.hidden = rwh[w].hidden /\ h.swapped = rwh[w].swapped
      /\ h.renderer_initialized = rwh[w].renderer_initialized
  BY <1>1 DEF Rwh
<1> HIDE DEF h
<1>4. Placed(w, rw[w], h, sent, told, tasks, leaks.moves[w], w \in leaks.closing)
  BY <1>2, <1>3, LifeIsTyped, LivedSame
<1>5. /\ leaks' \in Leaks /\ leaks'.moves = [leaks.moves EXCEPT ![w] = leaks'.moves[w]]
      /\ leaks'.closing = leaks.closing /\ leaks'.webwidgets = leaks.webwidgets
      /\ leaks'.visible = leaks.visible /\ leaks'.moves[w] = leaks.moves[w]
  BY <1>2, HostUnchanged
<1>6. visible' \in Int /\ visible' - leaks'.visible = visible - leaks.visible + W!One(Counted(h)) - W!One(Counted(rwh[w]))
  BY <1>1, <1>2, <1>3, <1>5 DEF Counted, W!One
<1>7. OthersHear(w, sent, sent') /\ OthersHear(w, told, told')
  BY <1>2, OthersHearIt
<1>8. w # "popup" /\ h.made => h.renderer_initialized
  BY <1>2, <1>3, LifeIsTyped
<1> QED BY <1>2, <1>3, <1>4, <1>5, <1>6, <1>7, <1>8, HostSteps

\* A host that is destroyed, with or without being asked to.
LEMMA HostGoes ==
  ASSUME LifeKept, NEW w \in Widgets, ~ crashed, W!There(w), W!ShutdownAndDestroyWidget(w),
         \/ UNCHANGED told
         \/ told # <<>> /\ Head(told).w = w /\ Head(told).type = "Close" /\ told' = Tail(told),
         UNCHANGED <<rw, tasks, thread, visible, crashed>>, acts' \in 0 .. MaxActs
  PROVE  LifeKept'
<1> DEFINE h == W!Destroyed(rwh[w])
           m == W!Message("Close", w)
           u == w \in leaks.closing
           l == W!One(~ rwh[w].hidden)
           moves == leaks.moves[w]
<1>1. /\ Placed(w, rw[w], rwh[w], sent, told, tasks, moves, u)
      /\ rwh \in [Widgets -> Rwh] /\ rwh[w] \in Rwh /\ visible \in Int /\ leaks.visible \in Nat /\ leaks \in Leaks
      /\ sent \in Seq(ToWidget) /\ told \in Seq(OfWidget) /\ moves \in Nat
  BY LifeIsTyped
<1>2. m \in ToWidget /\ m.w = w /\ m.type = "Close"
  BY DEF ToWidget, W!Message
<1>3. /\ h \in Rwh /\ h.made = rwh[w].made /\ h.gone = TRUE /\ h.hidden = rwh[w].hidden /\ h.swapped = rwh[w].swapped
      /\ h.renderer_initialized = rwh[w].renderer_initialized
  BY <1>1 DEF Rwh, W!Destroyed
<1>4. rwh[w].made /\ ~ rwh[w].gone /\ h.made /\ rwh' = [rwh EXCEPT ![w] = h]
      /\ leaks' = [leaks EXCEPT !.visible = @ + l] /\ sent' = sent \o <<m>>
  BY <1>3 DEF W!There, W!ShutdownAndDestroyWidget, W!Tell
<1>5. l \in Nat /\ W!One(Counted(h)) = 0 /\ W!One(Counted(rwh[w])) = l
  BY <1>3, <1>4 DEF Counted, W!One
<1> HIDE DEF h, l
<1>6. /\ leaks' \in Leaks /\ leaks'.moves = leaks.moves /\ leaks'.closing = leaks.closing
      /\ leaks'.webwidgets = leaks.webwidgets /\ leaks'.visible = leaks.visible + l
  <2>1. leaks.visible + l \in Nat
    BY <1>1, <1>5
  <2>2. leaks' = [leaks EXCEPT !.visible = leaks.visible + l]
    BY <1>4
  <2> DEFINE v == leaks.visible + l
  <2> HIDE DEF v
  <2>3. leaks' = [leaks EXCEPT !.visible = v] /\ v \in Nat
    BY <2>1, <2>2 DEF v
  <2>4. /\ leaks' \in Leaks /\ leaks'.moves = leaks.moves /\ leaks'.closing = leaks.closing
        /\ leaks'.webwidgets = leaks.webwidgets /\ leaks'.visible = v
    BY <1>1, <2>3 DEF Leaks
  <2> QED BY <2>4 DEF v
<1>7. leaks'.moves = [leaks.moves EXCEPT ![w] = leaks'.moves[w]] /\ leaks'.moves[w] = moves
  BY <1>6, LifeIsTyped
<1> HIDE DEF m
<1>8. sent' = Append(sent, m)
  BY <1>1, <1>2, <1>4, ConcatOne
<1>9. Placed(w, rw[w], h, Append(sent, m), told, tasks, moves, u)
  <2>1. h.gone = (rwh[w].gone \/ m.type = "Close") /\ m.type \notin {"New", "Move_ACK"}
    BY <1>2, <1>3
  <2>2. /\ IF m.type \in {"WasHidden", "WasShown"} THEN ~ rwh[w].gone /\ h.hidden = (m.type = "WasHidden")
           ELSE h.hidden = rwh[w].hidden
        /\ IF m.type \in {"SwapOut", "SwapIn"} THEN h.swapped = (m.type = "SwapOut") /\ rwh[w].swapped = (m.type = "SwapIn")
           ELSE h.swapped = rwh[w].swapped
    BY <1>2, <1>3
  <2> QED BY <1>1, <1>2, <1>3, <1>4, <2>1, <2>2, LivedTold
<1>10. Placed(w, rw[w], h, sent', told', tasks, moves, u) /\ OthersHear(w, told, told')
  <2>1. CASE UNCHANGED told
    BY <1>8, <1>9, <2>1, OthersHearIt
  <2>2. CASE told # <<>> /\ Head(told).w = w /\ Head(told).type = "Close" /\ told' = Tail(told)
    <3>1. Placed(w, rw[w], h, sent', Tail(told), tasks, moves + W!One(IsMove(Head(told))), u)
      BY <1>3, <1>8, <1>9, <2>2, LivedHeard
    <3>2. moves + W!One(IsMove(Head(told))) = moves
      BY <1>1, <2>2 DEF W!One, IsMove
    <3> QED BY <2>2, <3>1, <3>2, OthersHearIt
  <2> QED BY <2>1, <2>2
<1>11. OthersHear(w, sent, sent')
  BY <1>2, <1>8, OthersHearIt
<1>12. visible' \in Int /\ visible' - leaks'.visible = visible - leaks.visible + W!One(Counted(h)) - W!One(Counted(rwh[w]))
  BY <1>1, <1>5, <1>6
<1>13. w # "popup" /\ h.made => h.renderer_initialized
  BY <1>3, LifeIsTyped
<1> QED BY <1>3, <1>4, <1>6, <1>7, <1>10, <1>11, <1>12, <1>13, HostSteps

LEMMA BrowserClosesKeeps == ASSUME LifeKept, NEW w \in Widgets, W!BrowserCloses(w) PROVE LifeKept'
BY Acting, HostGoes DEF W!BrowserCloses

\* A host hears its widget, and acknowledges a move or not.
LEMMA HostHears ==
  ASSUME LifeKept, NEW w \in Widgets, ~ crashed, told # <<>>, Head(told).w = w, told' = Tail(told),
         UNCHANGED <<rw, tasks, thread, visible, crashed>>, acts' \in 0 .. MaxActs,
         Head(told).type = "Close" /\ rwh[w].made => rwh[w].gone, NEW h \in Rwh, rwh' = [rwh EXCEPT ![w] = h],
         h = rwh[w] \/ rwh[w].made, h.made = rwh[w].made, h.gone = rwh[w].gone, h.hidden = rwh[w].hidden,
         h.swapped = rwh[w].swapped, w # "popup" /\ h.made => h.renderer_initialized,
         \/ sent' = sent /\ leaks' = [leaks EXCEPT !.moves[w] = @ + W!One(IsMove(Head(told)))]
         \/ sent' = Append(sent, W!Message("Move_ACK", w)) /\ UNCHANGED leaks /\ rwh[w].made /\ IsMove(Head(told))
  PROVE  LifeKept'
<1> DEFINE m == W!Message("Move_ACK", w)
           u == w \in leaks.closing
           d == W!One(IsMove(Head(told)))
           moves == leaks.moves[w]
<1>1. /\ Placed(w, rw[w], rwh[w], sent, told, tasks, moves, u)
      /\ rwh[w] \in Rwh /\ visible \in Int /\ leaks.visible \in Nat /\ leaks \in Leaks
      /\ moves \in Nat /\ leaks.moves \in [Widgets -> Nat]
  BY LifeIsTyped
<1>2. m \in ToWidget /\ m.w = w /\ m.type = "Move_ACK"
  BY DEF ToWidget, W!Message
<1>3. Placed(w, rw[w], rwh[w], sent, Tail(told), tasks, moves + d, u) /\ d \in Nat
  BY <1>1, LivedHeard DEF W!One
<1>4. Placed(w, rw[w], h, sent, Tail(told), tasks, moves + d, u)
  <2>1. CASE h = rwh[w]
    BY <1>3, <2>1
  <2>2. CASE rwh[w].made
    BY <1>3, <2>2, LivedSame
  <2> QED BY <2>1, <2>2
<1>5. Counted(h) = Counted(rwh[w]) /\ W!One(Counted(rwh[w])) \in Int
  BY <1>1 DEF Counted, W!One
<1>6. OthersHear(w, told, told')
  BY OthersHearIt
<1>7. CASE sent' = sent /\ leaks' = [leaks EXCEPT !.moves[w] = @ + d]
  <2> HIDE DEF d
  <2>1. leaks'.moves = [leaks.moves EXCEPT ![w] = @ + d]
    BY <1>1, <1>7 DEF Leaks
  <2>2. leaks'.moves[w] = moves + d /\ leaks'.moves \in [Widgets -> Nat]
        /\ leaks'.moves = [leaks.moves EXCEPT ![w] = leaks'.moves[w]]
    <3> DEFINE f == leaks.moves
               n == f[w] + d
    <3>1. f \in [Widgets -> Nat] /\ n \in Nat /\ leaks'.moves = [f EXCEPT ![w] = n]
      BY <1>1, <1>3, <2>1
    <3> HIDE DEF f, n
    <3>2. leaks'.moves[w] = n /\ leaks'.moves \in [Widgets -> Nat] /\ leaks'.moves = [f EXCEPT ![w] = leaks'.moves[w]]
      BY <3>1
    <3> QED BY <3>2 DEF f, n
  <2>3. /\ leaks' \in Leaks /\ leaks'.closing = leaks.closing
        /\ leaks'.webwidgets = leaks.webwidgets /\ leaks'.visible = leaks.visible
    BY <1>1, <1>7, <2>1, <2>2 DEF Leaks
  <2>4. visible' \in Int /\ visible' - leaks'.visible = visible - leaks.visible + W!One(Counted(h)) - W!One(Counted(rwh[w]))
    BY <1>1, <1>5, <2>3
  <2>5. OthersHear(w, sent, sent')
    BY <1>7, OthersHearIt
  <2>6. Placed(w, rw[w], h, sent', told', tasks, leaks'.moves[w], u)
    BY <1>4, <1>7, <2>2
  <2> QED BY <1>6, <2>2, <2>3, <2>4, <2>5, <2>6, HostSteps
<1>8. CASE sent' = Append(sent, m) /\ UNCHANGED leaks /\ rwh[w].made /\ IsMove(Head(told))
  <2>1. d = 1
    BY <1>8 DEF W!One
  <2> HIDE DEF m, d
  <2>2. Placed(w, rw[w], h, Append(sent, m), Tail(told), tasks, moves, u)
    BY <1>1, <1>2, <1>4, <1>8, <2>1, LivedAcked
  <2>3. /\ leaks' \in Leaks /\ leaks'.moves = [leaks.moves EXCEPT ![w] = leaks'.moves[w]]
        /\ leaks'.closing = leaks.closing /\ leaks'.webwidgets = leaks.webwidgets
        /\ leaks'.visible = leaks.visible /\ leaks'.moves[w] = leaks.moves[w]
    BY <1>8, HostUnchanged
  <2>4. visible' \in Int /\ visible' - leaks'.visible = visible - leaks.visible + W!One(Counted(h)) - W!One(Counted(rwh[w]))
    BY <1>1, <1>5, <2>3
  <2>5. OthersHear(w, sent, sent')
    BY <1>2, <1>8, OthersHearIt
  <2>6. Placed(w, rw[w], h, sent', told', tasks, leaks'.moves[w], u)
    BY <1>8, <2>2, <2>3
  <2> QED BY <1>6, <2>3, <2>4, <2>5, <2>6, HostSteps
<1> QED BY <1>7, <1>8

LEMMA LifeHostMessage == ASSUME LifeKept, NEW x \in Widgets, W!OnHostMessage PROVE LifeKept'
<1> DEFINE m == Head(told)
           w == m.w
           a == W!Message("Move_ACK", w)
<1>1. told # <<>> /\ told \in Seq(OfWidget) /\ sent \in Seq(ToWidget) /\ ~ crashed /\ told' = Tail(told)
      /\ acts' \in 0 .. MaxActs /\ UNCHANGED <<rw, tasks, thread, visible, crashed>>
  BY LifeIsTyped DEF W!OnHostMessage
<1>2. m \in OfWidget /\ w \in Widgets /\ m.type \in {"ShowWidget", "RequestMove", "Close", "RouteCloseEvent"}
  <2>1. m \in OfWidget
    BY <1>1
  <2> QED BY <2>1 DEF OfWidget
<1>3. /\ rwh \in [Widgets -> Rwh] /\ rwh[w] \in Rwh /\ rwh = [rwh EXCEPT ![w] = rwh[w]]
      /\ w # "popup" /\ rwh[w].made => rwh[w].renderer_initialized
  BY <1>1, <1>2, LifeIsTyped
<1>4. a \in ToWidget
  BY <1>2 DEF W!Message, ToWidget
<1>5. sent \o <<a>> = Append(sent, a) /\ sent \o <<>> = sent
  BY <1>1, <1>4, ConcatOne
<1>6. \/ /\ ~ W!There(w) \/ m.type = "RouteCloseEvent"
         /\ leaks' = [leaks EXCEPT !.moves[w] = @ + W!One(m.type \in {"RequestMove", "ShowWidget"})]
         /\ UNCHANGED <<rwh, sent>>
      \/ m.type = "Close" /\ W!There(w) /\ W!ShutdownAndDestroyWidget(w)
      \/ /\ m.type = "ShowWidget" /\ W!There(w)
         /\ rwh' = [rwh EXCEPT ![w].view = TRUE, ![w].renderer_initialized = TRUE]
         /\ sent' = sent \o <<a>>
         /\ UNCHANGED leaks
      \/ /\ m.type = "RequestMove" /\ W!There(w)
         /\ sent' = sent \o (IF rwh[w].view THEN <<a>> ELSE <<>>)
         /\ leaks' = [leaks EXCEPT !.moves[w] = @ + W!One(~ rwh[w].view)]
         /\ UNCHANGED rwh
  BY DEF W!OnHostMessage, W!Tell
<1> HIDE DEF m, a
<1>7. CASE /\ ~ W!There(w) \/ m.type = "RouteCloseEvent"
           /\ leaks' = [leaks EXCEPT !.moves[w] = @ + W!One(m.type \in {"RequestMove", "ShowWidget"})]
           /\ UNCHANGED <<rwh, sent>>
  <2>1. leaks' = [leaks EXCEPT !.moves[w] = @ + W!One(IsMove(Head(told)))]
    BY <1>7 DEF IsMove, m
  <2>2. Head(told).w = w /\ (Head(told).type = "Close" /\ rwh[w].made => rwh[w].gone)
    BY <1>7 DEF m, W!There
  <2>3. rwh' = [rwh EXCEPT ![w] = rwh[w]]
    BY <1>3, <1>7
  <2> QED BY <1>1, <1>2, <1>3, <1>7, <2>1, <2>2, <2>3, HostHears
<1>8. CASE m.type = "Close" /\ W!There(w) /\ W!ShutdownAndDestroyWidget(w)
  BY <1>1, <1>2, <1>8, HostGoes DEF m
<1>9. CASE /\ m.type = "ShowWidget" /\ W!There(w)
           /\ rwh' = [rwh EXCEPT ![w].view = TRUE, ![w].renderer_initialized = TRUE]
           /\ sent' = sent \o <<a>>
           /\ UNCHANGED leaks
  <2> DEFINE h == [rwh[w] EXCEPT !.view = TRUE, !.renderer_initialized = TRUE]
  <2>1. rwh' = [rwh EXCEPT ![w] = h]
    BY <1>3, <1>9
  <2>2. /\ h \in Rwh /\ h.made = rwh[w].made /\ h.gone = rwh[w].gone /\ h.hidden = rwh[w].hidden
        /\ h.swapped = rwh[w].swapped /\ h.renderer_initialized
    BY <1>3 DEF Rwh
  <2>3. rwh[w].made /\ IsMove(Head(told)) /\ Head(told).w = w /\ Head(told).type # "Close"
    BY <1>9 DEF W!There, IsMove, m
  <2>4. sent' = Append(sent, W!Message("Move_ACK", w))
    BY <1>5, <1>9 DEF a
  <2> HIDE DEF h
  <2> QED BY <1>1, <1>2, <1>9, <2>1, <2>2, <2>3, <2>4, HostHears
<1>10. CASE /\ m.type = "RequestMove" /\ W!There(w)
            /\ sent' = sent \o (IF rwh[w].view THEN <<a>> ELSE <<>>)
            /\ leaks' = [leaks EXCEPT !.moves[w] = @ + W!One(~ rwh[w].view)]
            /\ UNCHANGED rwh
  <2>1. rwh[w].made /\ IsMove(Head(told)) /\ Head(told).w = w /\ Head(told).type # "Close"
    BY <1>10 DEF W!There, IsMove, m
  <2>2. rwh' = [rwh EXCEPT ![w] = rwh[w]]
    BY <1>3, <1>10
  <2>3. \/ sent' = sent /\ leaks' = [leaks EXCEPT !.moves[w] = @ + W!One(IsMove(Head(told)))]
        \/ sent' = Append(sent, W!Message("Move_ACK", w)) /\ UNCHANGED leaks
    <3>1. CASE rwh[w].view
      <4>1. sent' = Append(sent, W!Message("Move_ACK", w))
        BY <1>5, <1>10, <3>1 DEF a
      <4>2. leaks' = [leaks EXCEPT !.moves[w] = @ + 0]
        BY <1>10, <3>1 DEF W!One
      <4>3. leaks \in Leaks /\ leaks.moves \in [Widgets -> Nat] /\ leaks.moves[w] \in Nat
        BY <1>2, LifeIsTyped
      <4>4. leaks' = leaks
        <5>1. [leaks.moves EXCEPT ![w] = @ + 0] = leaks.moves
          BY <1>2, <4>3
        <5>2. leaks' = [leaks EXCEPT !.moves = [leaks.moves EXCEPT ![w] = @ + 0]]
          BY <4>2
        <5>3. leaks' = [leaks EXCEPT !.moves = leaks.moves]
          BY <5>1, <5>2
        <5> QED BY <4>3, <5>3 DEF Leaks
      <4> QED BY <4>1, <4>4
    <3>2. CASE ~ rwh[w].view
      <4>1. sent' = sent
        BY <1>5, <1>10, <3>2
      <4>2. W!One(~ rwh[w].view) = W!One(IsMove(Head(told)))
        BY <2>1, <3>2 DEF W!One
      <4> QED BY <1>10, <4>1, <4>2
    <3> QED BY <3>1, <3>2
  <2> QED BY <1>1, <1>2, <1>3, <2>1, <2>2, <2>3, HostHears
<1> QED BY <1>6, <1>7, <1>8, <1>9, <1>10

-----------------------------------------------------------------------------
(* The renderer.                                                           *)

\* What is there was made.
LEMMA MadeIs ==
  ASSUME LifeKept, NEW w \in Widgets
  PROVE  /\ rw[w].webwidget \/ rw[w].compositor \/ rw[w].routed => rw[w].made
         /\ rw[w].routed => ~ rw[w].closing
<1>1. Grown(w, rw[w], rwh[w], sent, told, tasks, leaks.moves[w])
  BY DEF LifeKept, Lives, Lived
<1> QED BY <1>1 DEF Grown, W!Unmade

\* The counts of a widget that stays what it is.
LEMMA SameThreads ==
  ASSUME LifeKept, NEW w \in Widgets, UNCHANGED thread, NEW r, r.made = rw[w].made, r.routed = rw[w].routed,
         r.hidden = rw[w].hidden, r.swapped = rw[w].swapped
  PROVE  /\ thread' \in Threads
         /\ thread'.widgets = thread.widgets + W!One(r.routed) - W!One(rw[w].routed)
         /\ thread'.hidden = thread.hidden + W!One(OffScreen(r)) - W!One(OffScreen(rw[w]))
         /\ thread'.process = thread.process + W!One(InUse(r)) - W!One(InUse(rw[w]))
<1>1. thread \in Threads
  BY LifeIsTyped
<1>2. \A p : W!One(p) \in Int
  BY DEF W!One
<1>3. OffScreen(r) = OffScreen(rw[w]) /\ InUse(r) = InUse(rw[w])
  BY DEF OffScreen, InUse
<1> QED BY <1>1, <1>2, <1>3 DEF Threads

LEMMA MovesMore ==
  ASSUME LifeKept, NEW w \in Widgets, NEW d \in Nat, leaks' = [leaks EXCEPT !.moves[w] = @ + d]
  PROVE  /\ leaks' \in Leaks /\ leaks'.closing = leaks.closing /\ leaks'.webwidgets = leaks.webwidgets
         /\ leaks'.visible = leaks.visible /\ leaks'.moves[w] = leaks.moves[w] + d
         /\ leaks'.moves = [leaks.moves EXCEPT ![w] = leaks'.moves[w]]
<1> DEFINE f == leaks.moves
           n == f[w] + d
<1>1. f \in [Widgets -> Nat] /\ f[w] \in Nat /\ leaks \in Leaks
  BY LifeIsTyped
<1>2. leaks' = [leaks EXCEPT !.moves = [f EXCEPT ![w] = n]] /\ n \in Nat
  BY <1>1
<1> DEFINE g == [f EXCEPT ![w] = n]
<1> HIDE DEF f, n
<1>3. g \in [Widgets -> Nat] /\ g[w] = n /\ g = [f EXCEPT ![w] = g[w]]
  BY <1>1, <1>2
<1> HIDE DEF g
<1>4. leaks' = [leaks EXCEPT !.moves = g]
  BY <1>2 DEF g
<1>5. /\ leaks' \in Leaks /\ leaks'.closing = leaks.closing /\ leaks'.webwidgets = leaks.webwidgets
      /\ leaks'.visible = leaks.visible /\ leaks'.moves = g
  BY <1>1, <1>3, <1>4 DEF Leaks
<1> QED BY <1>3, <1>5 DEF n, f

LEMMA MoveAsked ==
  ASSUME LifeKept, NEW w \in Widgets, W!Act, rw[w].made, NEW type \in {"RequestMove", "ShowWidget"}, W!Send(w, type),
         NEW r \in Rw, r.made, r.routed = rw[w].routed, r.webwidget = rw[w].webwidget, r.closing = rw[w].closing,
         r.hidden = rw[w].hidden, r.swapped = rw[w].swapped, r.host_closing = rw[w].host_closing,
         r.pending = rw[w].pending + 1, rw' = [rw EXCEPT ![w] = r],
         leaks' = [leaks EXCEPT !.moves[w] = @ + W!One(~ W!MaySend(w, type))],
         UNCHANGED <<tasks, thread, rwh, visible, sent, crashed>>
  PROVE  LifeKept'
<1> DEFINE u == w \in leaks.closing
           m == W!Message(type, w)
           d == W!One(~ W!MaySend(w, type))
<1>1. /\ Placed(w, rw[w], rwh[w], sent, told, tasks, leaks.moves[w], u) /\ rw[w] \in Rw
      /\ leaks.moves[w] \in Nat /\ u \in BOOLEAN /\ told \in Seq(OfWidget)
  BY LifeIsTyped
<1>2. ~ crashed /\ acts' \in 0 .. MaxActs
  BY Acting
<1>3. m \in OfWidget /\ m.w = w /\ m.type = type /\ d \in Nat
  BY DEF W!Message, OfWidget, W!One
<1>4. told' = (IF W!MaySend(w, type) THEN Append(told, m) ELSE told) /\ IsMove(m)
  BY <1>3 DEF W!Send, IsMove
<1>5. leaks' = [leaks EXCEPT !.moves[w] = @ + d]
  OBVIOUS
<1>6. (IF W!MaySend(w, type) THEN d = 0 ELSE d = 1)
  BY DEF W!One
<1> HIDE DEF m, d
<1>7. /\ leaks' \in Leaks /\ leaks'.closing = leaks.closing /\ leaks'.webwidgets = leaks.webwidgets
      /\ leaks'.visible = leaks.visible /\ leaks'.moves[w] = leaks.moves[w] + d
      /\ leaks'.moves = [leaks.moves EXCEPT ![w] = leaks'.moves[w]]
  BY <1>3, <1>5, MovesMore
<1>8. /\ told' \in Seq(OfWidget) /\ (Said(told, Tells(w, {"Close"})) => Said(told', Tells(w, {"Close"})))
      /\ Number(told', Moves(w)) + leaks'.moves[w] = Number(told, Moves(w)) + leaks.moves[w] + 1
  <2>1. Number(told, Moves(w)) \in Nat
    BY <1>1, NumberIsNat
  <2>2. CASE W!MaySend(w, type)
    <3>1. Spoken(w, told, m, told')
      BY <1>1, <1>3, <1>4, <2>2, SaidOf
    <3>2. /\ told' \in Seq(OfWidget) /\ Number(told', Moves(w)) = Number(told, Moves(w)) + 1
          /\ (Said(told, Tells(w, {"Close"})) => Said(told', Tells(w, {"Close"})))
      BY <1>4, <3>1 DEF Spoken, W!One
    <3>3. leaks'.moves[w] = leaks.moves[w]
      <4>1. leaks'.moves[w] = leaks.moves[w] + 0 /\ leaks.moves[w] \in Nat
        BY <1>1, <1>6, <1>7, <2>2
      <4> QED BY <4>1
    <3>4. Number(told, Moves(w)) + 1 + leaks.moves[w] = Number(told, Moves(w)) + leaks.moves[w] + 1
      <4> DEFINE a == Number(told, Moves(w))
                 b == leaks.moves[w]
      <4>1. a \in Nat /\ b \in Nat
        BY <1>1, <2>1
      <4> HIDE DEF a, b
      <4>2. a + 1 + b = a + b + 1
        BY <4>1
      <4> QED BY <4>2 DEF a, b
    <3> QED BY <3>2, <3>3, <3>4
  <2>3. CASE ~ W!MaySend(w, type)
    BY <1>1, <1>4, <1>6, <1>7, <2>1, <2>3
  <2> QED BY <2>2, <2>3
<1>9. Placed(w, r, rwh[w], sent, told', tasks, leaks'.moves[w], u)
  <2>1. leaks'.moves[w] \in Nat /\ 1 \in 0 .. 1
    BY <1>1, <1>3, <1>7
  <2> DEFINE n == leaks'.moves[w]
             k == leaks.moves[w]
             p == rw[w]
             t_ == told'
  <2>2. /\ Placed(w, p, rwh[w], sent, told, tasks, k, u) /\ p.made /\ n \in Nat /\ t_ \in Seq(OfWidget)
        /\ Number(t_, Moves(w)) + n = Number(told, Moves(w)) + k + 1
        /\ (Said(told, Tells(w, {"Close"})) => Said(t_, Tells(w, {"Close"})))
        /\ r.routed = p.routed /\ r.webwidget = p.webwidget /\ r.closing = p.closing
        /\ r.hidden = p.hidden /\ r.swapped = p.swapped /\ r.host_closing = p.host_closing
        /\ r.pending = p.pending + 1
    BY <1>1, <1>8, <2>1
  <2> HIDE DEF n, k, p, t_, u
  <2>3. u \in BOOLEAN
    BY <1>1 DEF u
  <2>4. Placed(w, r, rwh[w], sent, t_, tasks, n, u)
    BY <2>1, <2>2, <2>3, LivedSpeaks
  <2> QED BY <2>4 DEF n, t_
<1>10. OthersHear(w, sent, sent') /\ OthersHear(w, told, told') /\ OthersHear(w, tasks, tasks')
  BY <1>3, <1>4, OthersHearIt
<1>11. /\ thread' \in Threads
       /\ thread'.widgets = thread.widgets + W!One(r.routed) - W!One(rw[w].routed)
       /\ thread'.hidden = thread.hidden + W!One(OffScreen(r)) - W!One(OffScreen(rw[w]))
       /\ thread'.process = thread.process + W!One(InUse(r)) - W!One(InUse(rw[w]))
  <2>1. r.made = rw[w].made
    BY <1>1 DEF Rw
  <2> QED BY <2>1, SameThreads
<1>12. Placed(w, r, rwh[w], sent', told', tasks', leaks'.moves[w], u) /\ leaks.closing \subseteq leaks'.closing
       /\ (u => w \in leaks'.closing)
  BY <1>7, <1>9
<1> QED BY <1>2, <1>7, <1>10, <1>11, <1>12, WidgetSteps

LEMMA ShowKeeps == ASSUME LifeKept, W!show PROVE LifeKept'
<1> DEFINE w == "popup"
           r == [rw[w] EXCEPT !.shown = TRUE, !.pending = @ + 1]
<1>1. w \in Widgets /\ W!Act /\ rw[w].webwidget
  BY DEF W!show
<1>2. rw \in [Widgets -> Rw] /\ rw[w] \in Rw /\ rw[w].made
  BY <1>1, LifeIsTyped, MadeIs
<1>3. rw' = [rw EXCEPT ![w] = r]
  BY <1>1, <1>2 DEF W!show
<1>4. /\ r \in Rw /\ r.made /\ r.routed = rw[w].routed /\ r.webwidget = rw[w].webwidget /\ r.closing = rw[w].closing
      /\ r.hidden = rw[w].hidden /\ r.swapped = rw[w].swapped /\ r.host_closing = rw[w].host_closing
      /\ r.pending = rw[w].pending + 1
  <2> DEFINE p == rw[w]
             n == p.pending + 1
             r_ == [p EXCEPT !.shown = TRUE, !.pending = n]
  <2>1. p \in Rw /\ p.made /\ n \in Nat
    BY <1>2 DEF Rw
  <2> HIDE DEF p, n
  <2>2. /\ r_ \in Rw /\ r_.made /\ r_.routed = p.routed /\ r_.webwidget = p.webwidget /\ r_.closing = p.closing
        /\ r_.hidden = p.hidden /\ r_.swapped = p.swapped /\ r_.host_closing = p.host_closing /\ r_.pending = n
    BY <2>1 DEF Rw
  <2> QED BY <2>2 DEF p, n
<1> HIDE DEF r
<1>5. /\ W!Send(w, "ShowWidget") /\ leaks' = [leaks EXCEPT !.moves[w] = @ + W!One(~ W!MaySend(w, "ShowWidget"))]
      /\ UNCHANGED <<tasks, thread, rwh, visible, sent, crashed>>
  BY DEF W!show
<1> QED BY <1>1, <1>2, <1>3, <1>4, <1>5, MoveAsked

LEMMA SetWindowRectKeeps == ASSUME LifeKept, NEW w \in Widgets, W!setWindowRect(w) PROVE LifeKept'
<1> DEFINE r == [rw[w] EXCEPT !.pending = @ + 1]
<1>1. W!Act /\ rw[w].webwidget
  BY DEF W!setWindowRect
<1>2. rw \in [Widgets -> Rw] /\ rw[w] \in Rw /\ rw[w].made
  BY <1>1, LifeIsTyped, MadeIs
<1>3. rw' = [rw EXCEPT ![w] = r]
  BY <1>1, <1>2 DEF W!setWindowRect, W!RequestMove
<1>4. /\ r \in Rw /\ r.made /\ r.routed = rw[w].routed /\ r.webwidget = rw[w].webwidget /\ r.closing = rw[w].closing
      /\ r.hidden = rw[w].hidden /\ r.swapped = rw[w].swapped /\ r.host_closing = rw[w].host_closing
      /\ r.pending = rw[w].pending + 1
  BY <1>2 DEF Rw
<1> HIDE DEF r
<1>5. /\ W!Send(w, "RequestMove") /\ leaks' = [leaks EXCEPT !.moves[w] = @ + W!One(~ W!MaySend(w, "RequestMove"))]
      /\ UNCHANGED <<tasks, thread, rwh, visible, sent, crashed>>
  BY DEF W!setWindowRect, W!RequestMove
<1> QED BY <1>1, <1>2, <1>3, <1>4, <1>5, MoveAsked

\* A widget that says nothing of a move, or nothing at all.
LEMMA WidgetSpeaks ==
  ASSUME LifeKept, NEW w \in Widgets, W!Act, rw[w].made, NEW r \in Rw, r.made, r.routed = rw[w].routed,
         r.webwidget = rw[w].webwidget, r.closing = rw[w].closing, r.hidden = rw[w].hidden, r.swapped = rw[w].swapped,
         r.host_closing = rw[w].host_closing, r.pending = rw[w].pending, rw' = [rw EXCEPT ![w] = r],
         UNCHANGED <<thread, rwh, visible, sent, crashed, leaks>>,
         told' = told \/ told' = Append(told, W!Message("RouteCloseEvent", w)),
         tasks' = tasks \/ tasks' = Append(tasks, [task |-> "DoDeferredClose", w |-> w])
  PROVE  LifeKept'
<1> DEFINE u == w \in leaks.closing
           m == W!Message("RouteCloseEvent", w)
           k == [task |-> "DoDeferredClose", w |-> w]
<1>1. /\ Placed(w, rw[w], rwh[w], sent, told, tasks, leaks.moves[w], u) /\ rw[w] \in Rw
      /\ leaks.moves[w] \in Nat /\ u \in BOOLEAN /\ told \in Seq(OfWidget)
  BY LifeIsTyped
<1>2. ~ crashed /\ acts' \in 0 .. MaxActs
  BY Acting
<1>3. m \in OfWidget /\ m.w = w /\ m.type = "RouteCloseEvent" /\ k \in Task /\ k.w = w /\ k.task = "DoDeferredClose"
  BY DEF W!Message, OfWidget, Task
<1> HIDE DEF m, k
<1>4. told' = told \/ told' = Append(told, m)
  BY DEF m
<1>5. tasks' = tasks \/ tasks' = Append(tasks, k)
  BY DEF k
<1>6. /\ told' \in Seq(OfWidget) /\ (Said(told, Tells(w, {"Close"})) => Said(told', Tells(w, {"Close"})))
      /\ Number(told', Moves(w)) = Number(told, Moves(w)) /\ Number(told, Moves(w)) \in Nat
  <2>1. Number(told, Moves(w)) \in Nat
    BY <1>1, NumberIsNat
  <2>2. CASE told' = told
    BY <1>1, <2>1, <2>2
  <2>3. CASE told' = Append(told, m)
    <3>1. Spoken(w, told, m, told')
      BY <1>1, <1>3, <2>3, SaidOf
    <3> QED BY <1>3, <2>1, <3>1 DEF Spoken, W!One, IsMove
  <2> QED BY <1>4, <2>2, <2>3
<1>7. Placed(w, r, rwh[w], sent, told', tasks, leaks.moves[w], u)
  <2> DEFINE n == leaks.moves[w]
             p == rw[w]
             t_ == told'
  <2>1. /\ Placed(w, p, rwh[w], sent, told, tasks, n, u) /\ p.made /\ n \in Nat /\ t_ \in Seq(OfWidget)
        /\ Number(t_, Moves(w)) + n = Number(told, Moves(w)) + n + 0 /\ 0 \in 0 .. 1 /\ r.pending = p.pending + 0
        /\ (Said(told, Tells(w, {"Close"})) => Said(t_, Tells(w, {"Close"})))
        /\ r.routed = p.routed /\ r.webwidget = p.webwidget /\ r.closing = p.closing
        /\ r.hidden = p.hidden /\ r.swapped = p.swapped /\ r.host_closing = p.host_closing
    BY <1>1, <1>6 DEF Rw
  <2> HIDE DEF n, p, t_, u
  <2>2. u \in BOOLEAN
    BY <1>1 DEF u
  <2>3. Placed(w, r, rwh[w], sent, t_, tasks, n, u)
    BY <2>1, <2>2, LivedSpeaks
  <2> QED BY <2>3 DEF n, t_
<1>8. Placed(w, r, rwh[w], sent', told', tasks', leaks'.moves[w], u)
  <2> DEFINE n == leaks.moves[w]
             h == rwh[w]
             t_ == told'
  <2> HIDE DEF n, h, t_, u
  <2>1. Placed(w, r, h, sent, t_, tasks, n, u)
    BY <1>7 DEF n, h, t_
  <2>2. Placed(w, r, h, sent, t_, Append(tasks, k), n, u)
    BY <1>3, <2>1, LivedPosts
  <2>3. Placed(w, r, h, sent, t_, tasks', n, u)
    BY <1>5, <2>1, <2>2
  <2>4. sent' = sent /\ leaks'.moves[w] = n
    BY DEF n
  <2> QED BY <2>3, <2>4 DEF h, t_
<1>9. OthersHear(w, sent, sent') /\ OthersHear(w, told, told') /\ OthersHear(w, tasks, tasks')
  BY <1>3, <1>4, <1>5, OthersHearIt
<1>10. /\ thread' \in Threads
       /\ thread'.widgets = thread.widgets + W!One(r.routed) - W!One(rw[w].routed)
       /\ thread'.hidden = thread.hidden + W!One(OffScreen(r)) - W!One(OffScreen(rw[w]))
       /\ thread'.process = thread.process + W!One(InUse(r)) - W!One(InUse(rw[w]))
  <2>1. r.made = rw[w].made
    BY <1>1 DEF Rw
  <2> QED BY <2>1, SameThreads
<1>11. /\ leaks' \in Leaks /\ leaks'.moves = [leaks.moves EXCEPT ![w] = leaks'.moves[w]]
       /\ leaks'.closing = leaks.closing /\ leaks'.webwidgets = leaks.webwidgets
       /\ leaks'.visible = leaks.visible /\ leaks'.moves[w] = leaks.moves[w]
  BY HostUnchanged
<1>12. leaks.closing \subseteq leaks'.closing /\ (u => w \in leaks'.closing)
  BY <1>11
<1>13. UNCHANGED <<rwh, visible, crashed>> /\ rw' = [rw EXCEPT ![w] = r]
  OBVIOUS
<1> HIDE DEF u
<1> QED BY <1>2, <1>8, <1>9, <1>10, <1>11, <1>12, <1>13, WidgetSteps

LEMMA InitializeLayerTreeViewKeeps == ASSUME LifeKept, NEW w \in Widgets, W!initializeLayerTreeView(w) PROVE LifeKept'
<1> DEFINE r == [rw[w] EXCEPT !.compositor = TRUE]
<1>1. W!Act /\ rw[w].webwidget /\ UNCHANGED <<tasks, thread, rwh, visible, sent, told, crashed, leaks>>
      /\ rw' = [rw EXCEPT ![w].compositor = TRUE]
  BY DEF W!initializeLayerTreeView
<1>2. rw \in [Widgets -> Rw] /\ rw[w] \in Rw /\ rw[w].made
  BY <1>1, LifeIsTyped, MadeIs
<1>3. rw' = [rw EXCEPT ![w] = r]
  BY <1>1, <1>2
<1>4. /\ r \in Rw /\ r.made /\ r.routed = rw[w].routed /\ r.webwidget = rw[w].webwidget /\ r.closing = rw[w].closing
      /\ r.hidden = rw[w].hidden /\ r.swapped = rw[w].swapped /\ r.host_closing = rw[w].host_closing
      /\ r.pending = rw[w].pending
  BY <1>2 DEF Rw
<1> HIDE DEF r
<1> QED BY <1>1, <1>2, <1>3, <1>4, WidgetSpeaks

LEMMA CreateOutputSurfaceKeeps == ASSUME LifeKept, NEW w \in Widgets, W!CreateOutputSurface(w) PROVE LifeKept'
<1>1. PICK numbered \in BOOLEAN : rw' = [rw EXCEPT ![w].outputs = @ + W!One(numbered)]
  BY DEF W!CreateOutputSurface
<1> DEFINE r == [rw[w] EXCEPT !.outputs = @ + W!One(numbered)]
<1>2. W!Act /\ rw[w].compositor /\ UNCHANGED <<tasks, thread, rwh, visible, sent, told, crashed, leaks>>
  BY DEF W!CreateOutputSurface
<1>3. rw \in [Widgets -> Rw] /\ rw[w] \in Rw /\ rw[w].made
  BY <1>2, LifeIsTyped, MadeIs
<1>4. rw' = [rw EXCEPT ![w] = r]
  BY <1>1, <1>3
<1>5. W!One(numbered) \in Nat
  BY DEF W!One
<1>6. /\ r \in Rw /\ r.made /\ r.routed = rw[w].routed /\ r.webwidget = rw[w].webwidget /\ r.closing = rw[w].closing
      /\ r.hidden = rw[w].hidden /\ r.swapped = rw[w].swapped /\ r.host_closing = rw[w].host_closing
      /\ r.pending = rw[w].pending
  BY <1>3, <1>5 DEF Rw
<1> HIDE DEF r
<1> QED BY <1>2, <1>3, <1>4, <1>6, WidgetSpeaks

LEMMA CloseWidgetSoonKeeps == ASSUME LifeKept, NEW w \in Widgets, W!closeWidgetSoon(w) PROVE LifeKept'
<1> DEFINE r == rw[w]
<1>1. W!Act /\ rw[w].webwidget /\ UNCHANGED <<rw, thread, rwh, visible, sent, crashed, leaks>>
  BY DEF W!closeWidgetSoon
<1>2. rw \in [Widgets -> Rw] /\ rw[w] \in Rw /\ rw[w].made /\ rw' = [rw EXCEPT ![w] = rw[w]]
  BY <1>1, LifeIsTyped, MadeIs
<1>3. told' = told \/ told' = Append(told, W!Message("RouteCloseEvent", w))
  BY DEF W!closeWidgetSoon, W!Send
<1>4. tasks' = tasks \/ tasks' = Append(tasks, [task |-> "DoDeferredClose", w |-> w])
  BY DEF W!closeWidgetSoon
<1> QED BY <1>1, <1>2, <1>3, <1>4, WidgetSpeaks

\* A widget goes unless its route or a task holds it.
LEMMA Settles ==
  ASSUME LifeKept, ~ crashed, NEW w \in Widgets, NEW r, NEW ts, NEW th \in Threads, NEW unheard, W!Settled(w, r, th, ts),
         r.made, Placed(w, r, rwh[w], sent', told', ts, leaks.moves[w], unheard),
         unheard => w \in leaks.closing \/ (r.host_closing /\ ~ r.closing /\ r.swapped),
         OthersHear(w, sent, sent'), OthersHear(w, told, told'), OthersHear(w, tasks, ts),
         UNCHANGED <<rwh, visible, crashed>>, acts' \in 0 .. MaxActs,
         th.widgets = thread.widgets + W!One(r.routed) - W!One(rw[w].routed),
         th.hidden = thread.hidden + W!One(OffScreen(r)) - W!One(OffScreen(rw[w])),
         th.process = thread.process + W!One(InUse(r)) - W!One(InUse(rw[w]))
  PROVE  LifeKept'
<1> DEFINE held == W!IsHeld(r, ts, w)
           gone == r.host_closing /\ ~ r.closing /\ r.swapped
           C == IF gone THEN leaks.closing \cup {w} ELSE leaks.closing
<1>1. /\ r \in Rw /\ ts \in Seq(Task) /\ Grown(w, r, rwh[w], sent', told', ts, leaks.moves[w])
  BY PlacedIs
<1>2. /\ leaks \in Leaks /\ leaks.moves \in [Widgets -> Nat] /\ leaks.closing \subseteq Widgets
      /\ leaks.moves = [leaks.moves EXCEPT ![w] = leaks.moves[w]]
  BY LifeIsTyped DEF Leaks
<1>3. held <=> r.routed \/ Said(ts, AnyTask(w))
  <2>1. \A i \in DOMAIN ts : ts[i] \in Task
    BY <1>1
  <2>2. \A i \in DOMAIN ts : ts[i].w = w <=> ts[i] \in AnyTask(w)
    BY <2>1 DEF AnyTask, TasksOf, Task
  <2> QED BY <2>2 DEF W!IsHeld, Said
<1>4. ~ held /\ r.webwidget => FALSE
  <2>1. Said(ts, CloseTask(w)) => Said(ts, AnyTask(w))
    BY DEF Said, AnyTask, CloseTask, TasksOf
  <2> QED BY <1>1, <1>3, <2>1 DEF Grown
<1>5. /\ tasks' = ts /\ rw' = [rw EXCEPT ![w] = IF held THEN r ELSE W!Unmade]
      /\ thread' = [th EXCEPT !.process = IF held \/ r.swapped THEN @ ELSE @ - 1]
      /\ leaks' = [leaks EXCEPT !.webwidgets = IF ~ held /\ r.webwidget THEN @ \cup {w} ELSE @,
                                !.closing = IF gone THEN @ \cup {w} ELSE @]
  BY DEF W!Settled
<1> HIDE DEF held, gone
<1>6. C \subseteq Widgets /\ leaks.closing \subseteq C /\ (unheard => w \in C)
  BY <1>2 DEF gone
<1>7. leaks' = [leaks EXCEPT !.webwidgets = leaks.webwidgets, !.closing = C]
  BY <1>4, <1>5
<1> HIDE DEF C
<1>8. /\ leaks' \in Leaks /\ leaks'.moves = leaks.moves /\ leaks'.closing = C
      /\ leaks'.webwidgets = leaks.webwidgets /\ leaks'.visible = leaks.visible
  BY <1>2, <1>6, <1>7 DEF Leaks
<1>9. /\ leaks'.moves = [leaks.moves EXCEPT ![w] = leaks'.moves[w]] /\ leaks'.moves[w] = leaks.moves[w]
      /\ leaks.closing \subseteq leaks'.closing /\ (unheard => w \in leaks'.closing)
  BY <1>2, <1>6, <1>8
<1>10. UNCHANGED <<rwh, visible, crashed>>
  OBVIOUS
<1>11. CASE held
  <2>1. thread' = th
    <3>1. thread' = [th EXCEPT !.process = th.process]
      BY <1>5, <1>11
    <3> QED BY <3>1 DEF Threads
  <2>2. rw' = [rw EXCEPT ![w] = r]
    BY <1>5, <1>11
  <2>3. Placed(w, r, rwh[w], sent', told', tasks', leaks'.moves[w], unheard) /\ OthersHear(w, tasks, tasks')
    BY <1>5, <1>9
  <2> QED BY <1>8, <1>9, <1>10, <2>1, <2>2, <2>3, WidgetSteps
<1>12. CASE ~ held
  <2> DEFINE r_ == W!Unmade
  <2>1. ~ r.routed /\ ~ Said(ts, AnyTask(w))
    BY <1>3, <1>12
  <2>2. Placed(w, r_, rwh[w], sent', told', ts, leaks.moves[w], unheard)
    BY <2>1, LivedGone
  <2>3. Placed(w, r_, rwh[w], sent', told', tasks', leaks'.moves[w], unheard) /\ OthersHear(w, tasks, tasks')
    BY <1>5, <1>9, <2>2
  <2>4. rw' = [rw EXCEPT ![w] = r_]
    BY <1>5, <1>12
  <2>5. /\ ~ r_.routed /\ ~ OffScreen(r_) /\ ~ InUse(r_) /\ ~ OffScreen(r)
    BY <2>1 DEF W!Unmade, OffScreen, InUse
  <2>6. /\ thread' = [th EXCEPT !.process = th.process - W!One(InUse(r))]
    BY <1>5, <1>12 DEF W!One, InUse, Threads
  <2>7. /\ thread' \in Threads /\ thread'.widgets = th.widgets /\ thread'.hidden = th.hidden
        /\ thread'.process = th.process - W!One(InUse(r)) /\ W!One(InUse(r)) \in Int
    BY <2>6 DEF W!One, Threads
  <2>8. /\ W!One(r_.routed) = W!One(r.routed) /\ W!One(OffScreen(r_)) = W!One(OffScreen(r)) /\ W!One(InUse(r_)) = 0
        /\ W!One(InUse(rw[w])) \in Int
    BY <2>1, <2>5 DEF W!One
  <2>9. thread \in Threads /\ thread.process \in Int
    BY LifeIsTyped DEF Threads
  <2>10. /\ thread'.widgets = thread.widgets + W!One(r_.routed) - W!One(rw[w].routed)
         /\ thread'.hidden = thread.hidden + W!One(OffScreen(r_)) - W!One(OffScreen(rw[w]))
    BY <2>7, <2>8
  <2>11. thread'.process = thread.process + W!One(InUse(r_)) - W!One(InUse(rw[w]))
    <3> DEFINE a == W!One(InUse(r))
               b == W!One(InUse(rw[w]))
               c == W!One(InUse(r_))
               p == thread.process
    <3>1. a \in Int /\ b \in Int /\ c = 0 /\ p \in Int /\ th.process = p + a - b /\ thread'.process = th.process - a
      BY <2>7, <2>8, <2>9
    <3> HIDE DEF a, b, c, p
    <3>2. thread'.process = p + c - b
      BY <3>1
    <3> QED BY <3>2 DEF a, b, c, p
  <2> HIDE DEF r_
  <2> QED BY <1>8, <1>9, <1>10, <2>3, <2>4, <2>7, <2>10, <2>11, WidgetSteps
<1> QED BY <1>11, <1>12

\* The message that closes a widget is heard, or its frame is detached.
LEMMA OnCloseKeeps ==
  ASSUME LifeKept, ~ crashed, NEW w \in Widgets, rw[w].routed, W!OnClose(w),
         \/ UNCHANGED sent
         \/ sent # <<>> /\ Head(sent).w = w /\ Head(sent).type = "Close" /\ sent' = Tail(sent),
         UNCHANGED <<rwh, visible, told, crashed>>, acts' \in 0 .. MaxActs
  PROVE  LifeKept'
<1> DEFINE p == rw[w]
           r == [p EXCEPT !.closing = TRUE, !.routed = FALSE, !.hidden = FALSE]
           th == [thread EXCEPT !.widgets = @ - 1, !.hidden = W!HiddenCount(p, FALSE)]
           u == w \in leaks.closing
           k == [task |-> "Close", w |-> w]
<1>1. /\ Placed(w, p, rwh[w], sent, told, tasks, leaks.moves[w], u) /\ p \in Rw /\ thread \in Threads
      /\ tasks \in Seq(Task) /\ u \in BOOLEAN
  BY LifeIsTyped
<1>2. p.made /\ p.routed
  BY MadeIs
<1>3. /\ r \in Rw /\ r.made /\ ~ r.routed /\ r.closing /\ ~ r.hidden /\ InUse(r) = InUse(p)
      /\ W!Close(r) \in Rw /\ W!Close(r).made /\ ~ W!Close(r).routed /\ ~ W!Close(r).webwidget /\ W!Close(r).closing
      /\ InUse(W!Close(r)) = InUse(p)
  BY <1>1, <1>2 DEF Rw, W!Close, W!WillClose, InUse
<1>4. /\ th \in Threads /\ th.process = thread.process /\ th.widgets = thread.widgets - 1
      /\ th.hidden = thread.hidden - W!One(OffScreen(p))
  <2>1. W!HiddenCount(p, FALSE) = thread.hidden - W!One(OffScreen(p))
    BY <1>1, <1>2 DEF W!HiddenCount, W!One, OffScreen, Rw, Threads
  <2>2. thread.hidden - W!One(OffScreen(p)) \in Int
    BY <1>1 DEF Threads, W!One
  <2> DEFINE n == W!HiddenCount(p, FALSE)
             l == thread.widgets - 1
             t_ == [thread EXCEPT !.widgets = l, !.hidden = n]
  <2>3. n \in Int /\ l \in Int /\ thread \in Threads
    <3>1. thread \in Threads /\ thread.widgets \in Int
      BY <1>1 DEF Threads
    <3>2. l \in Int
      BY <3>1
    <3> QED BY <2>1, <2>2, <3>1, <3>2
  <2> HIDE DEF n, p, l
  <2>4. t_ \in Threads /\ t_.process = thread.process /\ t_.widgets = l /\ t_.hidden = n
    BY <2>3 DEF Threads
  <2>5. th = t_
    BY DEF n, l
  <2> QED BY <2>1, <2>4, <2>5 DEF n, l
<1>5. IF w = "frame" THEN W!Settled(w, W!Close(r), th, tasks) ELSE W!Settled(w, r, th, Append(tasks, k))
  BY DEF W!OnClose
<1> HIDE DEF r, th
<1>6. \A x : ~ x.routed /\ InUse(x) = InUse(p) =>
        /\ th.widgets = thread.widgets + W!One(x.routed) - W!One(p.routed)
        /\ th.hidden = thread.hidden + W!One(OffScreen(x)) - W!One(OffScreen(p))
        /\ th.process = thread.process + W!One(InUse(x)) - W!One(InUse(p))
  <2> TAKE x
  <2> SUFFICES ASSUME ~ x.routed, InUse(x) = InUse(p)
               PROVE  /\ th.widgets = thread.widgets + W!One(x.routed) - W!One(p.routed)
                      /\ th.hidden = thread.hidden + W!One(OffScreen(x)) - W!One(OffScreen(p))
                      /\ th.process = thread.process + W!One(InUse(x)) - W!One(InUse(p))
    OBVIOUS
  <2>1. W!One(x.routed) = 0 /\ W!One(p.routed) = 1 /\ W!One(OffScreen(x)) = 0
        /\ W!One(OffScreen(p)) \in Int /\ W!One(InUse(p)) \in Int
    BY <1>2 DEF W!One, OffScreen
  <2>2. thread.widgets \in Int /\ thread.hidden \in Int /\ thread.process \in Int
    BY <1>1 DEF Threads
  <2>3. th.widgets = thread.widgets + W!One(x.routed) - W!One(p.routed)
    <3>1. th.widgets = thread.widgets - 1 /\ thread.widgets \in Int
      BY <1>4, <2>2
    <3>2. thread.widgets - 1 = thread.widgets + 0 - 1
      BY <3>1
    <3> QED BY <2>1, <3>1, <3>2
  <2>4. th.hidden = thread.hidden + W!One(OffScreen(x)) - W!One(OffScreen(p))
    BY <1>4, <2>1, <2>2
  <2>5. th.process = thread.process + W!One(InUse(x)) - W!One(InUse(p))
    <3>1. W!One(InUse(x)) = W!One(InUse(p))
      OBVIOUS
    <3> DEFINE a == W!One(InUse(p))
    <3>2. a \in Int /\ th.process = thread.process
      BY <1>4, <2>1
    <3> HIDE DEF a
    <3>3. th.process = thread.process + a - a
      BY <2>2, <3>2
    <3> QED BY <3>1, <3>3 DEF a
  <2> QED BY <2>3, <2>4, <2>5
<1>7. \A x \in Rw, ts \in Seq(Task) : x.made /\ ~ x.routed /\ (x.webwidget => Said(ts, CloseTask(w))) =>
        Placed(w, x, rwh[w], sent', told', ts, leaks.moves[w], u)
  <2> TAKE x \in Rw, ts \in Seq(Task)
  <2> SUFFICES ASSUME x.made, ~ x.routed, x.webwidget => Said(ts, CloseTask(w))
               PROVE  Placed(w, x, rwh[w], sent', told', ts, leaks.moves[w], u)
    OBVIOUS
  <2>1. Placed(w, x, rwh[w], sent, told, ts, leaks.moves[w], u)
    BY <1>1, <1>2, LivedUnrouted
  <2>2. CASE UNCHANGED sent
    BY <2>1, <2>2
  <2>3. CASE sent # <<>> /\ Head(sent).w = w /\ Head(sent).type = "Close" /\ sent' = Tail(sent)
    BY <2>1, <2>3, LivedDropped
  <2> QED BY <2>2, <2>3
<1>8. OthersHear(w, sent, sent') /\ OthersHear(w, told, told')
  BY OthersHearIt
<1>9. UNCHANGED <<rwh, visible, crashed>>
  OBVIOUS
<1>10. CASE w = "frame"
  <2> DEFINE x == W!Close(r)
  <2>1. W!Settled(w, x, th, tasks) /\ OthersHear(w, tasks, tasks)
    BY <1>5, <1>10, OthersHearIt
  <2>2. Placed(w, x, rwh[w], sent', told', tasks, leaks.moves[w], u) /\ x.made /\ ~ x.routed /\ InUse(x) = InUse(p)
    BY <1>1, <1>3, <1>7
  <2>3. /\ th.widgets = thread.widgets + W!One(x.routed) - W!One(p.routed)
        /\ th.hidden = thread.hidden + W!One(OffScreen(x)) - W!One(OffScreen(p))
        /\ th.process = thread.process + W!One(InUse(x)) - W!One(InUse(p))
    BY <1>6, <2>2
  <2> HIDE DEF x
  <2> QED BY <1>4, <1>8, <1>9, <2>1, <2>2, <2>3, Settles
<1>11. CASE w # "frame"
  <2> DEFINE ts == Append(tasks, k)
  <2>1. k \in Task /\ k.w = w /\ k.task = "Close"
    BY DEF Task
  <2> HIDE DEF k
  <2>2. ts \in Seq(Task) /\ Said(ts, CloseTask(w))
    BY <1>1, <2>1, TaskPosted
  <2>3. W!Settled(w, r, th, ts) /\ OthersHear(w, tasks, ts)
    BY <1>5, <1>11, <2>1, OthersHearIt
  <2>4. Placed(w, r, rwh[w], sent', told', ts, leaks.moves[w], u)
    BY <1>3, <1>7, <2>2
  <2>5. /\ th.widgets = thread.widgets + W!One(r.routed) - W!One(p.routed)
        /\ th.hidden = thread.hidden + W!One(OffScreen(r)) - W!One(OffScreen(p))
        /\ th.process = thread.process + W!One(InUse(r)) - W!One(InUse(p))
    BY <1>3, <1>6
  <2> HIDE DEF ts
  <2> QED BY <1>3, <1>4, <1>8, <1>9, <2>3, <2>4, <2>5, Settles
<1> QED BY <1>10, <1>11

LEMMA CloseForFrameKeeps == ASSUME LifeKept, W!CloseForFrame PROVE LifeKept'
<1>1. "frame" \in Widgets /\ W!Act /\ rw["frame"].routed /\ W!OnClose("frame") /\ UNCHANGED <<rwh, visible, sent, told, crashed>>
  BY DEF W!CloseForFrame
<1>2. ~ crashed /\ acts' \in 0 .. MaxActs
  BY <1>1, Acting
<1> QED BY <1>1, <1>2, OnCloseKeeps

LEMMA RunTaskKeeps == ASSUME LifeKept, NEW x \in Widgets, W!RunTask PROVE LifeKept'
<1> DEFINE k == Head(tasks)
           w == k.w
           p == rw[w]
           u == w \in leaks.closing
           ts == Tail(tasks)
<1>1. tasks # <<>> /\ ~ crashed /\ UNCHANGED <<rwh, visible, sent, crashed, acts>>
  BY DEF W!RunTask
<1>2. tasks \in Seq(Task) /\ told \in Seq(OfWidget) /\ thread \in Threads /\ acts \in 0 .. MaxActs
  BY LifeIsTyped
<1>3. k \in Task /\ w \in Widgets
  <2>1. k \in Task
    BY <1>1, <1>2
  <2> QED BY <2>1 DEF Task
<1>4. /\ Placed(w, p, rwh[w], sent, told, tasks, leaks.moves[w], u) /\ p \in Rw /\ u \in BOOLEAN /\ leaks.moves[w] \in Nat
  BY <1>3, LifeIsTyped
<1>5. ts \in Seq(Task) /\ Said(tasks, AnyTask(w)) /\ (k.task = "Close" => Said(tasks, CloseTask(w)))
  BY <1>1, <1>2, <1>3, TaskRun
<1>6. p.made /\ (k.task = "Close" => ~ p.routed) /\ (p.routed => ~ p.closing)
  <2>1. Grown(w, p, rwh[w], sent, told, tasks, leaks.moves[w])
    BY <1>4, PlacedIs
  <2> QED BY <1>5, <2>1 DEF Grown
<1>7. OthersHear(w, sent, sent') /\ OthersHear(w, tasks, ts) /\ acts' \in 0 .. MaxActs
  BY <1>1, <1>2, OthersHearIt
<1>8. \A y : y.routed = p.routed /\ y.hidden = p.hidden /\ InUse(y) = InUse(p) =>
        /\ thread.widgets = thread.widgets + W!One(y.routed) - W!One(p.routed)
        /\ thread.hidden = thread.hidden + W!One(OffScreen(y)) - W!One(OffScreen(p))
        /\ thread.process = thread.process + W!One(InUse(y)) - W!One(InUse(p))
  <2> TAKE y
  <2>1. thread.widgets \in Int /\ thread.hidden \in Int /\ thread.process \in Int
    BY <1>2 DEF Threads
  <2>2. \A b : W!One(b) \in Int
    BY DEF W!One
  <2>3. \A i, j \in Int : i = i + j - j
    OBVIOUS
  <2>4. y.routed = p.routed /\ y.hidden = p.hidden => OffScreen(y) = OffScreen(p)
    BY DEF OffScreen
  <2> HIDE DEF p
  <2> QED BY <2>1, <2>2, <2>3, <2>4
<1>9. \/ k.task = "DoDeferredClose" /\ W!Send(w, "Close") /\ W!Settled(w, W!WillClose(p), thread, ts)
      \/ k.task = "Close" /\ W!Settled(w, W!Close(p), thread, ts) /\ UNCHANGED told
  BY DEF W!RunTask
<1> HIDE DEF k, p, u, ts
<1>10. CASE k.task = "DoDeferredClose" /\ W!Send(w, "Close") /\ W!Settled(w, W!WillClose(p), thread, ts)
  <2> DEFINE r == W!WillClose(p)
             m == W!Message("Close", w)
             v == u \/ (~ p.closing /\ p.swapped)
  <2>1. /\ r \in Rw /\ r.made /\ r.routed = p.routed /\ r.webwidget = p.webwidget /\ r.closing = p.closing
        /\ r.hidden = p.hidden /\ r.swapped = p.swapped /\ r.host_closing /\ r.pending = p.pending
        /\ InUse(r) = InUse(p) /\ p.pending \in Nat
    BY <1>4, <1>6 DEF W!WillClose, Rw, InUse
  <2>2. m \in OfWidget /\ m.w = w /\ m.type = "Close"
    BY <1>3 DEF W!Message, OfWidget
  <2>3. told' = IF ~ p.closing /\ ~ p.swapped THEN Append(told, m) ELSE told
    BY <1>10 DEF W!Send, W!MaySend, W!CanSendWhileSwappedOut, p
  <2> HIDE DEF r, m
  <2>4. /\ told' \in Seq(OfWidget) /\ (Said(told, Tells(w, {"Close"})) => Said(told', Tells(w, {"Close"})))
        /\ Number(told', Moves(w)) = Number(told, Moves(w)) /\ Number(told, Moves(w)) \in Nat
        /\ (~ p.closing /\ ~ p.swapped => Said(told', Tells(w, {"Close"}))) /\ OthersHear(w, told, told')
    <3>1. Number(told, Moves(w)) \in Nat
      BY <1>2, NumberIsNat
    <3>2. CASE ~ p.closing /\ ~ p.swapped
      <4>1. Spoken(w, told, m, told') /\ told' = Append(told, m)
        BY <1>2, <1>3, <2>2, <2>3, <3>2, SaidOf
      <4>2. OthersHear(w, told, told')
        BY <2>2, <4>1, OthersHearIt
      <4> QED BY <2>2, <3>1, <4>1, <4>2 DEF Spoken, W!One, IsMove
    <3>3. CASE ~ (~ p.closing /\ ~ p.swapped)
      BY <1>2, <2>3, <3>1, <3>3, OthersHearIt
    <3> QED BY <3>2, <3>3
  <2>5. v \in BOOLEAN /\ (u => v) /\ (r.routed => v \/ Said(told', Tells(w, {"Close"})))
    BY <1>4, <1>6, <2>1, <2>4
  <2> HIDE DEF v
  <2>6. Placed(w, r, rwh[w], sent, told', tasks, leaks.moves[w], v)
    <3> DEFINE n == leaks.moves[w]
               t_ == told'
    <3>1. /\ Placed(w, p, rwh[w], sent, told, tasks, n, u) /\ n \in Nat /\ t_ \in Seq(OfWidget) /\ 0 \in 0 .. 1
          /\ Number(t_, Moves(w)) + n = Number(told, Moves(w)) + n + 0 /\ r.pending = p.pending + 0
          /\ (Said(told, Tells(w, {"Close"})) => Said(t_, Tells(w, {"Close"})))
          /\ (r.routed => v \/ Said(t_, Tells(w, {"Close"})))
      BY <1>4, <2>1, <2>4, <2>5
    <3> HIDE DEF n, t_
    <3>2. Placed(w, r, rwh[w], sent, t_, tasks, n, v)
      BY <1>6, <2>1, <2>5, <3>1, LivedSpeaks
    <3> QED BY <3>2 DEF n, t_
  <2>7. Placed(w, r, rwh[w], sent', told', ts, leaks.moves[w], v)
    <3>1. Head(tasks).task = "Close" => ~ r.webwidget
      BY <1>10 DEF k
    <3>2. Head(tasks).w = w
      BY DEF k
    <3> QED BY <1>1, <2>6, <3>1, <3>2, LivedRan DEF ts
  <2>8. v => w \in leaks.closing \/ (r.host_closing /\ ~ r.closing /\ r.swapped)
    BY <2>1 DEF v, u
  <2>9. /\ thread.widgets = thread.widgets + W!One(r.routed) - W!One(p.routed)
        /\ thread.hidden = thread.hidden + W!One(OffScreen(r)) - W!One(OffScreen(p))
        /\ thread.process = thread.process + W!One(InUse(r)) - W!One(InUse(p))
    BY <1>8, <2>1
  <2>10. W!Settled(w, r, thread, ts)
    BY <1>10 DEF r
  <2>11. UNCHANGED <<rwh, visible, crashed>>
    BY <1>1
  <2> QED BY <1>1, <1>2, <1>3, <1>7, <2>1, <2>4, <2>7, <2>8, <2>9, <2>10, <2>11, Settles DEF p
<1>11. CASE k.task = "Close" /\ W!Settled(w, W!Close(p), thread, ts) /\ UNCHANGED told
  <2> DEFINE r == W!Close(p)
  <2>1. /\ r \in Rw /\ r.made /\ ~ r.routed /\ r.routed = p.routed /\ r.hidden = p.hidden /\ ~ r.webwidget
        /\ InUse(r) = InUse(p)
    BY <1>4, <1>6, <1>11 DEF W!Close, W!WillClose, Rw, InUse
  <2> HIDE DEF r
  <2>2. Placed(w, r, rwh[w], sent', told', ts, leaks.moves[w], u)
    BY <1>1, <1>4, <1>5, <1>6, <1>11, <2>1, LivedUnrouted
  <2>3. /\ thread.widgets = thread.widgets + W!One(r.routed) - W!One(p.routed)
        /\ thread.hidden = thread.hidden + W!One(OffScreen(r)) - W!One(OffScreen(p))
        /\ thread.process = thread.process + W!One(InUse(r)) - W!One(InUse(p))
    BY <1>8, <2>1
  <2>4. W!Settled(w, r, thread, ts) /\ OthersHear(w, told, told')
    BY <1>11, OthersHearIt DEF r
  <2>5. UNCHANGED <<rwh, visible, crashed>> /\ (u => w \in leaks.closing)
    BY <1>1 DEF u
  <2> QED BY <1>1, <1>2, <1>3, <1>7, <2>1, <2>2, <2>3, <2>4, <2>5, Settles DEF p
<1> QED BY <1>9, <1>10, <1>11

LEMMA CreateKeeps == ASSUME LifeKept, W!Create PROVE LifeKept'
<1> DEFINE w == "popup"
           r == [W!RenderWidget(FALSE, FALSE) EXCEPT !.routed = TRUE, !.shown = FALSE]
           h == [rwh[w] EXCEPT !.made = TRUE]
           u == w \in leaks.closing
<1>1. /\ w \in Widgets /\ W!Act /\ ~ rw[w].made /\ ~ rwh[w].made /\ w \notin leaks.webwidgets
      /\ UNCHANGED <<tasks, sent, told, crashed>>
  BY DEF W!Create
<1>2. /\ ~ crashed /\ acts' \in 0 .. MaxActs
  BY <1>1, Acting
<1>3. /\ Placed(w, rw[w], rwh[w], sent, told, tasks, leaks.moves[w], u) /\ rw[w] \in Rw /\ rwh[w] \in Rwh
      /\ rw \in [Widgets -> Rw] /\ rwh \in [Widgets -> Rwh] /\ thread \in Threads /\ visible \in Int
      /\ leaks \in Leaks /\ leaks.moves[w] \in Nat /\ leaks.visible \in Nat
      /\ rw = [rw EXCEPT ![w] = rw[w]] /\ rwh = [rwh EXCEPT ![w] = rwh[w]]
      /\ leaks.moves = [leaks.moves EXCEPT ![w] = leaks.moves[w]]
  BY <1>1, LifeIsTyped
<1>4. OthersHear(w, sent, sent') /\ OthersHear(w, told, told') /\ OthersHear(w, tasks, tasks')
  BY <1>1, OthersHearIt
<1>5. CASE /\ W!DoInit(w, FALSE, FALSE) /\ rwh' = [rwh EXCEPT ![w].made = TRUE]
           /\ visible' = visible + 1 /\ UNCHANGED leaks
  <2>1. /\ r \in Rw /\ r.made /\ r.routed /\ ~ r.closing /\ r.pending = 0 /\ ~ r.host_closing
        /\ r.hidden = FALSE /\ r.swapped = FALSE
    BY DEF W!RenderWidget, W!Unmade, Rw
  <2>2. rwh[w] = W!NoHost
    <3>1. Grown(w, rw[w], rwh[w], sent, told, tasks, leaks.moves[w])
      BY <1>3, PlacedIs
    <3> QED BY <1>1, <3>1 DEF Grown
  <2>3. h \in Rwh /\ h.made /\ ~ h.gone /\ h.hidden = FALSE /\ h.swapped = FALSE
    <3>1. h = [W!NoHost EXCEPT !.made = TRUE]
      BY <2>2
    <3> HIDE DEF h
    <3> QED BY <3>1 DEF W!NoHost, Rwh
  <2>4. rwh' = [rwh EXCEPT ![w] = h] /\ rw' = [rw EXCEPT ![w] = r]
    BY <1>3, <1>5 DEF W!DoInit
  <2>5. thread' = [widgets |-> thread.widgets + 1, hidden |-> thread.hidden + W!One(FALSE),
                   process |-> thread.process + W!One(~ FALSE)]
    BY <1>5 DEF W!DoInit
  <2> HIDE DEF r, h
  <2>6. Placed(w, r, h, sent, told, tasks, leaks.moves[w], u)
    BY <1>1, <1>3, <2>1, <2>3, LivedCreated
  <2>7. Stepped(w, r, h, sent', told', tasks', leaks.moves[w], u)
    BY <1>1, <1>2, <1>3, <1>4, <1>5, <2>4, <2>6 DEF Stepped
  <2>8. thread.widgets \in Int /\ thread.hidden \in Int /\ thread.process \in Int
    BY <1>3 DEF Threads
  <2>9. /\ W!One(r.routed) = 1 /\ W!One(rw[w].routed) = 0 /\ W!One(OffScreen(r)) = 0 /\ W!One(OffScreen(rw[w])) = 0
        /\ W!One(InUse(r)) = 1 /\ W!One(InUse(rw[w])) = 0 /\ W!One(Counted(h)) = 1 /\ W!One(Counted(rwh[w])) = 0
    <3>1. ~ rw[w].routed
      BY <1>1, MadeIs
    <3> QED BY <1>1, <2>1, <2>3, <3>1 DEF W!One, OffScreen, InUse, Counted
  <2>10. CountedBy(w, r, h)
    <3>1. /\ thread' \in Threads /\ thread'.widgets = thread.widgets + 1 /\ thread'.hidden = thread.hidden
          /\ thread'.process = thread.process + 1
      BY <2>5, <2>8 DEF Threads, W!One
    <3>2. visible' \in Int /\ visible' - leaks'.visible = visible - leaks.visible + 1 - 0
      BY <1>3, <1>5
    <3> QED BY <2>8, <2>9, <3>1, <3>2 DEF CountedBy
  <2>11. W!OnlyTheFailedLeaks'
    <3>1. leaks.webwidgets \subseteq {"popup"}
      BY DEF LifeKept, W!OnlyTheFailedLeaks
    <3> QED BY <1>1, <1>5, <3>1 DEF W!OnlyTheFailedLeaks
  <2> QED BY <2>7, <2>10, <2>11, Steps
<1>6. CASE leaks' = [leaks EXCEPT !.webwidgets = @ \cup {w}] /\ UNCHANGED <<rw, thread, rwh, visible>>
  <2>1. /\ leaks' \in Leaks /\ leaks'.moves = leaks.moves /\ leaks'.closing = leaks.closing
        /\ leaks'.webwidgets = leaks.webwidgets \cup {w} /\ leaks'.visible = leaks.visible
    BY <1>1, <1>3, <1>6 DEF Leaks
  <2>2. Stepped(w, rw[w], rwh[w], sent', told', tasks', leaks.moves[w], u)
    BY <1>1, <1>2, <1>3, <1>4, <1>6, <2>1, LifeIsTyped DEF Stepped
  <2>3. CountedBy(w, rw[w], rwh[w])
    BY <1>1, <1>6, <2>1, NothingCounted
  <2>4. W!OnlyTheFailedLeaks'
    <3>1. leaks.webwidgets \subseteq {"popup"}
      BY DEF LifeKept, W!OnlyTheFailedLeaks
    <3> QED BY <1>1, <1>6, <2>1, <3>1 DEF W!OnlyTheFailedLeaks
  <2> QED BY <2>2, <2>3, <2>4, Steps
<1>7. r = [W!RenderWidget(FALSE, FALSE) EXCEPT !.routed = TRUE, !.shown = w = "view"]
  OBVIOUS
<1> QED BY <1>5, <1>6 DEF W!Create

\* A widget hears what its host says.
LEMMA WidgetHears ==
  ASSUME LifeKept, ~ crashed, NEW w \in Widgets, NEW r \in Rw, rw' = [rw EXCEPT ![w] = r],
         sent # <<>>, Head(sent).w = w, sent' = Tail(sent), thread' \in Threads,
         Placed(w, r, rwh[w], Tail(sent), told, tasks, leaks.moves[w], w \in leaks.closing),
         UNCHANGED <<rwh, visible, told, tasks, crashed, acts, leaks>>,
         thread'.widgets = thread.widgets + W!One(r.routed) - W!One(rw[w].routed),
         thread'.hidden = thread.hidden + W!One(OffScreen(r)) - W!One(OffScreen(rw[w])),
         thread'.process = thread.process + W!One(InUse(r)) - W!One(InUse(rw[w]))
  PROVE  LifeKept'
<1>1. /\ leaks' \in Leaks /\ leaks'.moves = [leaks.moves EXCEPT ![w] = leaks'.moves[w]]
      /\ leaks'.closing = leaks.closing /\ leaks'.webwidgets = leaks.webwidgets
      /\ leaks'.visible = leaks.visible /\ leaks'.moves[w] = leaks.moves[w]
  BY HostUnchanged
<1>2. OthersHear(w, sent, sent') /\ OthersHear(w, told, told') /\ OthersHear(w, tasks, tasks')
  BY OthersHearIt
<1>3. acts' \in 0 .. MaxActs /\ UNCHANGED <<rwh, visible, crashed>>
  BY LifeIsTyped
<1>4. Stepped(w, r, rwh[w], Tail(sent), told, tasks, leaks.moves[w], w \in leaks.closing)
  <2>1. rwh' = [rwh EXCEPT ![w] = rwh[w]] /\ (w # "popup" /\ rwh[w].made /\ ~ crashed => rwh[w].renderer_initialized)
    BY <1>3, LifeIsTyped
  <2>2. sent' = Tail(sent) /\ told' = told /\ tasks' = tasks
        /\ OthersHear(w, sent, Tail(sent)) /\ OthersHear(w, told, told) /\ OthersHear(w, tasks, tasks)
    BY <1>2
  <2>3. leaks' \in Leaks /\ leaks'.moves = [leaks.moves EXCEPT ![w] = leaks.moves[w]]
        /\ leaks.closing \subseteq leaks'.closing /\ (w \in leaks.closing => w \in leaks'.closing)
    BY <1>1
  <2> QED BY <1>3, <2>1, <2>2, <2>3 DEF Stepped
<1>5. CountedBy(w, r, rwh[w])
  <2>1. visible \in Int /\ leaks.visible \in Nat
    BY LifeIsTyped
  <2>2. \A p : W!One(p) \in Int
    BY DEF W!One
  <2> QED BY <1>1, <1>3, <2>1, <2>2 DEF CountedBy
<1>6. W!OnlyTheFailedLeaks'
  BY <1>1, <1>3 DEF LifeKept, W!OnlyTheFailedLeaks
<1> QED BY <1>4, <1>5, <1>6, Steps

LEMMA OnMessageReceivedKeeps == ASSUME LifeKept, NEW x \in Widgets, W!OnMessageReceived PROVE LifeKept'
<1> DEFINE m == Head(sent)
           w == m.w
           p == rw[w]
           u == w \in leaks.closing
<1>1. /\ ~ crashed /\ sent # <<>> /\ sent' = Tail(sent) /\ sent \in Seq(ToWidget)
      /\ UNCHANGED <<rwh, visible, told, crashed, acts>> /\ acts' \in 0 .. MaxActs
  BY LifeIsTyped DEF W!OnMessageReceived
<1>2. m \in ToWidget /\ w \in Widgets
  <2>1. m \in ToWidget
    BY <1>1
  <2> QED BY <2>1 DEF ToWidget
<1>3. /\ Placed(w, p, rwh[w], sent, told, tasks, leaks.moves[w], u) /\ p \in Rw
      /\ rw \in [Widgets -> Rw] /\ thread \in Threads /\ rw = [rw EXCEPT ![w] = p]
  BY <1>2, LifeIsTyped
<1>4. /\ thread.widgets \in Int /\ thread.hidden \in Int /\ thread.process \in Int /\ \A b : W!One(b) \in Int
  BY <1>3 DEF Threads, W!One
<1>5. Grown(w, p, rwh[w], sent, told, tasks, leaks.moves[w]) /\ Owes(w, p, sent, told, leaks.moves[w], u)
  BY <1>3, PlacedIs
<1>6. /\ m.type = "New" => ~ p.made /\ ~ p.routed /\ m.hidden \in BOOLEAN /\ m.swapped \in BOOLEAN
      /\ p.routed => p.made
  <2>1. m.type = "New" => Said(sent, Kinds(w, {"New"}))
    <3>1. 1 \in DOMAIN sent /\ sent[1] = m
      BY <1>1
    <3> QED BY <1>2, <3>1 DEF Said, Kinds
  <2> QED BY <1>2, <1>5, <2>1, MessageKinds DEF Grown
<1>7. p.routed /\ m.type = "Move_ACK" => p.pending - 1 \in Nat
  <2>1. Hears(w, sent, m, Tail(sent), TRUE, TRUE)
    BY <1>1, <1>2, HeardBy
  <2>2. m.type = "Move_ACK" => Number(sent, Kinds(w, {"Move_ACK"})) = Number(Tail(sent), Kinds(w, {"Move_ACK"})) + 1
    BY <2>1 DEF Hears, W!One
  <2>3. Number(Tail(sent), Kinds(w, {"Move_ACK"})) \in Nat
    BY <2>1 DEF Hears
  <2>4. Number(told, Moves(w)) \in Nat /\ leaks.moves[w] \in Nat
    BY <1>2, LifeIsTyped, NumberIsNat
  <2>5. p.routed => p.pending = Number(told, Moves(w)) + Number(sent, Kinds(w, {"Move_ACK"})) + leaks.moves[w]
    BY <1>5 DEF Owes
  <2> QED BY <2>2, <2>3, <2>4, <2>5
<1>8. \/ m.type = "New" /\ W!DoInit(w, m.hidden, m.swapped) /\ UNCHANGED <<tasks, leaks>>
      \/ m.type # "New" /\ ~ p.routed /\ UNCHANGED <<rw, thread, tasks, leaks>>
      \/ m.type = "Close" /\ p.routed /\ W!OnClose(w)
      \/ /\ m.type \in {"WasHidden", "WasShown"} /\ p.routed
         /\ rw' = [rw EXCEPT ![w].hidden = m.type = "WasHidden"]
         /\ thread' = [thread EXCEPT !.hidden = W!HiddenCount(p, m.type = "WasHidden")]
         /\ UNCHANGED <<tasks, leaks>>
      \/ /\ m.type = "Move_ACK" /\ p.routed
         /\ rw' = [rw EXCEPT ![w].pending = @ - 1]
         /\ UNCHANGED <<thread, tasks, leaks>>
      \/ /\ m.type \in {"SwapOut", "SwapIn"} /\ p.routed
         /\ W!SetSwappedOut(m.type = "SwapOut")
         /\ UNCHANGED <<tasks, leaks>>
  BY DEF W!OnMessageReceived
<1>9. CASE m.type = "New" /\ W!DoInit(w, m.hidden, m.swapped) /\ UNCHANGED <<tasks, leaks>>
  <2> DEFINE r == [W!RenderWidget(m.hidden, m.swapped) EXCEPT !.routed = TRUE, !.shown = w = "view"]
  <2>1. /\ r \in Rw /\ r.made /\ r.routed /\ ~ r.closing /\ r.pending = 0 /\ ~ r.host_closing
        /\ r.hidden = m.hidden /\ r.swapped = m.swapped
    BY <1>6, <1>9 DEF W!RenderWidget, W!Unmade, Rw
  <2>2. /\ rw' = [rw EXCEPT ![w] = r]
        /\ thread' = [widgets |-> thread.widgets + 1, hidden |-> thread.hidden + W!One(m.hidden),
                      process |-> thread.process + W!One(~ m.swapped)]
    BY <1>9 DEF W!DoInit
  <2> HIDE DEF r
  <2>3. Placed(w, r, rwh[w], Tail(sent), told, tasks, leaks.moves[w], u)
    BY <1>1, <1>3, <1>9, <2>1, LivedBorn
  <2>4. /\ thread' \in Threads /\ thread'.widgets = thread.widgets + 1
        /\ thread'.hidden = thread.hidden + W!One(m.hidden) /\ thread'.process = thread.process + W!One(~ m.swapped)
    BY <1>4, <2>2 DEF Threads
  <2>5. /\ W!One(r.routed) = 1 /\ W!One(p.routed) = 0 /\ W!One(OffScreen(r)) = W!One(m.hidden) /\ W!One(OffScreen(p)) = 0
        /\ W!One(InUse(r)) = W!One(~ m.swapped) /\ W!One(InUse(p)) = 0
    BY <1>6, <1>9, <2>1 DEF W!One, OffScreen, InUse
  <2>6. /\ thread'.widgets = thread.widgets + W!One(r.routed) - W!One(p.routed)
        /\ thread'.hidden = thread.hidden + W!One(OffScreen(r)) - W!One(OffScreen(p))
        /\ thread'.process = thread.process + W!One(InUse(r)) - W!One(InUse(p))
    BY <1>4, <2>4, <2>5
  <2> QED BY <1>1, <1>2, <1>9, <2>1, <2>2, <2>3, <2>4, <2>6, WidgetHears
<1>10. CASE m.type # "New" /\ ~ p.routed /\ UNCHANGED <<rw, thread, tasks, leaks>>
  <2>1. Placed(w, p, rwh[w], Tail(sent), told, tasks, leaks.moves[w], u)
    BY <1>1, <1>3, <1>10, LivedDropped
  <2>2. /\ thread' \in Threads /\ thread'.widgets = thread.widgets + W!One(p.routed) - W!One(p.routed)
        /\ thread'.hidden = thread.hidden + W!One(OffScreen(p)) - W!One(OffScreen(p))
        /\ thread'.process = thread.process + W!One(InUse(p)) - W!One(InUse(p))
    BY <1>2, <1>10, SameThreads
  <2>3. rw' = [rw EXCEPT ![w] = p]
    BY <1>3, <1>10
  <2> QED BY <1>1, <1>2, <1>3, <1>10, <2>1, <2>2, <2>3, WidgetHears
<1>11. CASE m.type = "Close" /\ p.routed /\ W!OnClose(w)
  BY <1>1, <1>2, <1>11, OnCloseKeeps
<1>12. CASE /\ m.type \in {"WasHidden", "WasShown"} /\ p.routed
            /\ rw' = [rw EXCEPT ![w].hidden = m.type = "WasHidden"]
            /\ thread' = [thread EXCEPT !.hidden = W!HiddenCount(p, m.type = "WasHidden")]
            /\ UNCHANGED <<tasks, leaks>>
  <2> DEFINE b == m.type = "WasHidden"
             r == [p EXCEPT !.hidden = b]
             n == W!HiddenCount(p, b)
  <2>1. /\ r \in Rw /\ r.made = p.made /\ r.routed = p.routed /\ r.webwidget = p.webwidget /\ r.closing = p.closing
        /\ r.host_closing = p.host_closing /\ r.hidden = b /\ r.swapped = p.swapped /\ r.pending = p.pending
        /\ p.pending \in Nat /\ p.hidden \in BOOLEAN /\ InUse(r) = InUse(p)
    BY <1>3 DEF Rw, InUse
  <2>2. rw' = [rw EXCEPT ![w] = r] /\ thread' = [thread EXCEPT !.hidden = n]
    BY <1>3, <1>12
  <2>3. n = thread.hidden + W!One(OffScreen(r)) - W!One(OffScreen(p)) /\ n \in Int
    <3>1. OffScreen(r) <=> b
      BY <1>12, <2>1 DEF OffScreen
    <3>2. OffScreen(p) <=> p.hidden
      BY <1>12 DEF OffScreen
    <3>3. W!One(OffScreen(r)) = (IF b THEN 1 ELSE 0) /\ W!One(OffScreen(p)) = (IF p.hidden THEN 1 ELSE 0)
      BY <3>1, <3>2 DEF W!One
    <3>4. n = thread.hidden + (IF p.hidden = b THEN 0 ELSE IF b THEN 1 ELSE -1)
      BY DEF W!HiddenCount
    <3> DEFINE a == thread.hidden
               x_ == W!One(OffScreen(r))
               y_ == W!One(OffScreen(p))
    <3> HIDE DEF a, x_, y_, n
    <3>5. CASE b
      <4>1. x_ = 1 /\ y_ = (IF p.hidden THEN 1 ELSE 0) /\ n = a + (IF p.hidden THEN 0 ELSE 1) /\ a \in Int
        BY <1>4, <2>1, <3>3, <3>4, <3>5 DEF x_, y_, a
      <4>2. n = a + x_ - y_ /\ n \in Int
        BY <4>1
      <4> QED BY <4>2 DEF x_, y_, a
    <3>6. CASE ~ b
      <4>1. x_ = 0 /\ y_ = (IF p.hidden THEN 1 ELSE 0) /\ n = a + (IF p.hidden THEN -1 ELSE 0) /\ a \in Int
        BY <1>4, <2>1, <3>3, <3>4, <3>6 DEF x_, y_, a
      <4>2. n = a + x_ - y_ /\ n \in Int
        BY <4>1
      <4> QED BY <4>2 DEF x_, y_, a
    <3> QED BY <3>5, <3>6
  <2> HIDE DEF n, r
  <2>4. /\ thread' \in Threads /\ thread'.widgets = thread.widgets /\ thread'.hidden = n
        /\ thread'.process = thread.process
    BY <1>3, <2>2, <2>3 DEF Threads
  <2>5. Placed(w, r, rwh[w], Tail(sent), told, tasks, leaks.moves[w], u)
    <3>1. r.pending = p.pending - W!One(m.type = "Move_ACK")
      BY <1>12, <2>1 DEF W!One
    <3> QED BY <1>1, <1>3, <1>12, <2>1, <3>1, LivedObeys
  <2>6. /\ thread'.widgets = thread.widgets + W!One(r.routed) - W!One(p.routed)
        /\ thread'.hidden = thread.hidden + W!One(OffScreen(r)) - W!One(OffScreen(p))
        /\ thread'.process = thread.process + W!One(InUse(r)) - W!One(InUse(p))
    <3>1. W!One(r.routed) = W!One(p.routed) /\ W!One(InUse(r)) = W!One(InUse(p))
      BY <2>1
    <3>2. \A i, j \in Int : i = i + j - j
      OBVIOUS
    <3> QED BY <1>4, <2>3, <2>4, <3>1, <3>2
  <2> QED BY <1>1, <1>2, <1>12, <2>1, <2>2, <2>4, <2>5, <2>6, WidgetHears
<1>13. CASE /\ m.type = "Move_ACK" /\ p.routed
            /\ rw' = [rw EXCEPT ![w].pending = @ - 1]
            /\ UNCHANGED <<thread, tasks, leaks>>
  <2> DEFINE n == p.pending - 1
             r == [p EXCEPT !.pending = n]
  <2>1. n \in Nat /\ rw' = [rw EXCEPT ![w] = r]
    BY <1>3, <1>7, <1>13
  <2> HIDE DEF n
  <2>2. /\ r \in Rw /\ r.made = p.made /\ r.routed = p.routed /\ r.webwidget = p.webwidget /\ r.closing = p.closing
        /\ r.host_closing = p.host_closing /\ r.hidden = p.hidden /\ r.swapped = p.swapped /\ r.pending = n
    BY <1>3, <2>1 DEF Rw
  <2> HIDE DEF r
  <2>3. Placed(w, r, rwh[w], Tail(sent), told, tasks, leaks.moves[w], u)
    <3>1. r.pending = p.pending - W!One(m.type = "Move_ACK")
      BY <1>13, <2>2 DEF W!One, n
    <3> QED BY <1>1, <1>3, <1>13, <2>2, <3>1, LivedObeys
  <2>4. /\ thread' \in Threads /\ thread'.widgets = thread.widgets + W!One(r.routed) - W!One(p.routed)
        /\ thread'.hidden = thread.hidden + W!One(OffScreen(r)) - W!One(OffScreen(p))
        /\ thread'.process = thread.process + W!One(InUse(r)) - W!One(InUse(p))
    BY <1>2, <1>13, <2>2, SameThreads
  <2> QED BY <1>1, <1>2, <1>13, <2>1, <2>2, <2>3, <2>4, WidgetHears
<1>14. CASE /\ m.type \in {"SwapOut", "SwapIn"} /\ p.routed
            /\ W!SetSwappedOut(m.type = "SwapOut")
            /\ UNCHANGED <<tasks, leaks>>
  <2> DEFINE b == m.type = "SwapOut"
             r == [p EXCEPT !.swapped = b]
             n == thread.process + (IF b THEN -1 ELSE 1)
  <2>1. w = "view"
    BY <1>2, <1>14 DEF ToWidget
  <2>2. rw' = [rw EXCEPT ![w] = r] /\ thread' = [thread EXCEPT !.process = n]
    BY <1>3, <1>14, <2>1 DEF W!SetSwappedOut
  <2>3. /\ r \in Rw /\ r.made = p.made /\ r.routed = p.routed /\ r.webwidget = p.webwidget /\ r.closing = p.closing
        /\ r.host_closing = p.host_closing /\ r.hidden = p.hidden /\ r.swapped = b /\ r.pending = p.pending
        /\ p.pending \in Nat /\ OffScreen(r) = OffScreen(p)
    BY <1>3 DEF Rw, OffScreen
  <2>4. p.swapped = ~ b
    <3>1. Hears(w, sent, m, Tail(sent), p.hidden, p.swapped)
      BY <1>1, <1>2, <1>3, HeardBy DEF Rw
    <3>2. ByTurns(w, sent, p.swapped)
      BY <1>3, <1>14, PlacedIs DEF Agrees, Live
    <3>3. (m \in ToSwap(w)) # p.swapped /\ (m \in ToSwap(w) <=> b)
      BY <1>2, <1>14, <3>1, <3>2, MessageKinds DEF Hears
    <3> QED BY <1>3, <3>3 DEF Rw
  <2>5. n \in Int /\ n = thread.process + W!One(InUse(r)) - W!One(InUse(p))
    <3>1. (InUse(r) <=> ~ b) /\ (InUse(p) <=> b)
      BY <1>6, <1>14, <2>3, <2>4 DEF InUse
    <3>2. W!One(InUse(r)) = (IF b THEN 0 ELSE 1) /\ W!One(InUse(p)) = (IF b THEN 1 ELSE 0)
      BY <3>1 DEF W!One
    <3> DEFINE a == thread.process
               x_ == W!One(InUse(r))
               y_ == W!One(InUse(p))
    <3>3. a \in Int /\ x_ = (IF b THEN 0 ELSE 1) /\ y_ = (IF b THEN 1 ELSE 0) /\ n = a + (IF b THEN -1 ELSE 1)
      BY <1>4, <3>2
    <3> HIDE DEF a, x_, y_, n
    <3>4. n = a + x_ - y_ /\ n \in Int
      BY <3>3
    <3> QED BY <3>4 DEF a, x_, y_
  <2> HIDE DEF n, r
  <2>6. /\ thread' \in Threads /\ thread'.widgets = thread.widgets /\ thread'.hidden = thread.hidden
        /\ thread'.process = n
    BY <1>3, <2>2, <2>5 DEF Threads
  <2>7. Placed(w, r, rwh[w], Tail(sent), told, tasks, leaks.moves[w], u)
    <3>1. r.pending = p.pending - W!One(m.type = "Move_ACK")
      BY <1>14, <2>3 DEF W!One
    <3> QED BY <1>1, <1>3, <1>14, <2>3, <3>1, LivedObeys
  <2>8. /\ thread'.widgets = thread.widgets + W!One(r.routed) - W!One(p.routed)
        /\ thread'.hidden = thread.hidden + W!One(OffScreen(r)) - W!One(OffScreen(p))
        /\ thread'.process = thread.process + W!One(InUse(r)) - W!One(InUse(p))
    <3>1. W!One(r.routed) = W!One(p.routed) /\ W!One(OffScreen(r)) = W!One(OffScreen(p))
      BY <2>3
    <3>2. \A i, j \in Int : i = i + j - j
      OBVIOUS
    <3> QED BY <1>4, <2>5, <2>6, <3>1, <3>2
  <2> QED BY <1>1, <1>2, <1>14, <2>2, <2>3, <2>6, <2>7, <2>8, WidgetHears
<1> QED BY <1>8, <1>9, <1>10, <1>11, <1>12, <1>13, <1>14

LEMMA OnRenderProcessGoneKeeps == ASSUME LifeKept, W!OnRenderProcessGone PROVE LifeKept'
<1> DEFINE H(w) == IF ~ W!There(w) THEN rwh[w]
                   ELSE IF w = "popup" THEN W!Destroyed(rwh[w]) ELSE W!RendererExited(rwh[w])
           d == W!One("popup" \in Widgets /\ W!There("popup") /\ ~ rwh["popup"].hidden)
           A == {w \in Widgets : W!There(w) /\ ~ rwh[w].hidden}
           E == {w \in Widgets \ {"popup"} : W!There(w) /\ rwh[w].renderer_initialized /\ ~ rwh[w].hidden}
<1>1. /\ rw \in [Widgets -> Rw] /\ rwh \in [Widgets -> Rwh] /\ visible \in Int /\ leaks \in Leaks
      /\ leaks.visible \in Nat /\ acts \in 0 .. MaxActs
  BY DEF LifeKept, LifeTyped, Leaks
<1>2. /\ ~ crashed /\ crashed' = TRUE /\ acts' = acts + 1 /\ acts < MaxActs
      /\ rwh' = [w \in Widgets |-> H(w)] /\ visible' = visible - Cardinality(E)
      /\ leaks' = [leaks EXCEPT !.visible = @ + d]
      /\ sent' = <<>> /\ told' = <<>> /\ tasks' = <<>>
      /\ rw' = [w \in Widgets |-> W!Unmade] /\ thread' = [widgets |-> 0, hidden |-> 0, process |-> 0]
  BY LifeCounted DEF W!OnRenderProcessGone, W!Act, W!ExitedVisible
<1>3. MaxActs \in Nat
  BY PageAssumption DEF PageAssumption, W!WidgetsAssumption
<1>4. E \in SUBSET Widgets /\ Cardinality(E) \in Nat /\ IsFiniteSet(E)
  <2>1. E \in SUBSET Widgets
    OBVIOUS
  <2> HIDE DEF E
  <2> QED BY <2>1, FewWidgets
<1>5. d \in Nat
  BY DEF W!One
<1>6. \A w \in Widgets : H(w) \in Rwh /\ H(w).made = rwh[w].made /\ (rwh[w].gone => H(w).gone)
                         /\ (H(w).made /\ ~ H(w).gone => H(w).hidden \/ ~ rwh[w].renderer_initialized)
  BY <1>1 DEF W!Destroyed, W!RendererExited, W!There, Rwh
<1>7. \A w \in Widgets : w # "popup" /\ rwh[w].made => rwh[w].renderer_initialized
  BY <1>2 DEF LifeKept, Lives
<1>8. \A w \in Widgets : ~ (H(w).made /\ ~ H(w).gone /\ ~ H(w).hidden)
  <2> TAKE w \in Widgets
  <2>1. CASE w = "popup"
    BY <2>1 DEF W!Destroyed, W!There
  <2>2. CASE w # "popup"
    BY <1>6, <1>7, <2>2
  <2> QED BY <2>1, <2>2
<1> HIDE DEF H, d, E
<1>9. /\ leaks' \in Leaks /\ leaks'.moves = leaks.moves /\ leaks'.closing = leaks.closing
      /\ leaks'.webwidgets = leaks.webwidgets /\ leaks'.visible = leaks.visible + d
  <2> DEFINE n == leaks.visible + d
  <2>1. n \in Nat /\ leaks' = [leaks EXCEPT !.visible = n]
    BY <1>1, <1>2, <1>5
  <2> HIDE DEF n
  <2>2. /\ leaks' \in Leaks /\ leaks'.moves = leaks.moves /\ leaks'.closing = leaks.closing
        /\ leaks'.webwidgets = leaks.webwidgets /\ leaks'.visible = n
    BY <1>1, <2>1 DEF Leaks
  <2> QED BY <2>2 DEF n
<1>10. W!Unmade \in Rw /\ ~ W!Unmade.made /\ ~ W!Unmade.routed
  BY DEF W!Unmade, Rw
<1>11. rw' \in [Widgets -> Rw] /\ rwh' \in [Widgets -> Rwh] /\ \A w \in Widgets : rw'[w] = W!Unmade /\ rwh'[w] = H(w)
  BY <1>2, <1>6, <1>10
<1>12. LifeTyped'
  <2>1. thread' \in [widgets : Int, hidden : Int, process : Int] /\ visible' \in Int /\ acts' \in 0 .. MaxActs
    BY <1>1, <1>2, <1>3, <1>4
  <2>2. sent' \in Seq(ToWidget) /\ told' \in Seq(OfWidget) /\ tasks' \in Seq(Task) /\ crashed' \in BOOLEAN
    BY <1>2
  <2> QED BY <1>9, <1>11, <2>1, <2>2 DEF LifeTyped, Leaks
<1>13. \A w \in Widgets : Lives(w)'
  <2> TAKE w \in Widgets
  <2>1. ~ Said(<<>>, Kinds(w, {"New"})) /\ ~ Said(<<>>, ToIt(w)) /\ ~ Said(<<>>, OfIt(w))
        /\ ~ Said(<<>>, Kinds(w, {"Move_ACK"})) /\ ~ Said(<<>>, AnyTask(w)) /\ ~ Said(<<>>, CloseTask(w))
        /\ MadeFirst(w, <<>>)
    BY DEF Said, MadeFirst
  <2>2. Grown(w, rw[w], rwh[w], sent, told, tasks, leaks.moves[w])
    BY DEF LifeKept, Lives, Lived
  <2>3. ~ rwh[w].made => rwh[w] = W!NoHost /\ leaks.moves[w] = 0 /\ H(w) = rwh[w]
    <3>1. ~ rwh[w].made => ~ rw[w].made
      BY <2>2 DEF Grown
    <3> QED BY <2>2, <3>1 DEF Grown, H, W!There
  <2>4. Grown(w, W!Unmade, H(w), <<>>, <<>>, <<>>, leaks.moves[w])
    <3>1. ~ H(w).made => H(w) = W!NoHost /\ leaks.moves[w] = 0
      BY <1>6, <2>3
    <3> QED BY <1>10, <2>1, <3>1 DEF Grown, Live
  <2>5. Agrees(w, W!Unmade, H(w), <<>>) /\ Owes(w, W!Unmade, <<>>, <<>>, leaks.moves[w], w \in leaks.closing)
    BY <1>10, <2>1 DEF Agrees, Owes, Live
  <2>6. Lived(w, rw'[w], rwh'[w], sent', told', tasks', leaks'.moves[w], w \in leaks'.closing)
    BY <1>2, <1>9, <1>11, <2>4, <2>5 DEF Lived
  <2> QED BY <1>2, <2>6 DEF Lives
<1>14. W!ThreadCounts'
  <2>1. /\ {w \in Widgets : rw'[w].routed} = {} /\ {w \in Widgets : rw'[w].routed /\ rw'[w].hidden} = {}
        /\ {w \in Widgets : rw'[w].made /\ ~ rw'[w].swapped} = {}
    BY <1>10, <1>11
  <2>2. Cardinality({}) = 0
    BY FS_EmptySet
  <2> QED BY <1>2, <2>1, <2>2, LifeCounted DEF W!ThreadCounts
<1>15. W!ProcessCounts'
  <2>1. {w \in Widgets : rwh'[w].made /\ ~ rwh'[w].gone /\ ~ rwh'[w].hidden} = {}
    BY <1>8, <1>11
  <2>2. Cardinality({}) = 0
    BY FS_EmptySet
  <2>3. Cardinality(A) = Cardinality(E) + d
    <3>1. A \in SUBSET Widgets /\ \A w \in Widgets : w # "popup" => (w \in E <=> w \in A)
      BY <1>7 DEF E, W!There
    <3>2. CASE "popup" \in Widgets
      <4>1. Cardinality(A) = Cardinality(E) + W!One("popup" \in A) - W!One("popup" \in E)
        BY <1>4, <3>1, <3>2, OneMore
      <4>2. W!One("popup" \in A) = d /\ W!One("popup" \in E) = 0
        BY <3>2 DEF d, E, W!One
      <4> HIDE DEF A
      <4> QED BY <1>4, <1>5, <4>1, <4>2
    <3>3. CASE "popup" \notin Widgets
      <4>1. A = E
        BY <3>1, <3>3, <1>4
      <4>2. d = 0
        BY <3>3 DEF d, W!One
      <4> QED BY <1>4, <4>1, <4>2
    <3> QED BY <3>2, <3>3
  <2>4. visible - leaks.visible = Cardinality(A)
    BY LifeCounted DEF LifeKept, W!ProcessCounts
  <2> HIDE DEF A
  <2>5. visible' - leaks'.visible = 0
    BY <1>1, <1>2, <1>4, <1>5, <1>9, <2>3, <2>4
  <2> QED BY <2>1, <2>2, <2>5, LifeCounted DEF W!ProcessCounts, W!There
<1>16. W!OnlyTheFailedLeaks'
  <2>1. W!OnlyTheFailedLeaks
    BY DEF LifeKept
  <2>2. leaks.webwidgets # {} => "popup" \in Widgets
    BY <1>1, <2>1 DEF W!OnlyTheFailedLeaks, Leaks
  <2> QED BY <1>6, <1>9, <1>11, <2>1, <2>2 DEF W!OnlyTheFailedLeaks
<1> QED BY <1>12, <1>13, <1>14, <1>15, <1>16 DEF LifeKept

-----------------------------------------------------------------------------
(* The widgets are counted.                                                *)

LEMMA InitLife == W!Init => LifeKept
<1> SUFFICES ASSUME W!Init PROVE LifeKept
  OBVIOUS
<1>1. /\ rw = [w \in Widgets |-> W!Unmade] /\ rwh = [w \in Widgets |-> W!NoHost]
      /\ tasks = <<>> /\ sent = <<>> /\ told = <<>> /\ thread = [widgets |-> 0, hidden |-> 0, process |-> 0]
      /\ visible = 0 /\ crashed = FALSE /\ acts = 0
      /\ leaks = [closing |-> {}, visible |-> 0, webwidgets |-> {}, moves |-> [w \in Widgets |-> 0]]
  BY DEF W!Init
<1>2. MaxActs \in Nat
  BY PageAssumption DEF PageAssumption, W!WidgetsAssumption
<1>3. /\ W!Unmade \in Rw /\ ~ W!Unmade.made /\ ~ W!Unmade.routed
      /\ W!NoHost \in Rwh /\ ~ W!NoHost.made /\ ~ W!NoHost.gone
  BY DEF W!Unmade, Rw, W!NoHost, Rwh
<1>4. LifeTyped
  <2>1. acts \in 0 .. MaxActs /\ thread \in [widgets : Int, hidden : Int, process : Int]
    BY <1>1, <1>2
  <2>2. sent \in Seq(ToWidget) /\ told \in Seq(OfWidget) /\ tasks \in Seq(Task)
    BY <1>1
  <2>3. rw \in [Widgets -> Rw] /\ rwh \in [Widgets -> Rwh]
    BY <1>1, <1>3
  <2>4. leaks \in [closing : SUBSET Widgets, visible : Nat, webwidgets : SUBSET Widgets, moves : [Widgets -> Nat]]
    BY <1>1
  <2> QED BY <1>1, <2>1, <2>2, <2>3, <2>4 DEF LifeTyped
<1>5. \A w \in Widgets : Lives(w)
  <2> TAKE w \in Widgets
  <2>1. rw[w] = W!Unmade /\ rwh[w] = W!NoHost /\ leaks.moves[w] = 0
    BY <1>1
  <2>2. ~ Said(<<>>, Kinds(w, {"New"})) /\ ~ Said(<<>>, ToIt(w)) /\ ~ Said(<<>>, OfIt(w))
        /\ ~ Said(<<>>, Kinds(w, {"Move_ACK"})) /\ ~ Said(<<>>, AnyTask(w)) /\ ~ Said(<<>>, CloseTask(w))
        /\ MadeFirst(w, <<>>)
    BY DEF Said, MadeFirst
  <2>3. Grown(w, W!Unmade, W!NoHost, <<>>, <<>>, <<>>, 0)
    BY <1>3, <2>2 DEF Grown, Live
  <2>4. Agrees(w, W!Unmade, W!NoHost, <<>>) /\ Owes(w, W!Unmade, <<>>, <<>>, 0, w \in leaks.closing)
    BY <1>3, <2>2 DEF Agrees, Owes, Live
  <2> QED BY <1>1, <1>3, <2>1, <2>3, <2>4 DEF Lives, Lived
<1>6. W!ThreadCounts
  <2>1. /\ {w \in Widgets : rw[w].routed} = {} /\ {w \in Widgets : rw[w].routed /\ rw[w].hidden} = {}
        /\ {w \in Widgets : rw[w].made /\ ~ rw[w].swapped} = {}
    BY <1>1, <1>3
  <2>2. Cardinality({}) = 0
    BY FS_EmptySet
  <2> QED BY <1>1, <2>1, <2>2, LifeCounted DEF W!ThreadCounts
<1>7. W!ProcessCounts
  <2>1. {w \in Widgets : rwh[w].made /\ ~ rwh[w].gone /\ ~ rwh[w].hidden} = {}
    BY <1>1, <1>3
  <2>2. Cardinality({}) = 0
    BY FS_EmptySet
  <2>3. visible - leaks.visible = 0
    BY <1>1
  <2> QED BY <2>1, <2>2, <2>3, LifeCounted DEF W!ProcessCounts, W!There
<1>8. W!OnlyTheFailedLeaks
  BY <1>1 DEF W!OnlyTheFailedLeaks
<1> QED BY <1>4, <1>5, <1>6, <1>7, <1>8 DEF LifeKept

LEMMA NextLife == LifeKept /\ W!Next => LifeKept'
<1> SUFFICES ASSUME LifeKept, W!Next PROVE LifeKept'
  OBVIOUS
<1>1. CASE W!Create
  BY <1>1, CreateKeeps
<1>2. CASE W!show
  BY <1>2, ShowKeeps
<1>3. CASE W!CloseForFrame
  BY <1>3, CloseForFrameKeeps
<1>4. CASE W!SwapView
  BY <1>4, SwapViewKeeps
<1>5. CASE W!RunTask
  <2>1. \E x : x \in Widgets
    <3>1. tasks # <<>> /\ tasks \in Seq(Task)
      BY <1>5 DEF W!RunTask, LifeKept, LifeTyped
    <3>2. Head(tasks) \in Task
      BY <3>1
    <3> QED BY <3>2 DEF Task
  <2> QED BY <1>5, <2>1, RunTaskKeeps
<1>6. CASE W!OnMessageReceived
  <2>1. \E x : x \in Widgets
    <3>1. sent # <<>> /\ sent \in Seq(ToWidget)
      BY <1>6 DEF W!OnMessageReceived, LifeKept, LifeTyped
    <3>2. Head(sent) \in ToWidget
      BY <3>1
    <3> QED BY <3>2 DEF ToWidget
  <2> QED BY <1>6, <2>1, OnMessageReceivedKeeps
<1>7. CASE W!OnHostMessage
  <2>1. \E x : x \in Widgets
    <3>1. told # <<>> /\ told \in Seq(OfWidget)
      BY <1>7 DEF W!OnHostMessage, LifeKept, LifeTyped
    <3>2. Head(told) \in OfWidget
      BY <3>1
    <3> QED BY <3>2 DEF OfWidget
  <2> QED BY <1>7, <2>1, LifeHostMessage
<1>8. CASE W!OnRenderProcessGone
  BY <1>8, OnRenderProcessGoneKeeps
<1>9. ASSUME NEW w \in Widgets,
             \/ W!setWindowRect(w) \/ W!initializeLayerTreeView(w) \/ W!CreateOutputSurface(w)
             \/ W!closeWidgetSoon(w) \/ W!MakeWidget(w) \/ W!WasHidden(w) \/ W!WasShown(w)
             \/ W!ViewDestroyed(w) \/ W!BrowserCloses(w)
      PROVE  LifeKept'
  BY <1>9, SetWindowRectKeeps, InitializeLayerTreeViewKeeps, CreateOutputSurfaceKeeps, CloseWidgetSoonKeeps,
     MakeWidgetKeeps, WasHiddenKeeps, WasShownKeeps, LifeViewDestroyed, BrowserClosesKeeps
<1> QED BY <1>1, <1>2, <1>3, <1>4, <1>5, <1>6, <1>7, <1>8, <1>9 DEF W!Next

LEMMA RestLife == LifeKept /\ UNCHANGED widgetVars => LifeKept'
<1> SUFFICES ASSUME LifeKept, UNCHANGED widgetVars PROVE LifeKept'
  OBVIOUS
<1>1. UNCHANGED <<rw, tasks, thread, rwh, visible, sent, told, crashed, acts, leaks>>
  BY DEF widgetVars
<1>2. LifeTyped'
  BY <1>1 DEF LifeKept, LifeTyped
<1>3. \A w \in Widgets : Lives(w)'
  BY <1>1 DEF LifeKept, Lives
<1>4. W!ThreadCounts' /\ W!ProcessCounts' /\ W!OnlyTheFailedLeaks'
  BY <1>1 DEF LifeKept, W!ThreadCounts, W!ProcessCounts, W!OnlyTheFailedLeaks, W!There
<1> QED BY <1>2, <1>3, <1>4 DEF LifeKept

-----------------------------------------------------------------------------
(* What is counted is what the model says.                                 *)

\* A message with no more to it than its type is known by it.
LEMMA ShortMessages ==
  ASSUME NEW w \in Widgets
  PROVE  /\ \A m \in ToWidget : \A k \in {"WasHidden", "WasShown", "Close", "Move_ACK"} :
              m \in Kinds(w, {k}) <=> m = W!Message(k, w)
         /\ \A m \in OfWidget : \A k \in {"ShowWidget", "RequestMove", "Close"} :
              m \in Tells(w, {k}) <=> m = W!Message(k, w)
<1>1. ASSUME NEW m \in ToWidget, NEW k \in {"WasHidden", "WasShown", "Close", "Move_ACK"}
      PROVE  m \in Kinds(w, {k}) <=> m = W!Message(k, w)
  <2>1. ASSUME m \in Kinds(w, {k}) PROVE m = W!Message(k, w)
    <3>1. m.w = w /\ m.type = k
      BY <2>1 DEF Kinds
    <3>2. m \in [type : {"WasHidden", "WasShown", "Close", "Move_ACK"}, w : Widgets]
      BY <1>1, <3>1 DEF ToWidget
    <3> QED BY <3>1, <3>2 DEF W!Message
  <2>2. ASSUME m = W!Message(k, w) PROVE m \in Kinds(w, {k})
    BY <1>1, <2>2 DEF W!Message, Kinds
  <2> QED BY <2>1, <2>2
<1>2. ASSUME NEW m \in OfWidget, NEW k \in {"ShowWidget", "RequestMove", "Close"}
      PROVE  m \in Tells(w, {k}) <=> m = W!Message(k, w)
  <2>1. ASSUME m \in Tells(w, {k}) PROVE m = W!Message(k, w)
    BY <1>2, <2>1 DEF Tells, OfWidget, W!Message
  <2>2. ASSUME m = W!Message(k, w) PROVE m \in Tells(w, {k})
    BY <1>2, <2>2 DEF W!Message, Tells
  <2> QED BY <2>1, <2>2
<1> QED BY <1>1, <1>2

LEMMA MovesAre ==
  ASSUME NEW w \in Widgets, NEW q \in Seq(ToWidget), NEW t \in Seq(OfWidget)
  PROVE  /\ Places(t, Moves(w))
              = {i \in DOMAIN t : t[i] \in {W!Message("RequestMove", w), W!Message("ShowWidget", w)}}
         /\ Places(q, Kinds(w, {"Move_ACK"})) = {i \in DOMAIN q : q[i] = W!Message("Move_ACK", w)}
<1>1. ASSUME NEW i \in DOMAIN t
      PROVE  t[i] \in Moves(w) <=> t[i] \in {W!Message("RequestMove", w), W!Message("ShowWidget", w)}
  <2>1. t[i] \in OfWidget
    BY <1>1
  <2>2. t[i] \in Moves(w) <=> t[i] \in Tells(w, {"RequestMove"}) \/ t[i] \in Tells(w, {"ShowWidget"})
    BY DEF Moves, Tells
  <2> QED BY <2>1, <2>2, ShortMessages
<1>2. ASSUME NEW i \in DOMAIN q
      PROVE  q[i] \in Kinds(w, {"Move_ACK"}) <=> q[i] = W!Message("Move_ACK", w)
  <2>1. q[i] \in ToWidget
    BY <1>2
  <2> QED BY <2>1, ShortMessages
<1> QED BY <1>1, <1>2 DEF Places

LEMMA MovesAreKept == LifeKept => W!MovesAreCounted
<1> SUFFICES ASSUME LifeKept, NEW w \in Widgets, rw[w].routed
             PROVE  rw[w].pending
               = W!Cardinality({i \in DOMAIN told :
                   told[i] \in {W!Message("RequestMove", w), W!Message("ShowWidget", w)}})
                 + W!Cardinality({i \in DOMAIN sent : sent[i] = W!Message("Move_ACK", w)}) + leaks.moves[w]
  BY DEF W!MovesAreCounted
<1>1. Placed(w, rw[w], rwh[w], sent, told, tasks, leaks.moves[w], w \in leaks.closing)
      /\ sent \in Seq(ToWidget) /\ told \in Seq(OfWidget)
  BY LifeIsTyped
<1>2. Owes(w, rw[w], sent, told, leaks.moves[w], w \in leaks.closing)
  BY <1>1, PlacedIs
<1>3. rw[w].pending = Number(told, Moves(w)) + Number(sent, Kinds(w, {"Move_ACK"})) + leaks.moves[w]
  BY <1>2 DEF Owes
<1>4. /\ Number(told, Moves(w)) = Cardinality({i \in DOMAIN told :
           told[i] \in {W!Message("RequestMove", w), W!Message("ShowWidget", w)}})
      /\ Number(sent, Kinds(w, {"Move_ACK"})) = Cardinality({i \in DOMAIN sent : sent[i] = W!Message("Move_ACK", w)})
  BY <1>1, MovesAre DEF Number
<1> QED BY <1>3, <1>4, LifeCounted

LEMMA VisibilityIsKept == LifeKept => W!VisibilityAgrees
<1> SUFFICES ASSUME LifeKept, NEW w \in Widgets, rw[w].routed, W!There(w)
             PROVE  W!WillBeHidden(w) = rwh[w].hidden
  BY DEF W!VisibilityAgrees
<1>1. Placed(w, rw[w], rwh[w], sent, told, tasks, leaks.moves[w], w \in leaks.closing)
      /\ sent \in Seq(ToWidget) /\ rw[w] \in Rw /\ rwh[w] \in Rwh
  BY LifeIsTyped
<1>2. Grown(w, rw[w], rwh[w], sent, told, tasks, leaks.moves[w]) /\ Agrees(w, rw[w], rwh[w], sent)
  BY <1>1, PlacedIs
<1>3. ~ Said(sent, Kinds(w, {"New"}))
  BY <1>2 DEF Grown
<1>4. WillHide(w, sent, rw[w].hidden) = rwh[w].hidden
  BY <1>2 DEF Agrees, Live, W!There
<1>5. ASSUME NEW i \in DOMAIN sent
      PROVE  /\ sent[i] \in HideWords(w) <=> i \in W!WordsToHide(w)
             /\ sent[i] \in ToHide(w) <=> sent[i] = W!Message("WasHidden", w)
  <2>1. sent[i] \in ToWidget /\ sent[i] \notin Kinds(w, {"New"})
    BY <1>1, <1>3, <1>5 DEF Said
  <2>2. /\ sent[i] \in HideWords(w) <=> sent[i] \in Kinds(w, {"WasHidden"}) \/ sent[i] \in Kinds(w, {"WasShown"})
        /\ sent[i] \in ToHide(w) <=> sent[i] \in Kinds(w, {"WasHidden"})
    BY <2>1 DEF HideWords, ToHide, Kinds
  <2>3. /\ sent[i] \in Kinds(w, {"WasHidden"}) <=> sent[i] = W!Message("WasHidden", w)
        /\ sent[i] \in Kinds(w, {"WasShown"}) <=> sent[i] = W!Message("WasShown", w)
    BY <2>1, ShortMessages
  <2> QED BY <1>5, <2>2, <2>3 DEF W!WordsToHide
<1>6. DOMAIN sent = 1 .. Len(sent) /\ W!WordsToHide(w) \subseteq DOMAIN sent
  BY <1>1 DEF W!WordsToHide
<1>7. CASE W!WordsToHide(w) = {}
  <2>1. \A i \in 1 .. Len(sent) : sent[i] \notin HideWords(w)
    BY <1>5, <1>6, <1>7
  <2>2. WillHide(w, sent, rw[w].hidden) = rw[w].hidden
    BY <2>1 DEF WillHide, Says
  <2> QED BY <1>4, <1>7, <2>2 DEF W!WillBeHidden
<1>8. CASE W!WordsToHide(w) # {}
  <2>1. ~ \A i \in 1 .. Len(sent) : sent[i] \notin HideWords(w)
    BY <1>5, <1>6, <1>8
  <2>2. WillHide(w, sent, rw[w].hidden)
          <=> \E i \in 1 .. Len(sent) : sent[i] \in ToHide(w)
                /\ \A j \in 1 .. Len(sent) : sent[j] \in HideWords(w) => j <= i
    BY <2>1 DEF WillHide, Says
  <2>3. W!WillBeHidden(w)
          <=> \E i \in W!WordsToHide(w) : (\A j \in W!WordsToHide(w) : j <= i) /\ sent[i] = W!Message("WasHidden", w)
    BY <1>8 DEF W!WillBeHidden
  <2>4. \A i \in 1 .. Len(sent) : sent[i] \in ToHide(w) => i \in W!WordsToHide(w)
    BY <1>5, <1>6 DEF ToHide
  <2>5. WillHide(w, sent, rw[w].hidden) <=> W!WillBeHidden(w)
    BY <1>5, <1>6, <2>2, <2>3, <2>4
  <2>6. rwh[w].hidden \in BOOLEAN /\ W!WillBeHidden(w) \in BOOLEAN
    BY <1>1, <1>8 DEF Rwh, W!WillBeHidden
  <2> QED BY <1>4, <2>5, <2>6
<1> QED BY <1>7, <1>8

LEMMA ClosingIsKept == LifeKept => W!ClosingIsHeard
<1> SUFFICES ASSUME LifeKept, NEW w \in Widgets, rw[w].routed, rw[w].host_closing, w \notin leaks.closing
             PROVE  W!Message("Close", w) \in W!Range(told) \cup W!Range(sent)
  BY DEF W!ClosingIsHeard
<1>1. Placed(w, rw[w], rwh[w], sent, told, tasks, leaks.moves[w], w \in leaks.closing)
      /\ sent \in Seq(ToWidget) /\ told \in Seq(OfWidget)
  BY LifeIsTyped
<1>2. Owes(w, rw[w], sent, told, leaks.moves[w], w \in leaks.closing)
  BY <1>1, PlacedIs
<1>3. Said(told, Tells(w, {"Close"})) \/ Said(sent, Kinds(w, {"Close"}))
  BY <1>2 DEF Owes
<1>4. CASE Said(told, Tells(w, {"Close"}))
  <2>1. PICK i \in DOMAIN told : told[i] \in Tells(w, {"Close"})
    BY <1>4 DEF Said
  <2>2. told[i] = W!Message("Close", w)
    BY <1>1, <2>1, ShortMessages
  <2> QED BY <2>1, <2>2 DEF W!Range
<1>5. CASE Said(sent, Kinds(w, {"Close"}))
  <2>1. PICK i \in DOMAIN sent : sent[i] \in Kinds(w, {"Close"})
    BY <1>5 DEF Said
  <2>2. sent[i] = W!Message("Close", w)
    BY <1>1, <2>1, ShortMessages
  <2> QED BY <2>1, <2>2 DEF W!Range
<1> QED BY <1>3, <1>4, <1>5

LEMMA LifeIsCounted == LifeKept => W!TypeOK /\ W!WidgetsAreCounted
<1> SUFFICES ASSUME LifeKept PROVE W!TypeOK /\ W!WidgetsAreCounted
  OBVIOUS
<1>1. LifeTyped /\ W!ThreadCounts /\ W!ProcessCounts /\ W!OnlyTheFailedLeaks
  BY DEF LifeKept
<1>2. \A S \in SUBSET Widgets : W!Cardinality(S) \in Nat
  BY FewWidgets, LifeCounted
<1>3. thread.widgets \in Nat /\ thread.hidden \in Nat /\ thread.process \in Nat
  <2> DEFINE A == {w \in Widgets : rw[w].routed}
             B == {w \in Widgets : rw[w].routed /\ rw[w].hidden}
             C == {w \in Widgets : rw[w].made /\ ~ rw[w].swapped}
  <2>1. W!Cardinality(A) \in Nat /\ W!Cardinality(B) \in Nat /\ W!Cardinality(C) \in Nat
    BY <1>2
  <2> QED BY <1>1, <2>1 DEF W!ThreadCounts
<1>4. visible \in Nat
  <2> DEFINE A == {w \in Widgets : W!There(w) /\ ~ rwh[w].hidden}
             c == W!Cardinality(A)
  <2>1. c \in Nat
    BY <1>2
  <2>2. visible - leaks.visible = c
    BY <1>1 DEF W!ProcessCounts
  <2>3. visible \in Int /\ leaks.visible \in Nat
    BY <1>1 DEF LifeTyped
  <2> HIDE DEF c
  <2> QED BY <2>1, <2>2, <2>3
<1>5. W!TypeOK
  BY <1>1, <1>3, <1>4 DEF W!TypeOK, LifeTyped, Rw, Rwh
<1> QED BY <1>1, <1>5, MovesAreKept, VisibilityIsKept, ClosingIsKept DEF W!WidgetsAreCounted

\* Each widget is counted once by the renderer's thread, by its process and by the
\* browser's, in whatever order it is made, shown, swapped and closed from both sides and
\* through crashes; each of its moves is pending until it is acknowledged, the last word on
\* its way says whether it is hidden, and a widget that gave up its compositor to be closed
\* is being closed (render_widget.cc: DoInit, OnClose, SetHidden, SetSwappedOut,
\* OnRequestMoveAck; render_widget_host_impl.cc: WasHidden, WasShown, RendererExited,
\* Destroy).
THEOREM WidgetsStayCounted == Spec => []WidgetsAreCounted
<1>1. Init => LifeKept
  BY InitLife DEF Init
<1>2. LifeKept /\ [Next]_vars => LifeKept'
  <2> SUFFICES ASSUME LifeKept, [Next]_vars PROVE LifeKept'
    OBVIOUS
  <2>1. CASE OfWidgets
    BY <2>1, NextLife DEF OfWidgets
  <2>2. CASE Navigation \/ Text \/ Input \/ Requests \/ UNCHANGED vars
    <3>1. UNCHANGED widgetVars
      BY <2>2 DEF Navigation, Text, Input, Requests, vars
    <3> QED BY <3>1, RestLife
  <2> QED BY <2>1, <2>2 DEF Next
<1>3. LifeKept => WidgetsAreCounted
  BY LifeIsCounted DEF WidgetsAreCounted
<1> QED BY <1>1, <1>2, <1>3, PTL DEF Spec
=============================================================================
