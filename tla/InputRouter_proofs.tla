------------------------- MODULE InputRouter_proofs -------------------------
(***************************************************************************)
(* Proofs about InputRouter, for any user events and any bound on them:    *)
(* the hang monitor watches whoever owes answers, no class of events is    *)
(* stuck, the browser's books agree with the renderer, a flush is told     *)
(* when it is true, and the user's events are sent in order and not lost.  *)
(***************************************************************************)
EXTENDS InputRouter, SequenceTheorems, FiniteSetTheorems, FunctionTheorems, TLAPS

Widgets == [count : Int, running : BOOLEAN, unresponsive : BOOLEAN,
            hidden : BOOLEAN]

\* What HangMonitorWatches says of the widget, for any record w.  The count
\* may be any integer: the monitor looks at its sign only.
Watched(w) ==
  /\ w \in Widgets
  /\ ~ w.hidden /\ w.count > 0 => w.running \/ w.unresponsive
  /\ w.hidden => ~ w.running /\ ~ w.unresponsive

-----------------------------------------------------------------------------
(* The operations on the widget keep its type and keep it watched.         *)

\* Two fields may be set at once, to any values of their types.
LEMMA CountAndTimerType ==
  ASSUME NEW w \in Widgets, NEW c \in Int, NEW r \in BOOLEAN
  PROVE  [w EXCEPT !.count = c, !.running = r] \in Widgets
  BY DEF Widgets

LEMMA TimerAndHiddenType ==
  ASSUME NEW w \in Widgets, NEW h \in BOOLEAN, NEW r \in BOOLEAN
  PROVE  [w EXCEPT !.hidden = h, !.running = r] \in Widgets
  BY DEF Widgets

LEMMA CountAndHiddenType ==
  ASSUME NEW w \in Widgets, NEW h \in BOOLEAN, NEW c \in Int
  PROVE  [w EXCEPT !.hidden = h, !.count = c] \in Widgets
  BY DEF Widgets

LEMMA StopType ==
  ASSUME NEW w \in Widgets
  PROVE  StopHangMonitorTimeout(w) \in Widgets
  BY DEF Widgets, StopHangMonitorTimeout

\* Counting an event up starts the monitor of a visible widget only.
LEMMA IncrementWatched ==
  ASSUME NEW w, Watched(w)
  PROVE  Watched(IncrementInFlightEventCount(w))
<1> DEFINE r == w.running \/ ~ w.hidden
<1>1. IncrementInFlightEventCount(w) \in Widgets
  <2>1. w \in Widgets /\ w.count + 1 \in Int /\ r \in BOOLEAN
    BY DEF Watched, Widgets
  <2> HIDE DEF r
  <2>2. [w EXCEPT !.count = w.count + 1, !.running = r] \in Widgets
    BY <2>1, CountAndTimerType
  <2> QED BY <2>2 DEF IncrementInFlightEventCount, r
<1> QED BY <1>1 DEF Watched, Widgets, IncrementInFlightEventCount

\* Counting down stops the monitor at zero and restarts it above.
LEMMA DecrementWatched ==
  ASSUME NEW w, Watched(w)
  PROVE  Watched(DecrementInFlightEventCount(w))
<1> DEFINE v == [w EXCEPT !.count = @ - 1]
           r == w.running \/ ~ w.hidden
<1>1. w \in Widgets /\ v \in Widgets /\ w.count - 1 \in Int /\ r \in BOOLEAN
  BY DEF Watched, Widgets
<1>2. CASE w.count - 1 <= 0
  <2>1. DecrementInFlightEventCount(w) = StopHangMonitorTimeout(v)
    BY <1>2 DEF DecrementInFlightEventCount
  <2>2. StopHangMonitorTimeout(v) \in Widgets
    BY <1>1, StopType
  <2>3. /\ StopHangMonitorTimeout(v).count <= 0
        /\ ~ StopHangMonitorTimeout(v).running
        /\ ~ StopHangMonitorTimeout(v).unresponsive
    BY <1>1, <1>2 DEF StopHangMonitorTimeout, Widgets
  <2>4. StopHangMonitorTimeout(v).count \in Int
    BY <2>2 DEF Widgets
  <2> HIDE DEF v
  <2> QED BY <2>1, <2>2, <2>3, <2>4 DEF Watched
<1>3. CASE ~ (w.count - 1 <= 0)
  <2>1. DecrementInFlightEventCount(w)
          = [w EXCEPT !.count = @ - 1, !.running = @ \/ ~ w.hidden]
    BY <1>3 DEF DecrementInFlightEventCount
  <2>2. DecrementInFlightEventCount(w) \in Widgets
    <3> HIDE DEF r, v
    <3>1. [w EXCEPT !.count = w.count - 1, !.running = r] \in Widgets
      BY <1>1, CountAndTimerType
    <3> QED BY <2>1, <3>1 DEF r
  <2> QED BY <1>1, <2>1, <2>2 DEF Watched, Widgets
<1> QED BY <1>2, <1>3

\* Hiding stops the monitor.
LEMMA HideWatched ==
  ASSUME NEW w, Watched(w)
  PROVE  Watched(StopHangMonitorTimeout([w EXCEPT !.hidden = TRUE]))
<1> DEFINE v == [w EXCEPT !.hidden = TRUE]
<1>1. v \in Widgets /\ v.hidden
  BY DEF Watched, Widgets
<1> HIDE DEF v
<1>2. StopHangMonitorTimeout(v) \in Widgets
  BY <1>1, StopType
<1>3. Watched(StopHangMonitorTimeout(v))
  BY <1>1, <1>2 DEF Watched, Widgets, StopHangMonitorTimeout
<1> QED BY <1>3 DEF v

\* Showing starts it again if answers are owed.
LEMMA ShownWatched ==
  ASSUME NEW w, Watched(w)
  PROVE  Watched(Shown(w))
<1> DEFINE r == w.running \/ w.count # 0
<1>1. Shown(w) \in Widgets
  <2>1. w \in Widgets /\ FALSE \in BOOLEAN /\ r \in BOOLEAN
    BY DEF Watched
  <2> HIDE DEF r
  <2>2. [w EXCEPT !.hidden = FALSE, !.running = r] \in Widgets
    BY <2>1, TimerAndHiddenType
  <2> QED BY <2>2 DEF Shown, r
<1> QED BY <1>1 DEF Watched, Widgets, Shown

\* The end of the renderer forgets the debt and hides the widget.
LEMMA ExitedWatched ==
  ASSUME NEW w, Watched(w)
  PROVE  Watched(Exited(w))
<1> DEFINE v == [w EXCEPT !.hidden = TRUE, !.count = 0]
<1>1. v \in Widgets
  <2>1. w \in Widgets /\ TRUE \in BOOLEAN /\ 0 \in Int
    BY DEF Watched
  <2> QED BY <2>1, CountAndHiddenType, Zenon
<1>2. v.hidden
  BY DEF Watched, Widgets
<1>3. Exited(w) = StopHangMonitorTimeout(v)
  BY DEF Exited
<1> HIDE DEF v
<1>4. StopHangMonitorTimeout(v) \in Widgets
  BY <1>1, StopType
<1>5. Watched(StopHangMonitorTimeout(v))
  BY <1>1, <1>2, <1>4 DEF Watched, Widgets, StopHangMonitorTimeout
<1> QED BY <1>3, <1>5

\* A report is not taken back by the monitor itself.
LEMMA FiredWatched ==
  ASSUME NEW w, Watched(w), w.running
  PROVE  Watched([w EXCEPT !.running = FALSE, !.unresponsive = TRUE])
<1> DEFINE v == [w EXCEPT !.running = FALSE, !.unresponsive = TRUE]
<1>1. v \in Widgets
  BY DEF Watched, Widgets
<1>2. ~ w.hidden
  BY DEF Watched
<1> QED BY <1>1, <1>2 DEF Watched, Widgets

\* Emptying a lane counts at most the one event that goes to the renderer.
LEMMA DrainWatched ==
  ASSUME NEW l, NEW q, NEW w, NEW count, NEW acked,
         Watched(w), Drain(l, q, w, count, acked)
  PROVE  Watched(widget')
<1>1. widget' = w \/ widget' = IncrementInFlightEventCount(w)
  BY DEF Drain
<1> QED BY <1>1, IncrementWatched

-----------------------------------------------------------------------------
(* Every step keeps the widget watched.                                    *)

LEMMA UserInputWatched ==
  ASSUME Watched(widget), UserInput PROVE Watched(widget')
<1>1. PICK u \in UserEvents : SendOrHold(u) \/ SendPress(u) \/ SendKeyboardEvent(u)
  BY DEF UserInput
<1>2. CASE SendOrHold(u)
  <2>1. CASE lane[u.kind].pending
    BY <1>2, <2>1 DEF SendOrHold
  <2>2. CASE ~ lane[u.kind].pending
    <3>1. Drain(u.kind, <<Event(u, Len(seen) + 1)>>, widget,
                active_renderer_fling_count, FALSE)
      BY <1>2, <2>2 DEF SendOrHold
    <3> QED BY <3>1, DrainWatched
  <2> QED BY <2>1, <2>2
<1>3. CASE SendPress(u)
  BY <1>3 DEF SendPress
<1>4. CASE SendKeyboardEvent(u)
  BY <1>4, IncrementWatched DEF SendKeyboardEvent
<1> QED BY <1>1, <1>2, <1>3, <1>4

LEMMA MessageWatched ==
  ASSUME Watched(widget), OnMessageReceived PROVE Watched(widget')
<1> DEFINE a == Head(acks)
<1>1. OnPointerAck(a) \/ OnKeyAck(a) \/ OnEditAck(a) \/ OnDidStopFlinging(a)
  BY DEF OnMessageReceived
<1>2. CASE OnPointerAck(a)
  <2>1. Drain(a.kind, lane[a.kind].held, DecrementInFlightEventCount(widget),
              FlingsAfter(a), TRUE)
    BY <1>2 DEF OnPointerAck
  <2>2. Watched(DecrementInFlightEventCount(widget))
    BY DecrementWatched
  <2> QED BY <2>1, <2>2, DrainWatched
<1>3. CASE OnKeyAck(a)
  BY <1>3, DecrementWatched DEF OnKeyAck
<1>4. CASE OnEditAck(a)
  <2>1. Drain(a.kind, lane[a.kind].held, widget, active_renderer_fling_count, FALSE)
    BY <1>4 DEF OnEditAck
  <2> QED BY <2>1, DrainWatched
<1>5. CASE OnDidStopFlinging(a)
  BY <1>5 DEF OnDidStopFlinging
<1> QED BY <1>1, <1>2, <1>3, <1>4, <1>5

LEMMA NextWatched ==
  ASSUME Watched(widget), [Next]_vars PROVE Watched(widget')
<1>1. CASE UserInput
  BY <1>1, UserInputWatched
<1>2. CASE OnMessageReceived
  BY <1>2, MessageWatched
<1>3. CASE WasHidden
  BY <1>3, HideWatched DEF WasHidden
<1>4. CASE WasShown
  BY <1>4, ShownWatched DEF WasShown
<1>5. CASE HangMonitorFires
  BY <1>5, FiredWatched DEF HangMonitorFires
<1>6. CASE RendererExited
  BY <1>6, ExitedWatched DEF RendererExited
<1>7. CASE \/ RequestNotificationWhenFlushed \/ SetIgnoreInputEvents
           \/ RendererAnswers \/ FlingEnds \/ ConnectionLost \/ Relaunch
  BY <1>7 DEF RequestNotificationWhenFlushed, SetIgnoreInputEvents,
              RendererAnswers, FlingEnds, ConnectionLost, Relaunch
<1>8. CASE UNCHANGED vars
  BY <1>8 DEF vars
<1> QED BY <1>1, <1>2, <1>3, <1>4, <1>5, <1>6, <1>7, <1>8 DEF Next

\* Whatever the user, the renderer and the tab strip do, and through any
\* number of crashes and reloads, a visible widget that owes answers is
\* watched or was reported, and a hidden one is neither.
THEOREM MonitorIsOn == Spec => []HangMonitorWatches
<1>1. Init => Watched(widget)
  <2> DEFINE w == [count |-> 0, running |-> FALSE, unresponsive |-> FALSE,
                   hidden |-> FALSE]
  <2>1. w \in Widgets
    BY DEF Widgets
  <2>2. w.count = 0 /\ ~ w.running /\ ~ w.unresponsive /\ ~ w.hidden
    OBVIOUS
  <2> HIDE DEF w
  <2>3. Watched(w)
    BY <2>1, <2>2 DEF Watched
  <2> QED BY <2>3 DEF Init, w
<1>2. Watched(widget) /\ [Next]_vars => Watched(widget')
  BY NextWatched
<1>3. Watched(widget)' <=> Watched(widget')
  BY DEF Watched
<1>4. Watched(widget) => HangMonitorWatches
  BY DEF Watched, HangMonitorWatches
<1>5. Watched(widget) /\ [Next]_vars => Watched(widget)'
  BY <1>2, <1>3
<1> QED BY <1>1, <1>4, <1>5, PTL DEF Spec

-----------------------------------------------------------------------------
(* Sequences of messages: what one message more, or one less, changes.     *)

\* The messages at the places of T are those at S, the i-th place left out.
Without(S, i, T) == T = {j \in Nat \ {0} : (j < i /\ j \in S) \/ (j >= i /\ j + 1 \in S)}

LEMMA OneLess ==
  ASSUME NEW n \in Nat, NEW S \in SUBSET (1 .. n), NEW i \in 1 .. n,
         NEW T, Without(S, i, T)
  PROVE  /\ IsFiniteSet(S) /\ IsFiniteSet(T)
         /\ Cardinality(S) \in Nat /\ Cardinality(T) \in Nat
         /\ Cardinality(S) = Cardinality(T) + (IF i \in S THEN 1 ELSE 0)
<1> DEFINE f == [j \in T |-> IF j < i THEN j ELSE j + 1]
<1>1. IsFiniteSet(S)
  <2>1. IsFiniteSet(1 .. n)
    BY FS_Interval
  <2> QED BY <2>1, FS_Subset
<1>2. T \subseteq 1 .. n
  BY DEF Without
<1>3. IsFiniteSet(T)
  <2>1. IsFiniteSet(1 .. n)
    BY FS_Interval
  <2> QED BY <1>2, <2>1, FS_Subset
<1>4. Cardinality(S \ {i}) = Cardinality(T)
  <2>1. \A j \in T : f[j] \in S \ {i}
    BY DEF Without
  <2>2. ASSUME NEW k \in S \ {i} PROVE \E j \in T : f[j] = k
    <3>1. CASE k < i
      <4>1. k \in T /\ f[k] = k
        BY <3>1 DEF Without
      <4> QED BY <4>1
    <3>2. CASE ~ (k < i)
      <4>1. k - 1 \in T /\ f[k - 1] = k
        BY <3>2 DEF Without
      <4> QED BY <4>1
    <3> QED BY <3>1, <3>2
  <2>3. \A j, k \in T : f[j] = f[k] => j = k
    BY <1>2
  <2>4. f \in Bijection(T, S \ {i})
    BY <2>1, <2>2, <2>3, Fun_IsBij
  <2>5. ExistsBijection(T, S \ {i})
    BY <2>4 DEF ExistsBijection
  <2> QED BY <1>3, <2>5, FS_Bijection
<1>5. Cardinality(S) \in Nat /\ Cardinality(T) \in Nat
  BY <1>1, <1>3, FS_CardinalityType
<1>6. CASE i \in S
  <2>1. Cardinality(S \ {i}) = Cardinality(S) - 1
    BY <1>1, <1>6, FS_RemoveElement
  <2> QED BY <1>1, <1>3, <1>4, <1>5, <1>6, <2>1
<1>7. CASE i \notin S
  <2>1. S \ {i} = S
    BY <1>7
  <2>2. Cardinality(S) = Cardinality(T)
    BY <1>4, <2>1, Zenon
  <2> QED BY <1>1, <1>3, <1>5, <1>7, <2>2
<1> QED BY <1>6, <1>7

LEMMA OfKindOfAny ==
  ASSUME NEW E, NEW q \in Seq(E), NEW K
  PROVE  /\ OfKind(q, K) \subseteq 1 .. Len(q) /\ IsFiniteSet(OfKind(q, K))
         /\ Cardinality(OfKind(q, K)) \in Nat
<1>1. OfKind(q, K) \subseteq 1 .. Len(q)
  BY DEF OfKind
<1>2. IsFiniteSet(1 .. Len(q))
  BY FS_Interval
<1>3. IsFiniteSet(OfKind(q, K))
  BY <1>1, <1>2, FS_Subset
<1> QED BY <1>1, <1>3, FS_CardinalityType

LEMMA OfKindEmpty ==
  ASSUME NEW K
  PROVE  OfKind(<<>>, K) = {} /\ Cardinality(OfKind(<<>>, K)) = 0
<1>1. OfKind(<<>>, K) = {}
  BY DEF OfKind
<1> QED BY <1>1, FS_EmptySet

LEMMA OfKindAppend ==
  ASSUME NEW E, NEW q \in Seq(E), NEW m, NEW K
  PROVE  /\ OfKind(Append(q, m), K) =
              OfKind(q, K) \cup IF m.kind \in K THEN {Len(q) + 1} ELSE {}
         /\ Cardinality(OfKind(Append(q, m), K)) =
              Cardinality(OfKind(q, K)) + IF m.kind \in K THEN 1 ELSE 0
<1> DEFINE n == Len(q) + 1
<1>1. /\ DOMAIN Append(q, m) = 1 .. n /\ Append(q, m)[n] = m /\ n \notin DOMAIN q
      /\ \A i \in DOMAIN q : Append(q, m)[i] = q[i]
      /\ DOMAIN q = 1 .. Len(q) /\ 1 .. n = (1 .. Len(q)) \cup {n}
  OBVIOUS
<1>2. OfKind(Append(q, m), K) = OfKind(q, K) \cup IF m.kind \in K THEN {n} ELSE {}
  BY <1>1 DEF OfKind
<1>3. /\ IsFiniteSet(OfKind(q, K)) /\ n \notin OfKind(q, K)
      /\ Cardinality(OfKind(q, K)) \in Nat
  BY OfKindOfAny
<1>4. CASE m.kind \in K
  <2>1. Cardinality(OfKind(q, K) \cup {n}) = Cardinality(OfKind(q, K)) + 1
    BY <1>3, FS_AddElement
  <2> HIDE DEF n
  <2>2. OfKind(Append(q, m), K) = OfKind(q, K) \cup {n}
    BY <1>2, <1>4
  <2>3. Cardinality(OfKind(Append(q, m), K)) = Cardinality(OfKind(q, K)) + 1
    BY <2>1, <2>2
  <2> QED BY <1>2, <1>4, <2>3 DEF n
<1>5. CASE m.kind \notin K
  <2>1. OfKind(Append(q, m), K) = OfKind(q, K)
    BY <1>2, <1>5
  <2> QED BY <1>2, <1>3, <1>5, <2>1
<1> QED BY <1>4, <1>5

\* RemoveAt, place by place.  Tail is the case of the first place.
LEMMA RemoveAtPlaces ==
  ASSUME NEW E, NEW q \in Seq(E), NEW i \in 1 .. Len(q)
  PROVE  /\ RemoveAt(q, i) \in Seq(E) /\ Len(RemoveAt(q, i)) = Len(q) - 1
         /\ \A j \in 1 .. Len(q) - 1 :
              RemoveAt(q, i)[j] = IF j < i THEN q[j] ELSE q[j + 1]
<1> DEFINE front == SubSeq(q, 1, i - 1)
           back  == SubSeq(q, i + 1, Len(q))
<1>1. /\ front \in Seq(E) /\ Len(front) = i - 1
      /\ \A j \in 1 .. i - 1 : front[j] = q[j]
  OBVIOUS
<1>2. /\ back \in Seq(E) /\ Len(back) = Len(q) - i
      /\ \A j \in 1 .. Len(q) - i : back[j] = q[j + i]
  OBVIOUS
<1>3. RemoveAt(q, i) = front \o back
  BY DEF RemoveAt
<1> HIDE DEF front, back
<1>4. /\ front \o back \in Seq(E) /\ Len(front \o back) = Len(q) - 1
      /\ \A j \in 1 .. Len(q) - 1 :
           (front \o back)[j] = IF j < i THEN front[j] ELSE back[j - (i - 1)]
  <2>1. /\ front \o back \in Seq(E) /\ Len(front \o back) = Len(front) + Len(back)
        /\ \A j \in 1 .. Len(front) + Len(back) :
             (front \o back)[j] = IF j <= Len(front) THEN front[j] ELSE back[j - Len(front)]
    BY <1>1, <1>2, ConcatProperties
  <2>2. Len(front) + Len(back) = Len(q) - 1 /\ Len(q) \in Nat
    BY <1>1, <1>2
  <2> QED BY <1>1, <2>1, <2>2
<1>5. ASSUME NEW j \in 1 .. Len(q) - 1
      PROVE  RemoveAt(q, i)[j] = IF j < i THEN q[j] ELSE q[j + 1]
  <2>1. CASE j < i
    BY <1>1, <1>3, <1>4, <2>1
  <2>2. CASE ~ (j < i)
    <3>1. j - (i - 1) \in 1 .. Len(q) - i /\ (j - (i - 1)) + i = j + 1
      BY <2>2
    <3> QED BY <1>2, <1>3, <1>4, <2>2, <3>1
  <2> QED BY <2>1, <2>2
<1> QED BY <1>3, <1>4, <1>5

LEMMA TailPlaces ==
  ASSUME NEW E, NEW q \in Seq(E), q # <<>>
  PROVE  /\ Tail(q) \in Seq(E) /\ Len(Tail(q)) = Len(q) - 1 /\ 1 \in 1 .. Len(q)
         /\ \A j \in 1 .. Len(q) - 1 : Tail(q)[j] = q[j + 1]
         /\ Head(q) = q[1] /\ Head(q) \in E
OBVIOUS

LEMMA OfKindLess ==
  ASSUME NEW E, NEW q \in Seq(E), NEW i \in 1 .. Len(q), NEW p \in Seq(E), NEW K,
         Len(p) = Len(q) - 1,
         \A j \in 1 .. Len(q) - 1 : p[j] = IF j < i THEN q[j] ELSE q[j + 1]
  PROVE  Cardinality(OfKind(q, K)) =
           Cardinality(OfKind(p, K)) + IF q[i].kind \in K THEN 1 ELSE 0
<1>1. OfKind(q, K) \in SUBSET (1 .. Len(q)) /\ Len(q) \in Nat
  BY OfKindOfAny
<1>2. OfKind(p, K) = {j \in 1 .. Len(q) - 1 : p[j].kind \in K}
  BY DEF OfKind
<1>3. Without(OfKind(q, K), i, OfKind(p, K))
  <2>1. \A j \in Nat \ {0} :
          j \in OfKind(p, K) <=>
            (j < i /\ j \in OfKind(q, K)) \/ (j >= i /\ j + 1 \in OfKind(q, K))
    <3> TAKE j \in Nat \ {0}
    <3>1. CASE j \in 1 .. Len(q) - 1
      <4>1. j \in OfKind(p, K) <=> p[j].kind \in K
        BY <1>2, <3>1
      <4>2. j \in OfKind(q, K) <=> q[j].kind \in K
        BY <1>1, <3>1 DEF OfKind
      <4>3. j + 1 \in OfKind(q, K) <=> q[j + 1].kind \in K
        BY <1>1, <3>1 DEF OfKind
      <4>4. (j < i /\ p[j] = q[j]) \/ (j >= i /\ p[j] = q[j + 1])
        BY <1>1, <3>1
      <4> QED BY <4>1, <4>2, <4>3, <4>4
    <3>2. CASE j \notin 1 .. Len(q) - 1
      <4>1. j \notin OfKind(p, K) /\ j >= i
        BY <1>1, <1>2, <3>2
      <4>2. j + 1 \notin OfKind(q, K)
        BY <1>1, <3>2
      <4> QED BY <1>1, <4>1, <4>2
    <3> QED BY <3>1, <3>2
  <2>2. OfKind(p, K) \subseteq Nat \ {0}
    BY <1>2
  <2> QED BY <2>1, <2>2 DEF Without
<1>4. i \in OfKind(q, K) <=> q[i].kind \in K
  BY DEF OfKind
<1> DEFINE S == OfKind(q, K)
           T == OfKind(p, K)
<1> HIDE DEF S, T
<1>5. /\ Cardinality(S) = Cardinality(T) + (IF i \in S THEN 1 ELSE 0)
      /\ Cardinality(T) \in Nat
  <2>1. S \in SUBSET (1 .. Len(q)) /\ Without(S, i, T)
    BY <1>1, <1>3 DEF S, T
  <2> QED BY <1>1, <2>1, OneLess, ZenonT(30)
<1> QED BY <1>4, <1>5 DEF S, T

LEMMA OfKindTail ==
  ASSUME NEW E, NEW q \in Seq(E), q # <<>>, NEW K
  PROVE  Cardinality(OfKind(q, K)) =
           Cardinality(OfKind(Tail(q), K)) + IF Head(q).kind \in K THEN 1 ELSE 0
<1> DEFINE p == Tail(q)
<1>1. /\ p \in Seq(E) /\ Len(p) = Len(q) - 1 /\ 1 \in 1 .. Len(q)
      /\ \A j \in 1 .. Len(q) - 1 : p[j] = q[j + 1]
      /\ Head(q) = q[1]
  BY TailPlaces
<1>2. \A j \in 1 .. Len(q) - 1 : p[j] = IF j < 1 THEN q[j] ELSE q[j + 1]
  BY <1>1
<1> HIDE DEF p
<1>3. Cardinality(OfKind(q, K)) =
        Cardinality(OfKind(p, K)) + IF q[1].kind \in K THEN 1 ELSE 0
  BY <1>1, <1>2, OfKindLess
<1> QED BY <1>1, <1>3 DEF p

-----------------------------------------------------------------------------
(* Types.  A fling is a gesture, and only a fling is ever consumed.        *)

Sound     == {m \in Messages : m.type = "fling" => m.kind = "gesture"}
SoundAcks == {a \in Acks : a.consumed => a.type = "fling" /\ a.kind = "gesture"}

\* Events are held only behind one that is unanswered, and they are of their class.
TidyLanes(ls) ==
  /\ ls \in [Lanes -> [pending : BOOLEAN, held : Seq(Sound)]]
  /\ \A l \in Lanes :
       /\ ls[l].held # <<>> => ls[l].pending
       /\ \A i \in 1 .. Len(ls[l].held) : ls[l].held[i].kind = l
       /\ l \in {"move", "caret"} => Len(ls[l].held) <= 1

Typed ==
  /\ TidyLanes(lane)
  /\ key_queue \in Seq(Messages)
  /\ active_renderer_fling_count \in Int /\ flush_requested \in BOOLEAN
  /\ Watched(widget) /\ ignore_input_events \in BOOLEAN
  /\ life \in {"up", "dying", "down"} /\ flings \in Nat
  /\ inbox \in Seq(Sound) /\ acks \in Seq(SoundAcks)
  /\ seen \in Seq(UserEvents) /\ Len(seen) <= MaxEvents
  /\ life # "up" => inbox = <<>> /\ acks = <<>> /\ flings = 0
  /\ life = "down" => /\ lane = Fresh /\ key_queue = <<>> /\ seen = <<>>
                      /\ active_renderer_fling_count = 0 /\ widget.count = 0

LEMMA EventType ==
  ASSUME NEW u \in UserEvents, NEW n \in 1 .. MaxEvents
  PROVE  /\ Event(u, n).kind = u.kind /\ Event(u, n).type = u.type
         /\ Event(u, n).of = <<n>> /\ u.kind \in Kinds
         /\ u.kind # "press" => Event(u, n) \in Sound
<1>1. u.kind \in Kinds /\ (u.type = "fling" => u.kind = "gesture") /\ u.type \in Types
  BY RouterAssumption DEF Types
<1>2. <<n>> \in Seq(1 .. MaxEvents)
  OBVIOUS
<1> QED BY <1>1, <1>2 DEF Event, Sound, Messages

LEMMA CoalescedType ==
  ASSUME NEW e \in Sound, NEW f \in Sound
  PROVE  /\ CoalesceWith(e, f) \in Sound /\ CoalesceWith(e, f).kind = f.kind
         /\ CoalesceWith(e, f).type = f.type /\ CoalesceWith(e, f).of = e.of \o f.of
<1>1. e.of \o f.of \in Seq(1 .. MaxEvents)
  BY DEF Sound, Messages
<1> QED BY <1>1 DEF CoalesceWith, Sound, Messages

LEMMA ReplaceLastPlaces ==
  ASSUME NEW E, NEW q \in Seq(E), q # <<>>, NEW e \in E
  PROVE  /\ ReplaceLast(q, e) \in Seq(E) /\ Len(ReplaceLast(q, e)) = Len(q)
         /\ ReplaceLast(q, e)[Len(q)] = e
         /\ \A i \in 1 .. Len(q) - 1 : ReplaceLast(q, e)[i] = q[i]
         /\ Last(q) = q[Len(q)] /\ Last(q) \in E
<1>1. /\ Front(q) \in Seq(E) /\ Len(Front(q)) = Len(q) - 1
      /\ \A i \in 1 .. Len(q) - 1 : Front(q)[i] = q[i]
  <2> DEFINE n     == Len(q) - 1
             front == SubSeq(q, 1, n)
  <2>1. 1 \in Int /\ n \in Nat /\ \A i \in 1 .. n : q[i] \in E
    OBVIOUS
  <2> HIDE DEF n
  <2>2. /\ front \in Seq(E)
        /\ Len(front) = IF 1 <= n THEN n - 1 + 1 ELSE 0
        /\ \A i \in 1 .. n - 1 + 1 : front[i] = q[1 + i - 1]
    BY <2>1, SubSeqProperties
  <2> HIDE DEF front
  <2>3. front \in Seq(E) /\ Len(front) = n /\ \A i \in 1 .. n : front[i] = q[i]
    <3>1. Len(front) = n
      BY <2>1, <2>2
    <3>2. ASSUME NEW i \in 1 .. n PROVE front[i] = q[i]
      <4>1. i \in 1 .. n - 1 + 1 /\ 1 + i - 1 = i
        BY <2>1
      <4> QED BY <2>2, <4>1
    <3> QED BY <2>2, <3>1, <3>2
  <2>4. Front(q) = front
    BY DEF Front, front, n
  <2> QED BY <2>3, <2>4 DEF n
<1>2. Last(q) = q[Len(q)] /\ Last(q) \in E
  BY DEF Last
<1> QED BY <1>1, <1>2 DEF ReplaceLast

\* What is held after e has joined.
LEMMA HoldType ==
  ASSUME NEW l \in Lanes, NEW held \in Seq(Sound), NEW e \in Sound, e.kind = l,
         \A i \in 1 .. Len(held) : held[i].kind = l,
         l \in {"move", "caret"} => Len(held) <= 1
  PROVE  /\ Hold(l, held, e) \in Seq(Sound)
         /\ \A i \in 1 .. Len(Hold(l, held, e)) : Hold(l, held, e)[i].kind = l
         /\ l \in {"move", "caret"} => Len(Hold(l, held, e)) <= 1
<1>1. CASE l = "move" /\ held # <<>>
  <2>1. held[1] \in Sound
    BY <1>1
  <2>2. CoalesceWith(held[1], e) \in Sound /\ CoalesceWith(held[1], e).kind = l
    BY <2>1, CoalescedType
  <2>3. Hold(l, held, e) = <<CoalesceWith(held[1], e)>>
    BY <1>1 DEF Hold
  <2> QED BY <2>2, <2>3
<1>2. CASE (l = "move" /\ held = <<>>) \/ l = "caret"
  <2>1. Hold(l, held, e) = <<e>>
    BY <1>2 DEF Hold
  <2> QED BY <2>1
<1>3. CASE l \in {"wheel", "select", "gesture"}
  <2>1. \/ Hold(l, held, e) = Append(held, e)
        \/ held # <<>> /\ Hold(l, held, e) = ReplaceLast(held, e)
        \/ held # <<>> /\ Hold(l, held, e) = ReplaceLast(held, CoalesceWith(Last(held), e))
    BY <1>3 DEF Hold, JoinsLast
  <2>2. ASSUME NEW f \in Sound, f.kind = l, held # <<>>
        PROVE  /\ ReplaceLast(held, f) \in Seq(Sound)
               /\ \A i \in 1 .. Len(ReplaceLast(held, f)) : ReplaceLast(held, f)[i].kind = l
    <3>1. /\ ReplaceLast(held, f) \in Seq(Sound) /\ Len(ReplaceLast(held, f)) = Len(held)
          /\ ReplaceLast(held, f)[Len(held)] = f
          /\ \A i \in 1 .. Len(held) - 1 : ReplaceLast(held, f)[i] = held[i]
      BY <2>2, ReplaceLastPlaces
    <3> QED BY <2>2, <3>1
  <2>3. held # <<>> => /\ CoalesceWith(Last(held), e) \in Sound
                       /\ CoalesceWith(Last(held), e).kind = l
    <3>1. held # <<>> => Last(held) \in Sound
      BY DEF Last
    <3> QED BY <3>1, CoalescedType
  <2>4. CASE Hold(l, held, e) = Append(held, e)
    BY <1>3, <2>4
  <2>5. CASE held # <<>> /\ Hold(l, held, e) = ReplaceLast(held, e)
    BY <1>3, <2>2, <2>5
  <2>6. CASE held # <<>> /\ Hold(l, held, e) = ReplaceLast(held, CoalesceWith(Last(held), e))
    <3> DEFINE f == CoalesceWith(Last(held), e)
    <3>1. f \in Sound /\ f.kind = l /\ Hold(l, held, e) = ReplaceLast(held, f)
      BY <2>3, <2>6
    <3> HIDE DEF f
    <3> QED BY <1>3, <2>2, <2>6, <3>1
  <2> QED BY <2>1, <2>4, <2>5, <2>6
<1> QED BY <1>1, <1>2, <1>3 DEF Lanes, PointerLanes, EditLanes

\* The lanes after the lane l was drained of k events of q and one more was sent.
Drained(ls, l, q, k) ==
  /\ TidyLanes(ls)
  /\ ls[l].pending = (k < Len(q)) /\ ls[l].held = SubSeq(q, k + 2, Len(q))
  /\ \A m \in Lanes \ {l} :
       /\ ls[m].pending = lane[m].pending
       /\ \/ ls[m].held = lane[m].held
          \/ m = "move" /\ l \in PointerLanes /\ q # <<>> /\ ls[m].held = <<>>
  /\ l \in PointerLanes /\ l # "move" /\ q # <<>> => ls["move"].held = <<>>

LEMMA DrainSteps ==
  ASSUME TidyLanes(lane), NEW l \in Lanes, NEW q \in Seq(Sound),
         \A i \in 1 .. Len(q) : q[i].kind = l,
         l \in {"move", "caret"} => Len(q) <= 1,
         NEW w, NEW count, NEW acked, Drain(l, q, w, count, acked)
  PROVE  \E k \in 0 .. Len(q) :
           /\ Drained(lane', l, q, k)
           /\ k \in Consumed(l, q)
           /\ inbox' = IF k < Len(q) /\ life = "up" THEN Append(inbox, q[k + 1]) ELSE inbox
           /\ widget' = IF k < Len(q) /\ life = "up" /\ l \in PointerLanes
                          THEN IncrementInFlightEventCount(w) ELSE w
           /\ flush_requested' = IF l \in PointerLanes /\ (acked \/ k > 0)
                                   THEN Unsignalled(lane', key_queue, count)
                                   ELSE flush_requested
           /\ offered' = offered \o SubSeq(q, 1, IF k < Len(q) THEN k + 1 ELSE k)
<1>1. PICK k \in Consumed(l, q) :
        LET sends == k < Len(q) /\ life = "up"
            rest  == SubSeq(q, k + 2, Len(q))
            moved == [lane EXCEPT !["move"].held = HeldMove(l, q)]
            lanes == [moved EXCEPT ![l] = [pending |-> StaysPending(q, k), held |-> rest]]
        IN  /\ lane' = lanes
            /\ offered' = offered \o SubSeq(q, 1, IF k < Len(q) THEN k + 1 ELSE k)
            /\ inbox' = IF sends THEN Append(inbox, q[k + 1]) ELSE inbox
            /\ widget' = IF sends /\ l \in PointerLanes
                           THEN IncrementInFlightEventCount(w) ELSE w
            /\ flush_requested' = IF l \in PointerLanes /\ (acked \/ k > 0)
                                    THEN Unsignalled(lanes, key_queue, count)
                                    ELSE flush_requested
  BY DEF Drain
<1> DEFINE rest  == SubSeq(q, k + 2, Len(q))
           mv    == HeldMove(l, q)
           r     == [pending |-> k < Len(q), held |-> rest]
           lanes == [[lane EXCEPT !["move"].held = mv] EXCEPT ![l] = r]
<1>2. k \in 0 .. Len(q)
  <2>1. 0 \in 0 .. Len(q) /\ Len(q) \in 0 .. Len(q)
    OBVIOUS
  <2> QED BY <2>1 DEF Consumed
<1>3. /\ rest \in Seq(Sound) /\ (k >= Len(q) => rest = <<>>)
      /\ \A i \in 1 .. Len(rest) : rest[i].kind = l
      /\ Len(rest) <= Len(q) /\ (Len(q) <= 1 => rest = <<>>)
  <2>1. Len(q) \in Nat /\ k + 2 \in Int /\ Len(q) \in Int
    BY <1>2
  <2>2. \A i \in k + 2 .. Len(q) : q[i] \in Sound
    BY <1>2
  <2>3. /\ rest \in Seq(Sound)
        /\ Len(rest) = IF k + 2 <= Len(q) THEN Len(q) - (k + 2) + 1 ELSE 0
        /\ \A i \in 1 .. Len(q) - (k + 2) + 1 : rest[i] = q[k + 2 + i - 1]
    BY <2>1, <2>2, SubSeqProperties
  <2>4. ASSUME NEW i \in 1 .. Len(rest) PROVE rest[i].kind = l
    <3>1. i \in 1 .. Len(q) - (k + 2) + 1 /\ k + 2 + i - 1 \in 1 .. Len(q)
      BY <1>2, <2>3
    <3> QED BY <2>3, <3>1
  <2>5. (k >= Len(q) => Len(rest) = 0) /\ (Len(q) <= 1 => Len(rest) = 0) /\ Len(rest) <= Len(q)
    BY <1>2, <2>3
  <2>6. Len(rest) = 0 => rest = <<>>
    BY <2>3
  <2> QED BY <2>3, <2>4, <2>5, <2>6
<1>4. "move" \in Lanes /\ l \in Lanes
  BY DEF Lanes, PointerLanes
<1>5. /\ mv = <<>> \/ mv = lane["move"].held
      /\ l # "move" /\ mv # lane["move"].held => l \in PointerLanes /\ q # <<>>
      /\ l # "move" /\ l \in PointerLanes /\ q # <<>> => mv = <<>>
  BY DEF HeldMove
<1>6. lane' = lanes
  BY <1>1 DEF StaysPending
<1> HIDE DEF rest, mv
<1>7. /\ lanes \in [Lanes -> [pending : BOOLEAN, held : Seq(Sound)]]
      /\ lanes[l] = r
      /\ \A m \in Lanes \ {l} :
           lanes[m] = IF m = "move" THEN [pending |-> lane["move"].pending, held |-> mv]
                                    ELSE lane[m]
  <2> DEFINE moved == [lane EXCEPT !["move"].held = mv]
  <2>1. <<>> \in Seq(Sound) /\ lane["move"].held \in Seq(Sound)
    BY <1>4 DEF TidyLanes
  <2>2. mv \in Seq(Sound)
    BY <1>5, <2>1
  <2>3. /\ moved \in [Lanes -> [pending : BOOLEAN, held : Seq(Sound)]]
        /\ \A m \in Lanes :
             moved[m] = IF m = "move" THEN [pending |-> lane["move"].pending, held |-> mv]
                                      ELSE lane[m]
    BY <1>4, <2>2 DEF TidyLanes
  <2>4. r \in [pending : BOOLEAN, held : Seq(Sound)]
    BY <1>3
  <2>5. lanes = [moved EXCEPT ![l] = r]
    OBVIOUS
  <2> HIDE DEF moved, r, lanes
  <2> QED BY <1>4, <2>3, <2>4, <2>5
<1> HIDE DEF lanes
<1>8. \A m \in Lanes :
        /\ lanes[m].held # <<>> => lanes[m].pending
        /\ \A i \in 1 .. Len(lanes[m].held) : lanes[m].held[i].kind = m
        /\ m \in {"move", "caret"} => Len(lanes[m].held) <= 1
  <2> TAKE m \in Lanes
  <2>1. CASE m = l
    BY <1>2, <1>3, <1>7, <2>1
  <2>2. CASE m # l /\ m = "move"
    BY <1>5, <1>7, <2>2 DEF TidyLanes
  <2>3. CASE m # l /\ m # "move"
    BY <1>7, <2>3 DEF TidyLanes
  <2> QED BY <2>1, <2>2, <2>3
<1>9. Drained(lanes, l, q, k)
  <2>1. TidyLanes(lanes)
    BY <1>7, <1>8 DEF TidyLanes
  <2>2. lanes[l].pending = (k < Len(q)) /\ lanes[l].held = rest
    BY <1>7
  <2>3. ASSUME NEW m \in Lanes \ {l}
        PROVE  /\ lanes[m].pending = lane[m].pending
               /\ \/ lanes[m].held = lane[m].held
                  \/ m = "move" /\ l \in PointerLanes /\ q # <<>> /\ lanes[m].held = <<>>
    <3>1. CASE m = "move"
      BY <1>5, <1>7, <3>1
    <3>2. CASE m # "move"
      BY <1>7, <3>2
    <3> QED BY <3>1, <3>2
  <2>4. l \in PointerLanes /\ l # "move" /\ q # <<>> => lanes["move"].held = <<>>
    BY <1>4, <1>5, <1>7
  <2> QED BY <2>1, <2>2, <2>3, <2>4 DEF Drained, rest
<1>10. flush_requested' = IF l \in PointerLanes /\ (acked \/ k > 0)
                            THEN Unsignalled(lanes, key_queue, count)
                            ELSE flush_requested
  BY <1>1 DEF lanes, mv, rest, StaysPending
<1>11. /\ inbox' = IF k < Len(q) /\ life = "up" THEN Append(inbox, q[k + 1]) ELSE inbox
       /\ widget' = IF k < Len(q) /\ life = "up" /\ l \in PointerLanes
                      THEN IncrementInFlightEventCount(w) ELSE w
       /\ offered' = offered \o SubSeq(q, 1, IF k < Len(q) THEN k + 1 ELSE k)
  BY <1>1
<1> QED BY <1>1, <1>2, <1>6, <1>9, <1>10, <1>11

LEMMA UnsignalledType ==
  ASSUME NEW lanes, NEW keys, NEW count
  PROVE  Unsignalled(lanes, keys, count) \in BOOLEAN
  BY DEF Unsignalled

LEMMA DrainTyped ==
  ASSUME Typed, NEW l \in Lanes, NEW q \in Seq(Sound),
         \A i \in 1 .. Len(q) : q[i].kind = l,
         l \in {"move", "caret"} => Len(q) <= 1,
         NEW w, Watched(w), NEW count, NEW acked, Drain(l, q, w, count, acked)
  PROVE  /\ TidyLanes(lane') /\ inbox' \in Seq(Sound) /\ Watched(widget')
         /\ flush_requested' \in BOOLEAN /\ (life # "up" => inbox' = inbox)
<1>1. PICK k \in 0 .. Len(q) :
        /\ Drained(lane', l, q, k)
        /\ inbox' = IF k < Len(q) /\ life = "up" THEN Append(inbox, q[k + 1]) ELSE inbox
        /\ flush_requested' = IF l \in PointerLanes /\ (acked \/ k > 0)
                                THEN Unsignalled(lane', key_queue, count)
                                ELSE flush_requested
  <2>1. TidyLanes(lane)
    BY DEF Typed
  <2> QED BY <2>1, DrainSteps
<1>2. TidyLanes(lane')
  BY <1>1 DEF Drained
<1>3. inbox' \in Seq(Sound)
  <2>1. inbox \in Seq(Sound)
    BY DEF Typed
  <2>2. k < Len(q) => q[k + 1] \in Sound
    BY <1>1
  <2> QED BY <1>1, <2>1, <2>2
<1>4. flush_requested' \in BOOLEAN
  <2>1. flush_requested' = flush_requested \/ flush_requested' = Unsignalled(lane', key_queue, count)
    BY <1>1
  <2>2. flush_requested \in BOOLEAN
    BY DEF Typed
  <2> QED BY <2>1, <2>2, UnsignalledType
<1> QED BY <1>1, <1>2, <1>3, <1>4, DrainWatched

\* One event of class l waits for nothing.
LEMMA AloneType ==
  ASSUME NEW e \in Sound, NEW l, e.kind = l
  PROVE  /\ <<e>> \in Seq(Sound) /\ \A i \in 1 .. Len(<<e>>) : <<e>>[i].kind = l
         /\ Len(<<e>>) = 1 /\ <<e>> # <<>> /\ <<e>>[1] = e
  OBVIOUS

\* Only what one lane holds changes.
LEMMA HeldOnly ==
  ASSUME NEW l \in Lanes, NEW h \in Seq(Sound),
         lane \in [Lanes -> [pending : BOOLEAN, held : Seq(Sound)]],
         lane' = [lane EXCEPT ![l].held = h]
  PROVE  /\ lane' \in [Lanes -> [pending : BOOLEAN, held : Seq(Sound)]]
         /\ lane'[l].held = h /\ lane'[l].pending = lane[l].pending
         /\ \A m \in Lanes \ {l} : lane'[m] = lane[m]
<1> DEFINE r == [pending |-> lane[l].pending, held |-> h]
<1>1. r \in [pending : BOOLEAN, held : Seq(Sound)]
  OBVIOUS
<1>2. lane' = [lane EXCEPT ![l] = r]
  <2>1. lane[l] \in [pending : BOOLEAN, held : Seq(Sound)]
    OBVIOUS
  <2>2. [lane[l] EXCEPT !.held = h] = r
    BY <2>1
  <2>3. lane' = [lane EXCEPT ![l] = [lane[l] EXCEPT !.held = h]]
    OBVIOUS
  <2> HIDE DEF r
  <2> QED BY <2>2, <2>3
<1>3. r.held = h /\ r.pending = lane[l].pending
  OBVIOUS
<1> HIDE DEF r
<1> QED BY <1>1, <1>2, <1>3

\* Only the lane an event joins changes.
LEMMA JoinTyped ==
  ASSUME TidyLanes(lane), NEW l \in Lanes, NEW e \in Sound, e.kind = l, lane[l].pending,
         lane' = [lane EXCEPT ![l].held = Hold(l, @, e)]
  PROVE  /\ TidyLanes(lane')
         /\ lane'[l].held = Hold(l, lane[l].held, e) /\ lane'[l].pending
         /\ \A m \in Lanes \ {l} : lane'[m] = lane[m]
<1> DEFINE h == Hold(l, lane[l].held, e)
<1>1. /\ lane \in [Lanes -> [pending : BOOLEAN, held : Seq(Sound)]]
      /\ lane[l].held \in Seq(Sound)
      /\ \A i \in 1 .. Len(lane[l].held) : lane[l].held[i].kind = l
      /\ l \in {"move", "caret"} => Len(lane[l].held) <= 1
  BY DEF TidyLanes
<1>2. /\ h \in Seq(Sound) /\ \A i \in 1 .. Len(h) : h[i].kind = l
      /\ l \in {"move", "caret"} => Len(h) <= 1
  BY <1>1, HoldType
<1>3. lane' = [lane EXCEPT ![l].held = h]
  OBVIOUS
<1> HIDE DEF h
<1>4. /\ lane' \in [Lanes -> [pending : BOOLEAN, held : Seq(Sound)]]
      /\ lane'[l].held = h /\ lane'[l].pending = lane[l].pending
      /\ \A m \in Lanes \ {l} : lane'[m] = lane[m]
  BY <1>1, <1>2, <1>3, HeldOnly
<1>5. TidyLanes(lane')
  <2>1. ASSUME NEW m \in Lanes
        PROVE  /\ lane'[m].held # <<>> => lane'[m].pending
               /\ \A i \in 1 .. Len(lane'[m].held) : lane'[m].held[i].kind = m
               /\ m \in {"move", "caret"} => Len(lane'[m].held) <= 1
    <3>1. CASE m = l
      BY <1>2, <1>4, <3>1
    <3>2. CASE m # l
      BY <1>4, <3>2 DEF TidyLanes
    <3> QED BY <3>1, <3>2
  <2> QED BY <1>4, <2>1 DEF TidyLanes
<1> QED BY <1>4, <1>5 DEF h

\* The mouse move that is held back is forgotten.
LEMMA ForgetTyped ==
  ASSUME TidyLanes(lane), lane' = [lane EXCEPT !["move"].held = <<>>]
  PROVE  /\ TidyLanes(lane')
         /\ lane'["move"].held = <<>> /\ lane'["move"].pending = lane["move"].pending
         /\ \A m \in Lanes \ {"move"} : lane'[m] = lane[m]
<1>1. "move" \in Lanes /\ <<>> \in Seq(Sound) /\ Len(<<>>) = 0
  BY DEF Lanes, PointerLanes
<1>2. /\ lane' \in [Lanes -> [pending : BOOLEAN, held : Seq(Sound)]]
      /\ lane'["move"].held = <<>> /\ lane'["move"].pending = lane["move"].pending
      /\ \A m \in Lanes \ {"move"} : lane'[m] = lane[m]
  BY <1>1, HeldOnly DEF TidyLanes
<1>3. TidyLanes(lane')
  <2>1. ASSUME NEW m \in Lanes
        PROVE  /\ lane'[m].held # <<>> => lane'[m].pending
               /\ \A i \in 1 .. Len(lane'[m].held) : lane'[m].held[i].kind = m
               /\ m \in {"move", "caret"} => Len(lane'[m].held) <= 1
    <3>1. CASE m = "move"
      BY <1>1, <1>2, <3>1
    <3>2. CASE m # "move"
      BY <1>2, <3>2 DEF TidyLanes
    <3> QED BY <3>1, <3>2
  <2> QED BY <1>2, <2>1 DEF TidyLanes
<1> QED BY <1>2, <1>3

LEMMA FreshTyped == TidyLanes(Fresh)
<1>1. <<>> \in Seq(Sound) /\ Len(<<>>) = 0
  OBVIOUS
<1>2. Fresh \in [Lanes -> [pending : BOOLEAN, held : Seq(Sound)]]
  BY <1>1 DEF Fresh
<1>3. \A l \in Lanes : Fresh[l].held = <<>> /\ ~ Fresh[l].pending
  BY DEF Fresh
<1> QED BY <1>1, <1>2, <1>3 DEF TidyLanes

LEMMA UserInputTyped ==
  ASSUME Typed, UserInput PROVE Typed'
<1>1. PICK u \in UserEvents :
        /\ SendOrHold(u) \/ SendPress(u) \/ SendKeyboardEvent(u)
        /\ seen' = Append(seen, u)
  BY DEF UserInput
<1>2. UNCHANGED <<ignore_input_events, life, flings>> /\ life # "down" /\ Len(seen) < MaxEvents
  BY DEF UserInput
<1> DEFINE n == Len(seen) + 1
           e == Event(u, n)
<1>3. seen \in Seq(UserEvents) /\ n \in 1 .. MaxEvents
  BY <1>2, RouterAssumption DEF Typed
<1>4. seen' \in Seq(UserEvents) /\ Len(seen') <= MaxEvents
  BY <1>1, <1>2, <1>3, RouterAssumption
<1>5. /\ e.kind = u.kind /\ e.of = <<n>> /\ u.kind \in Kinds
      /\ u.kind # "press" => e \in Sound
  BY <1>3, EventType
<1>6. TidyLanes(lane)
  BY DEF Typed
<1>7. Watched(widget')
  <2>1. Watched(widget)
    BY DEF Typed
  <2> QED BY <2>1, UserInputWatched
<1> HIDE DEF e, n
<1>8. /\ TidyLanes(lane') /\ inbox' \in Seq(Sound) /\ flush_requested' \in BOOLEAN
      /\ key_queue' \in Seq(Messages) /\ (life # "up" => inbox' = inbox)
      /\ UNCHANGED <<active_renderer_fling_count, acks>>
  <2>1. CASE SendOrHold(u)
    <3>1. /\ u.kind \in Lanes /\ e \in Sound
          /\ UNCHANGED <<key_queue, active_renderer_fling_count, acks>>
      BY <1>5, <2>1 DEF SendOrHold, Lanes, PointerLanes, EditLanes
    <3>2. CASE lane[u.kind].pending
      <4>1. /\ lane' = [lane EXCEPT ![u.kind].held = Hold(u.kind, @, e)]
            /\ UNCHANGED <<inbox, flush_requested>>
        BY <2>1, <3>2 DEF SendOrHold, e, n
      <4>2. TidyLanes(lane')
        BY <1>5, <1>6, <3>1, <3>2, <4>1, JoinTyped
      <4> QED BY <3>1, <4>1, <4>2 DEF Typed
    <3>3. CASE ~ lane[u.kind].pending
      <4>1. Drain(u.kind, <<e>>, widget, active_renderer_fling_count, FALSE)
        BY <2>1, <3>3 DEF SendOrHold, e, n
      <4>2. /\ <<e>> \in Seq(Sound) /\ Len(<<e>>) <= 1
            /\ \A i \in 1 .. Len(<<e>>) : <<e>>[i].kind = u.kind
        BY <1>5, <3>1, AloneType
      <4>3. Watched(widget)
        BY DEF Typed
      <4>4. /\ TidyLanes(lane') /\ inbox' \in Seq(Sound)
            /\ flush_requested' \in BOOLEAN /\ (life # "up" => inbox' = inbox)
        <5> DEFINE no == FALSE
        <5> HIDE DEF no
        <5>1. Drain(u.kind, <<e>>, widget, active_renderer_fling_count, no)
          BY <4>1 DEF no
        <5> QED BY <3>1, <4>2, <4>3, <5>1, DrainTyped
      <4> QED BY <3>1, <4>4 DEF Typed
    <3> QED BY <3>2, <3>3
  <2>2. CASE SendPress(u)
    <3>1. /\ lane' = [lane EXCEPT !["move"].held = <<>>]
          /\ UNCHANGED <<key_queue, active_renderer_fling_count, inbox, acks>>
          /\ \/ flush_requested' = flush_requested
             \/ flush_requested' = Unsignalled(lane', key_queue, active_renderer_fling_count)
      BY <2>2 DEF SendPress
    <3>2. TidyLanes(lane')
      BY <1>6, <3>1, ForgetTyped
    <3> QED BY <3>1, <3>2, UnsignalledType DEF Typed
  <2>3. CASE SendKeyboardEvent(u)
    <3>1. /\ u.kind = "key" /\ life = "up"
          /\ key_queue' = Append(key_queue, e) /\ inbox' = Append(inbox, e)
          /\ lane' = [lane EXCEPT !["move"].held = <<>>]
          /\ UNCHANGED <<active_renderer_fling_count, flush_requested, acks>>
      BY <2>3 DEF SendKeyboardEvent, e, n
    <3>2. TidyLanes(lane')
      BY <1>6, <3>1, ForgetTyped
    <3>3. e \in Sound /\ e \in Messages
      BY <1>5, <3>1 DEF Sound
    <3> QED BY <3>1, <3>2, <3>3 DEF Typed
  <2> QED BY <1>1, <2>1, <2>2, <2>3
<1> QED BY <1>2, <1>4, <1>7, <1>8 DEF Typed, TidyLanes, Watched

LEMMA HeldType ==
  ASSUME TidyLanes(lane), NEW l \in Lanes
  PROVE  /\ lane[l].held \in Seq(Sound)
         /\ \A i \in 1 .. Len(lane[l].held) : lane[l].held[i].kind = l
         /\ l \in {"move", "caret"} => Len(lane[l].held) <= 1
  BY DEF TidyLanes

LEMMA MessageTyped ==
  ASSUME Typed, OnMessageReceived PROVE Typed'
<1> DEFINE a == Head(acks)
<1>1. /\ OnPointerAck(a) \/ OnKeyAck(a) \/ OnEditAck(a) \/ OnDidStopFlinging(a)
      /\ life = "up" /\ acks # <<>> /\ acks' = Tail(acks)
      /\ UNCHANGED <<ignore_input_events, life, flings, seen>>
  BY DEF OnMessageReceived
<1>2. acks \in Seq(SoundAcks) /\ a \in SoundAcks /\ acks' \in Seq(SoundAcks)
  <2>1. acks \in Seq(SoundAcks)
    BY DEF Typed
  <2> QED BY <1>1, <2>1
<1>3. Watched(widget) /\ Watched(widget') /\ TidyLanes(lane)
  <2>1. Watched(widget) /\ TidyLanes(lane)
    BY DEF Typed
  <2> QED BY <2>1, MessageWatched
<1> HIDE DEF a
<1>4. /\ TidyLanes(lane') /\ inbox' \in Seq(Sound) /\ flush_requested' \in BOOLEAN
      /\ key_queue' \in Seq(Messages) /\ active_renderer_fling_count' \in Int
  <2>1. CASE OnPointerAck(a)
    <3>1. a.kind \in Lanes /\ UNCHANGED key_queue
      BY <2>1 DEF OnPointerAck, Lanes
    <3>2. active_renderer_fling_count' = FlingsAfter(a) /\ FlingsAfter(a) \in Int
      BY <2>1 DEF OnPointerAck, FlingsAfter, Typed
    <3>3. Watched(DecrementInFlightEventCount(widget))
      BY <1>3, DecrementWatched
    <3>4. PICK yes \in BOOLEAN :
            Drain(a.kind, lane[a.kind].held, DecrementInFlightEventCount(widget),
                  FlingsAfter(a), yes)
      BY <2>1, Zenon DEF OnPointerAck
    <3> DEFINE q == lane[a.kind].held
               w == DecrementInFlightEventCount(widget)
               c == FlingsAfter(a)
    <3>5. /\ q \in Seq(Sound) /\ \A i \in 1 .. Len(q) : q[i].kind = a.kind
          /\ a.kind \in {"move", "caret"} => Len(q) <= 1
      BY <1>3, <3>1, HeldType
    <3>6. Drain(a.kind, q, w, c, yes) /\ Watched(w)
      BY <3>3, <3>4
    <3> HIDE DEF q, w, c
    <3>7. TidyLanes(lane') /\ inbox' \in Seq(Sound) /\ flush_requested' \in BOOLEAN
      BY <3>1, <3>5, <3>6, DrainTyped
    <3> QED BY <3>1, <3>2, <3>7 DEF Typed
  <2>2. CASE OnKeyAck(a)
    <3>1. /\ key_queue' = AfterKeyAck(key_queue, a.type)
          /\ UNCHANGED <<lane, active_renderer_fling_count, flush_requested, inbox>>
      BY <2>2 DEF OnKeyAck
    <3>2. key_queue \in Seq(Messages)
      BY DEF Typed
    <3>3. AfterKeyAck(key_queue, a.type) \in Seq(Messages)
      BY <3>2 DEF AfterKeyAck
    <3> QED BY <3>1, <3>3 DEF Typed
  <2>3. CASE OnEditAck(a)
    <3>1. a.kind \in Lanes /\ UNCHANGED <<key_queue, active_renderer_fling_count>>
      BY <2>3 DEF OnEditAck, Lanes
    <3>2. PICK no \in BOOLEAN :
            Drain(a.kind, lane[a.kind].held, widget, active_renderer_fling_count, no)
      BY <2>3, Zenon DEF OnEditAck
    <3> DEFINE q == lane[a.kind].held
    <3>3. /\ q \in Seq(Sound) /\ \A i \in 1 .. Len(q) : q[i].kind = a.kind
          /\ a.kind \in {"move", "caret"} => Len(q) <= 1
      BY <1>3, <3>1, HeldType
    <3>4. Drain(a.kind, q, widget, active_renderer_fling_count, no)
      BY <3>2
    <3> HIDE DEF q
    <3>5. TidyLanes(lane') /\ inbox' \in Seq(Sound) /\ flush_requested' \in BOOLEAN
      BY <1>3, <3>1, <3>3, <3>4, DrainTyped
    <3> QED BY <3>1, <3>5 DEF Typed
  <2>4. CASE OnDidStopFlinging(a)
    <3>1. /\ active_renderer_fling_count' = active_renderer_fling_count - 1
          /\ flush_requested' = Unsignalled(lane, key_queue, active_renderer_fling_count - 1)
          /\ UNCHANGED <<lane, key_queue, inbox>>
      BY <2>4 DEF OnDidStopFlinging
    <3>2. flush_requested' \in BOOLEAN
      BY <3>1, UnsignalledType
    <3> QED BY <3>1, <3>2 DEF Typed
  <2> QED BY <1>1, <2>1, <2>2, <2>3, <2>4 DEF a
<1> QED BY <1>1, <1>2, <1>3, <1>4 DEF Typed, TidyLanes, Watched

\* What an answer of the renderer does to the two queues.
LEMMA AnswerSteps ==
  ASSUME Typed, RendererAnswers
  PROVE  \E i \in 1 .. Len(inbox), yes \in BOOLEAN :
           LET a == [kind |-> inbox[i].kind, type |-> inbox[i].type, of |-> inbox[i].of,
                     consumed |-> yes]
           IN  /\ \A j \in 1 .. i - 1 : inbox[j].kind # inbox[i].kind
               /\ a \in SoundAcks /\ acks' = Append(acks, a)
               /\ flings' = IF yes THEN flings + 1 ELSE flings
               /\ inbox' = RemoveAt(inbox, i) /\ inbox[i] \in Sound /\ life = "up"
               /\ yes => inbox[i].kind = "gesture"
<1>1. PICK i \in DOMAIN inbox : Answer(i)
  BY DEF RendererAnswers
<1>2. inbox \in Seq(Sound) /\ i \in 1 .. Len(inbox) /\ inbox[i] \in Sound /\ life = "up"
  <2>1. inbox \in Seq(Sound)
    BY DEF Typed
  <2> QED BY <1>1, <2>1 DEF RendererAnswers
<1>3. PICK yes \in IF inbox[i].type = "fling" THEN BOOLEAN ELSE {FALSE} :
        /\ acks' = Append(acks, [kind |-> inbox[i].kind, type |-> inbox[i].type,
                                 of |-> inbox[i].of, consumed |-> yes])
        /\ flings' = IF yes THEN flings + 1 ELSE flings
  BY <1>1 DEF Answer
<1>4. yes \in BOOLEAN /\ (yes => inbox[i].type = "fling")
  BY <1>3
<1> DEFINE a == [kind |-> inbox[i].kind, type |-> inbox[i].type, of |-> inbox[i].of,
                 consumed |-> yes]
<1>5. a \in Acks
  BY <1>2, <1>4 DEF Acks, Sound, Messages
<1>6. a.consumed = yes /\ a.type = inbox[i].type /\ a.kind = inbox[i].kind
  OBVIOUS
<1>7. acks' = Append(acks, a)
  BY <1>3
<1> HIDE DEF a
<1>8. a \in SoundAcks
  BY <1>2, <1>4, <1>5, <1>6 DEF SoundAcks, Sound
<1>9. yes => inbox[i].kind = "gesture"
  BY <1>2, <1>4 DEF Sound
<1> QED BY <1>1, <1>2, <1>3, <1>4, <1>7, <1>8, <1>9 DEF Answer, a

LEMMA FlingEndType == [kind |-> "stop", type |-> "stop", of |-> <<>>, consumed |-> FALSE] \in SoundAcks
<1>1. <<>> \in Seq(1 .. MaxEvents)
  OBVIOUS
<1> QED BY <1>1 DEF SoundAcks, Acks

LEMMA NextTyped ==
  ASSUME Typed, [Next]_vars PROVE Typed'
<1>1. CASE UserInput
  BY <1>1, UserInputTyped
<1>2. CASE OnMessageReceived
  BY <1>2, MessageTyped
<1>3. CASE RequestNotificationWhenFlushed
  <2>1. flush_requested' \in BOOLEAN
    BY <1>3 DEF RequestNotificationWhenFlushed, HasPendingEvents
  <2> QED BY <1>3, <2>1 DEF RequestNotificationWhenFlushed, envVars, historyVars, Typed,
                            TidyLanes, Watched
<1>4. CASE WasHidden \/ WasShown \/ HangMonitorFires
  <2>1. Watched(widget')
    <3>1. Watched(widget)
      BY DEF Typed
    <3> QED BY <1>4, <3>1, NextWatched DEF Next
  <2>2. life # "down" \/ widget'.count = widget.count
    BY <1>4 DEF WasHidden, WasShown, HangMonitorFires, Typed, Watched, Widgets
  <2> QED BY <1>4, <2>1, <2>2 DEF WasHidden, WasShown, HangMonitorFires, routerVars, envVars,
                                  historyVars, Typed, TidyLanes, Watched
<1>5. CASE SetIgnoreInputEvents
  BY <1>5 DEF SetIgnoreInputEvents, routerVars, envVars, historyVars, Typed, TidyLanes, Watched
<1>6. CASE RendererAnswers
  <2>1. PICK i \in 1 .. Len(inbox), yes \in BOOLEAN :
          LET a == [kind |-> inbox[i].kind, type |-> inbox[i].type, of |-> inbox[i].of,
                    consumed |-> yes]
          IN  /\ a \in SoundAcks /\ acks' = Append(acks, a)
              /\ flings' = IF yes THEN flings + 1 ELSE flings
              /\ inbox' = RemoveAt(inbox, i) /\ life = "up"
    BY <1>6, AnswerSteps
  <2>2. acks' \in Seq(SoundAcks) /\ flings' \in Nat
    BY <2>1 DEF Typed
  <2>3. inbox' \in Seq(Sound)
    <3>1. inbox \in Seq(Sound)
      BY DEF Typed
    <3> QED BY <2>1, <3>1, RemoveAtPlaces
  <2> QED BY <1>6, <2>1, <2>2, <2>3 DEF RendererAnswers, routerVars, historyVars, Typed,
                                        TidyLanes, Watched
<1>7. CASE FlingEnds
  <2>1. acks' \in Seq(SoundAcks) /\ flings' \in Nat
    BY <1>7, FlingEndType DEF FlingEnds, Typed
  <2> QED BY <1>7, <2>1 DEF FlingEnds, routerVars, historyVars, Typed, TidyLanes, Watched
<1>8. CASE ConnectionLost
  <2>1. /\ inbox' = <<>> /\ acks' = <<>> /\ flings' = 0 /\ life' = "dying"
        /\ inbox' \in Seq(Sound) /\ acks' \in Seq(SoundAcks) /\ flings' \in Nat
    BY <1>8 DEF ConnectionLost
  <2> QED BY <1>8, <2>1 DEF ConnectionLost, routerVars, historyVars, Typed, TidyLanes, Watched
<1>9. CASE RendererExited
  <2>1. Watched(widget') /\ widget'.count = 0
    <3>1. Watched(widget)
      BY DEF Typed
    <3> QED BY <1>9, <3>1, ExitedWatched
            DEF RendererExited, Exited, StopHangMonitorTimeout, Watched, Widgets
  <2>2. /\ lane' = Fresh /\ key_queue' = <<>> /\ seen' = <<>> /\ Len(seen') = 0
        /\ key_queue' \in Seq(Messages) /\ seen' \in Seq(UserEvents)
        /\ active_renderer_fling_count' = 0 /\ flush_requested' = FALSE /\ life' = "down"
        /\ UNCHANGED <<ignore_input_events, inbox, acks, flings>>
        /\ inbox = <<>> /\ acks = <<>> /\ flings = 0
    BY <1>9 DEF RendererExited, Typed
  <2>3. TidyLanes(lane')
    BY <2>2, FreshTyped
  <2>4. MaxEvents \in Nat
    BY RouterAssumption
  <2>5. TidyLanes(lane)'
    BY <2>3 DEF TidyLanes
  <2>6. Watched(widget)'
    BY <2>1 DEF Watched
  <2>7. lane' = Fresh'
    BY <2>2 DEF Fresh
  <2>8. inbox' \in Seq(Sound) /\ acks' \in Seq(SoundAcks) /\ flings' \in Nat
        /\ ignore_input_events' \in BOOLEAN
    BY <2>2 DEF Typed
  <2>9. /\ flush_requested' \in BOOLEAN /\ active_renderer_fling_count' \in Int
        /\ life' \in {"up", "dying", "down"} /\ Len(seen') <= MaxEvents
    <3>1. flush_requested' = FALSE
      BY <2>2
    <3>2. flush_requested' \in BOOLEAN
      BY <3>1, Zenon
    <3>3. Len(seen') <= MaxEvents
      BY <2>2, <2>4
    <3>4. active_renderer_fling_count' \in Int /\ life' \in {"up", "dying", "down"}
      BY <2>2
    <3> QED BY <3>2, <3>3, <3>4
  <2>10. inbox' = <<>> /\ acks' = <<>> /\ flings' = 0
    BY <2>2
  <2> QED BY <2>1, <2>2, <2>5, <2>6, <2>7, <2>8, <2>9, <2>10 DEF Typed
<1>10. CASE Relaunch
  BY <1>10 DEF Relaunch, routerVars, historyVars, Typed, TidyLanes, Watched, Fresh
<1>11. CASE UNCHANGED vars
  BY <1>11 DEF vars, Typed, TidyLanes, Watched, Fresh
<1> QED BY <1>1, <1>2, <1>3, <1>4, <1>5, <1>6, <1>7, <1>8, <1>9, <1>10, <1>11 DEF Next

-----------------------------------------------------------------------------
(* What is unanswered: per class the flag, for all of them the count.      *)

Counted == PointerLanes \cup {"key"}

\* What the renderer owes, with a renderer.
Flight ==
  life = "up" =>
    /\ \A l \in Lanes : Unanswered({l}) = IF lane[l].pending THEN 1 ELSE 0
    /\ widget.count = Unanswered(Counted)

\* Without a debt there is no blame, and a debt is never negative.
Calm(w) == w.count \in Nat /\ (w.count = 0 => ~ w.running /\ ~ w.unresponsive)

LEMMA CountsOfWidget ==
  ASSUME NEW w, Watched(w)
  PROVE  /\ w.count \in Int
         /\ IncrementInFlightEventCount(w).count = w.count + 1
         /\ DecrementInFlightEventCount(w).count = w.count - 1
<1>1. w \in Widgets /\ w.count \in Int
  BY DEF Watched, Widgets
<1>2. IncrementInFlightEventCount(w).count = w.count + 1
  BY <1>1 DEF Widgets, IncrementInFlightEventCount
<1>3. DecrementInFlightEventCount(w).count = w.count - 1
  <2>1. CASE w.count - 1 <= 0
    BY <1>1, <2>1 DEF Widgets, DecrementInFlightEventCount, StopHangMonitorTimeout
  <2>2. CASE ~ (w.count - 1 <= 0)
    BY <1>1, <2>2 DEF Widgets, DecrementInFlightEventCount
  <2> QED BY <2>1, <2>2
<1> QED BY <1>1, <1>2, <1>3

\* A drain leaves one event with the renderer or none, s of them.
HeldFor(l, q) ==
  /\ q \in Seq(Sound) /\ \A i \in 1 .. Len(q) : q[i].kind = l
  /\ l \in {"move", "caret"} => Len(q) <= 1
Sends(l, w, s) ==
  /\ (s = 1 => lane'[l].pending) /\ (s = 0 => ~ lane'[l].pending)
  /\ \A m \in Lanes \ {l} : lane'[m].pending = lane[m].pending
  /\ \A K : Cardinality(OfKind(inbox', K)) =
              Cardinality(OfKind(inbox, K)) + IF l \in K THEN s ELSE 0
  /\ widget'.count = w.count + IF l \in PointerLanes THEN s ELSE 0

LEMMA DrainSends ==
  ASSUME Typed, life = "up", NEW l \in Lanes, NEW q, HeldFor(l, q),
         NEW w, Watched(w), NEW count, NEW acked, Drain(l, q, w, count, acked)
  PROVE  \E s \in {0, 1} : Sends(l, w, s)
<1> USE DEF HeldFor
<1>1. PICK k \in 0 .. Len(q) :
        /\ Drained(lane', l, q, k)
        /\ inbox' = IF k < Len(q) /\ life = "up" THEN Append(inbox, q[k + 1]) ELSE inbox
        /\ widget' = IF k < Len(q) /\ life = "up" /\ l \in PointerLanes
                       THEN IncrementInFlightEventCount(w) ELSE w
  <2>1. TidyLanes(lane)
    BY DEF Typed
  <2> QED BY <2>1, DrainSteps
<1>2. /\ lane'[l].pending = (k < Len(q))
      /\ \A m \in Lanes \ {l} : lane'[m].pending = lane[m].pending
  BY <1>1 DEF Drained
<1>3. inbox \in Seq(Sound) /\ w.count \in Int
  BY CountsOfWidget DEF Typed
<1>4. \A K : Cardinality(OfKind(inbox, K)) \in Nat
  BY <1>3, OfKindOfAny
<1>5. CASE k < Len(q)
  <2>1. q[k + 1].kind = l /\ inbox' = Append(inbox, q[k + 1])
    BY <1>1, <1>5
  <2>2. ASSUME NEW K
        PROVE  Cardinality(OfKind(inbox', K)) =
                 Cardinality(OfKind(inbox, K)) + IF l \in K THEN 1 ELSE 0
    <3> DEFINE m == q[k + 1]
    <3> HIDE DEF m
    <3>1. m.kind = l /\ inbox' = Append(inbox, m)
      BY <2>1 DEF m
    <3>2. Cardinality(OfKind(Append(inbox, m), K)) =
            Cardinality(OfKind(inbox, K)) + IF m.kind \in K THEN 1 ELSE 0
      BY <1>3, OfKindAppend
    <3> QED BY <3>1, <3>2
  <2>3. widget'.count = w.count + IF l \in PointerLanes THEN 1 ELSE 0
    <3>1. CASE l \in PointerLanes
      BY <1>1, <1>5, <3>1, CountsOfWidget
    <3>2. CASE l \notin PointerLanes
      BY <1>1, <1>3, <3>2
    <3> QED BY <3>1, <3>2
  <2>4. lane'[l].pending
    BY <1>2, <1>5
  <2> QED BY <1>2, <2>2, <2>3, <2>4 DEF Sends
<1>6. CASE ~ (k < Len(q))
  <2>1. inbox' = inbox /\ widget' = w
    BY <1>1, <1>6
  <2>2. \A K : Cardinality(OfKind(inbox', K)) =
                 Cardinality(OfKind(inbox, K)) + IF l \in K THEN 0 ELSE 0
    BY <1>4, <2>1
  <2>3. widget'.count = w.count + IF l \in PointerLanes THEN 0 ELSE 0
    BY <1>3, <2>1
  <2>4. ~ lane'[l].pending
    BY <1>2, <1>6
  <2> QED BY <1>2, <2>2, <2>3, <2>4 DEF Sends
<1> QED BY <1>5, <1>6

LEMMA KindSets ==
  /\ Lanes = {"move", "wheel", "gesture", "select", "caret"}
  /\ PointerLanes = {"move", "wheel", "gesture"} /\ EditLanes = {"select", "caret"}
  /\ Counted = {"move", "wheel", "gesture", "key"}
  BY DEF Lanes, PointerLanes, EditLanes, Counted

LEMMA UnansweredType ==
  ASSUME Typed, NEW K
  PROVE  /\ Cardinality(OfKind(acks, K)) \in Nat /\ Cardinality(OfKind(inbox, K)) \in Nat
         /\ Unanswered(K) \in Nat
<1>1. inbox \in Seq(Sound) /\ acks \in Seq(SoundAcks)
  BY DEF Typed
<1>2. Cardinality(OfKind(acks, K)) \in Nat /\ Cardinality(OfKind(inbox, K)) \in Nat
  BY <1>1, OfKindOfAny
<1> QED BY <1>2 DEF Unanswered

LEMMA UserInputFlight ==
  ASSUME Typed, Flight, UserInput PROVE Flight'
<1> SUFFICES ASSUME life' = "up" PROVE Flight'
  BY DEF Flight
<1>1. PICK u \in UserEvents : SendOrHold(u) \/ SendPress(u) \/ SendKeyboardEvent(u)
  BY DEF UserInput
<1>2. life = "up" /\ Len(seen) < MaxEvents
  BY DEF UserInput
<1> DEFINE n == Len(seen) + 1
           e == Event(u, n)
<1>3. n \in 1 .. MaxEvents
  BY <1>2, RouterAssumption DEF Typed
<1>4. /\ e.kind = u.kind /\ u.kind \in Kinds /\ (u.kind # "press" => e \in Sound)
  BY <1>3, EventType
<1>5. TidyLanes(lane) /\ Watched(widget) /\ inbox \in Seq(Sound)
  BY DEF Typed
<1>6. /\ \A l \in Lanes : Unanswered({l}) = IF lane[l].pending THEN 1 ELSE 0
      /\ widget.count = Unanswered(Counted)
  BY <1>2 DEF Flight
<1>7. /\ \A K : Cardinality(OfKind(acks, K)) \in Nat /\ Cardinality(OfKind(inbox, K)) \in Nat
      /\ \A K : Unanswered(K) = Cardinality(OfKind(acks, K)) + Cardinality(OfKind(inbox, K))
      /\ \A K : Unanswered(K)' = Cardinality(OfKind(acks', K)) + Cardinality(OfKind(inbox', K))
  BY UnansweredType DEF Unanswered, OfKind
<1> HIDE DEF e, n
<1>8. CASE SendOrHold(u) /\ lane[u.kind].pending
  <2>1. /\ lane' = [lane EXCEPT ![u.kind].held = Hold(u.kind, @, e)]
        /\ u.kind \in Lanes /\ e \in Sound /\ UNCHANGED <<acks, inbox, widget>>
    BY <1>4, <1>8, KindSets DEF SendOrHold, e, n
  <2>2. \A m \in Lanes : lane'[m].pending = lane[m].pending
    BY <1>4, <1>5, <1>8, <2>1, JoinTyped
  <2> QED BY <1>6, <1>7, <2>1, <2>2 DEF Flight
<1>9. CASE SendOrHold(u) /\ ~ lane[u.kind].pending
  <2>1. /\ Drain(u.kind, <<e>>, widget, active_renderer_fling_count, FALSE)
        /\ u.kind \in Lanes /\ e \in Sound /\ UNCHANGED <<acks>>
    BY <1>4, <1>9, KindSets DEF SendOrHold, e, n
  <2>2. /\ <<e>> \in Seq(Sound) /\ Len(<<e>>) <= 1
        /\ \A i \in 1 .. Len(<<e>>) : <<e>>[i].kind = u.kind
    BY <1>4, <2>1, AloneType
  <2>0. \E s \in {0, 1} : Sends(u.kind, widget, s)
    <3> DEFINE no == FALSE
               q  == <<e>>
    <3> HIDE DEF no
    <3>1. Drain(u.kind, q, widget, active_renderer_fling_count, no)
      BY <2>1 DEF no
    <3>2. HeldFor(u.kind, q)
      BY <2>2 DEF HeldFor
    <3> HIDE DEF q
    <3> QED BY <1>2, <1>5, <2>1, <3>1, <3>2, DrainSends
  <2>3. PICK s \in {0, 1} :
          /\ (s = 1 => lane'[u.kind].pending) /\ (s = 0 => ~ lane'[u.kind].pending)
          /\ \A m \in Lanes \ {u.kind} : lane'[m].pending = lane[m].pending
          /\ \A K : Cardinality(OfKind(inbox', K)) =
                      Cardinality(OfKind(inbox, K)) + IF u.kind \in K THEN s ELSE 0
          /\ widget'.count = widget.count + IF u.kind \in PointerLanes THEN s ELSE 0
    BY <2>0 DEF Sends
  <2>4. \A K : Unanswered(K)' = Unanswered(K) + IF u.kind \in K THEN s ELSE 0
    BY <1>7, <2>1, <2>3
  <2>5. ASSUME NEW l \in Lanes
        PROVE  Unanswered({l})' = IF lane'[l].pending THEN 1 ELSE 0
    <3>1. CASE l = u.kind
      <4>1. /\ Unanswered({l}) = 0
            /\ (s = 1 => lane'[l].pending) /\ (s = 0 => ~ lane'[l].pending)
        BY <1>6, <1>9, <2>3, <3>1
      <4>2. Unanswered({l})' = Unanswered({l}) + s
        BY <2>4, <3>1
      <4>3. CASE s = 0
        <5>1. ~ lane'[l].pending /\ Unanswered({l})' = 0
          BY <4>1, <4>2, <4>3
        <5> QED BY <5>1
      <4>4. CASE s = 1
        <5>1. lane'[l].pending /\ Unanswered({l})' = 1
          BY <4>1, <4>2, <4>4
        <5> QED BY <5>1
      <4> QED BY <4>3, <4>4
    <3>2. CASE l # u.kind
      <4>1. Unanswered({l})' = Unanswered({l}) + 0
        BY <2>4, <3>2
      <4>2. Unanswered({l})' = Unanswered({l})
        BY <1>7, <4>1, UnansweredType
      <4>3. lane'[l].pending = lane[l].pending
        BY <2>3, <3>2
      <4> QED BY <1>6, <4>2, <4>3
    <3> QED BY <3>1, <3>2
  <2>6. u.kind \in Counted <=> u.kind \in PointerLanes
    BY <2>1, KindSets
  <2>7. widget'.count = Unanswered(Counted)'
    BY <1>6, <1>7, <2>3, <2>4, <2>6
  <2> QED BY <2>5, <2>7 DEF Flight
<1>10. CASE SendPress(u)
  <2>1. lane' = [lane EXCEPT !["move"].held = <<>>] /\ UNCHANGED <<acks, inbox, widget>>
    BY <1>10 DEF SendPress
  <2>2. \A m \in Lanes : lane'[m].pending = lane[m].pending
    BY <1>5, <2>1, ForgetTyped
  <2> QED BY <1>6, <1>7, <2>1, <2>2 DEF Flight
<1>11. CASE SendKeyboardEvent(u)
  <2>1. /\ lane' = [lane EXCEPT !["move"].held = <<>>] /\ UNCHANGED <<acks>>
        /\ inbox' = Append(inbox, e) /\ widget' = IncrementInFlightEventCount(widget)
        /\ e.kind = "key"
    BY <1>4, <1>11 DEF SendKeyboardEvent, e, n
  <2>2. \A m \in Lanes : lane'[m].pending = lane[m].pending
    BY <1>5, <2>1, ForgetTyped
  <2>3. \A K : Cardinality(OfKind(inbox', K)) =
                 Cardinality(OfKind(inbox, K)) + IF e.kind \in K THEN 1 ELSE 0
    BY <1>5, <2>1, OfKindAppend
  <2>4. \A K : Unanswered(K)' = Unanswered(K) + IF "key" \in K THEN 1 ELSE 0
    BY <1>7, <2>1, <2>3
  <2>5. \A l \in Lanes : Unanswered({l})' = Unanswered({l})
    BY <1>7, <2>4, KindSets
  <2>6. widget'.count = Unanswered(Counted)'
    BY <1>5, <1>6, <2>1, <2>4, KindSets, CountsOfWidget
  <2> QED BY <1>6, <2>2, <2>5, <2>6 DEF Flight
<1> QED BY <1>1, <1>8, <1>9, <1>10, <1>11

LEMMA MessageFlight ==
  ASSUME Typed, Flight, OnMessageReceived
  PROVE  Flight' /\ (Head(acks).kind \in Counted => widget.count > 0)
<1> DEFINE a == Head(acks)
<1>1. /\ OnPointerAck(a) \/ OnKeyAck(a) \/ OnEditAck(a) \/ OnDidStopFlinging(a)
      /\ life = "up" /\ acks # <<>> /\ acks' = Tail(acks) /\ life' = life
  BY DEF OnMessageReceived
<1>2. TidyLanes(lane) /\ Watched(widget) /\ inbox \in Seq(Sound) /\ acks \in Seq(SoundAcks)
  BY DEF Typed
<1>3. /\ \A l \in Lanes : Unanswered({l}) = IF lane[l].pending THEN 1 ELSE 0
      /\ widget.count = Unanswered(Counted)
  BY <1>1 DEF Flight
<1>4. /\ \A K : Cardinality(OfKind(acks, K)) \in Nat /\ Cardinality(OfKind(inbox, K)) \in Nat
      /\ \A K : Unanswered(K) = Cardinality(OfKind(acks, K)) + Cardinality(OfKind(inbox, K))
      /\ \A K : Unanswered(K)' = Cardinality(OfKind(acks', K)) + Cardinality(OfKind(inbox', K))
      /\ \A K : Unanswered(K) \in Nat
  BY UnansweredType DEF Unanswered, OfKind
<1>5. \A K : Cardinality(OfKind(acks, K)) =
               Cardinality(OfKind(acks', K)) + IF a.kind \in K THEN 1 ELSE 0
  BY <1>1, <1>2, OfKindTail
<1>6. \A K : Cardinality(OfKind(acks', K)) \in Nat
  <2>1. acks' \in Seq(SoundAcks)
    BY <1>1, <1>2
  <2> QED BY <2>1, OfKindOfAny
<1> HIDE DEF a
<1>7. a.kind \in Counted => widget.count > 0
  BY <1>3, <1>4, <1>5, <1>6
\* The lanes and the count after a drain of the lane of the answer.
<1>8. ASSUME a.kind \in Lanes, NEW w, Watched(w), NEW count, NEW acked,
             w.count = widget.count - IF a.kind \in PointerLanes THEN 1 ELSE 0,
             Drain(a.kind, lane[a.kind].held, w, count, acked)
      PROVE  Flight'
  <2> DEFINE q == lane[a.kind].held
  <2>1. HeldFor(a.kind, q)
    BY <1>2, <1>8, HeldType DEF HeldFor
  <2>2. Drain(a.kind, q, w, count, acked)
    BY <1>8
  <2> HIDE DEF q
  <2>0. \E s \in {0, 1} : Sends(a.kind, w, s)
    BY <1>1, <1>8, <2>1, <2>2, DrainSends
  <2>3. PICK s \in {0, 1} :
          /\ (s = 1 => lane'[a.kind].pending) /\ (s = 0 => ~ lane'[a.kind].pending)
          /\ \A m \in Lanes \ {a.kind} : lane'[m].pending = lane[m].pending
          /\ \A K : Cardinality(OfKind(inbox', K)) =
                      Cardinality(OfKind(inbox, K)) + IF a.kind \in K THEN s ELSE 0
          /\ widget'.count = w.count + IF a.kind \in PointerLanes THEN s ELSE 0
    BY <2>0 DEF Sends
  <2>4. \A K : a.kind \in K => Unanswered(K)' = Unanswered(K) - 1 + s
    BY <1>4, <1>5, <1>6, <2>3
  <2>5. \A K : a.kind \notin K => Unanswered(K)' = Unanswered(K)
    BY <1>4, <1>5, <1>6, <2>3
  <2>6. ASSUME NEW l \in Lanes
        PROVE  Unanswered({l})' = IF lane'[l].pending THEN 1 ELSE 0
    <3>1. CASE l = a.kind
      <4>1. Unanswered({l}) \in {0, 1} /\ Unanswered({l}) >= 1
        <5>1. Unanswered({l}) = 0 \/ Unanswered({l}) = 1
          BY <1>3
        <5>2. Cardinality(OfKind(acks, {l})) = Cardinality(OfKind(acks', {l})) + 1
          BY <1>5, <3>1
        <5>3. /\ Cardinality(OfKind(acks', {l})) \in Nat
              /\ Cardinality(OfKind(inbox, {l})) \in Nat
              /\ Unanswered({l}) =
                   Cardinality(OfKind(acks, {l})) + Cardinality(OfKind(inbox, {l}))
          BY <1>4, <1>6
        <5> QED BY <5>1, <5>2, <5>3
      <4>2. Unanswered({l})' = s
        BY <2>4, <3>1, <4>1
      <4> QED BY <2>3, <3>1, <4>2
    <3>2. CASE l # a.kind
      <4>1. Unanswered({l})' = Unanswered({l}) /\ lane'[l].pending = lane[l].pending
        BY <2>3, <2>5, <3>2
      <4> QED BY <1>3, <4>1
    <3> QED BY <3>1, <3>2
  <2>7. widget'.count = Unanswered(Counted)'
    <3>1. CASE a.kind \in PointerLanes
      <4>1. a.kind \in Counted
        BY <3>1, KindSets
      <4>2. w.count = widget.count - 1 /\ widget'.count = w.count + s
        BY <1>8, <2>3, <3>1
      <4> QED BY <1>3, <1>4, <2>4, <4>1, <4>2
    <3>2. CASE a.kind \notin PointerLanes
      <4>1. a.kind \notin Counted
        BY <1>8, <3>2, KindSets
      <4>2. w.count = widget.count /\ widget'.count = w.count
        <5>1. widget.count \in Int
          BY <1>2, CountsOfWidget
        <5>2. w.count = widget.count - 0 /\ widget'.count = w.count + 0
          BY <1>8, <2>3, <3>2
        <5> QED BY <5>1, <5>2
      <4> QED BY <1>3, <2>5, <4>1, <4>2
    <3> QED BY <3>1, <3>2
  <2> QED BY <2>6, <2>7 DEF Flight
<1>9. CASE OnPointerAck(a)
  <2>1. a.kind \in PointerLanes /\ a.kind \in Lanes
    BY <1>9 DEF OnPointerAck, Lanes
  <2> DEFINE w == DecrementInFlightEventCount(widget)
             c == FlingsAfter(a)
  <2>2. Watched(w) /\ w.count = widget.count - 1
    BY <1>2, DecrementWatched, CountsOfWidget
  <2>3. PICK yes \in BOOLEAN : Drain(a.kind, lane[a.kind].held, w, c, yes)
    BY <1>9, Zenon DEF OnPointerAck
  <2>4. w.count = widget.count - IF a.kind \in PointerLanes THEN 1 ELSE 0
    BY <2>1, <2>2
  <2> HIDE DEF w, c
  <2>5. Flight'
    BY <1>8, <2>1, <2>2, <2>3, <2>4
  <2> QED BY <1>7, <2>5 DEF a
<1>10. CASE OnEditAck(a)
  <2>1. a.kind \notin PointerLanes /\ a.kind \in Lanes
    BY <1>10, KindSets DEF OnEditAck
  <2>2. PICK no \in BOOLEAN :
          Drain(a.kind, lane[a.kind].held, widget, active_renderer_fling_count, no)
    BY <1>10, Zenon DEF OnEditAck
  <2>3. widget.count = widget.count - IF a.kind \in PointerLanes THEN 1 ELSE 0
    BY <1>2, <2>1, CountsOfWidget
  <2>4. Flight'
    BY <1>2, <1>8, <2>1, <2>2, <2>3
  <2> QED BY <1>7, <2>4 DEF a
<1>11. CASE OnKeyAck(a)
  <2>1. /\ a.kind = "key" /\ UNCHANGED <<lane, inbox>>
        /\ widget' = DecrementInFlightEventCount(widget)
    BY <1>11 DEF OnKeyAck
  <2>2. Unanswered(Counted)' = Unanswered(Counted) - 1
    BY <1>4, <1>5, <1>6, <2>1, KindSets
  <2>3. widget'.count = widget.count - 1
    BY <1>2, <2>1, CountsOfWidget
  <2>4. \A l \in Lanes : Unanswered({l})' = Unanswered({l})
    <3> TAKE l \in Lanes
    <3>1. l # "key"
      BY KindSets
    <3> QED BY <1>4, <1>5, <1>6, <2>1, <3>1
  <2>5. Flight'
    BY <1>3, <1>4, <2>1, <2>2, <2>3, <2>4 DEF Flight
  <2> QED BY <1>7, <2>5 DEF a
<1>12. CASE OnDidStopFlinging(a)
  <2>1. a.kind = "stop" /\ UNCHANGED <<lane, inbox, widget>>
    BY <1>12 DEF OnDidStopFlinging
  <2>2. \A K : "stop" \notin K => Unanswered(K)' = Unanswered(K)
    BY <1>4, <1>5, <1>6, <2>1
  <2>3. Unanswered(Counted)' = Unanswered(Counted)
    BY <2>2, KindSets
  <2>4. \A l \in Lanes : Unanswered({l})' = Unanswered({l})
    BY <2>2, KindSets
  <2>5. Flight'
    BY <1>3, <2>1, <2>3, <2>4 DEF Flight
  <2> QED BY <1>7, <2>5 DEF a
<1> QED BY <1>1, <1>9, <1>10, <1>11, <1>12 DEF a

LEMMA NextFlight ==
  ASSUME Typed, Flight, [Next]_vars PROVE Flight'
<1>1. CASE UserInput
  BY <1>1, UserInputFlight
<1>2. CASE OnMessageReceived
  BY <1>2, MessageFlight
<1>3. CASE \/ RequestNotificationWhenFlushed \/ SetIgnoreInputEvents \/ UNCHANGED vars
  BY <1>3 DEF RequestNotificationWhenFlushed, SetIgnoreInputEvents, vars, routerVars, envVars,
              Flight, Unanswered, OfKind
<1>4. CASE WasHidden \/ WasShown \/ HangMonitorFires
  <2>1. UNCHANGED <<lane, inbox, acks, life>>
    BY <1>4 DEF WasHidden, WasShown, HangMonitorFires, routerVars, envVars
  <2>2. widget'.count = widget.count
    BY <1>4 DEF WasHidden, WasShown, HangMonitorFires, Shown, StopHangMonitorTimeout, Typed,
                Watched, Widgets
  <2> QED BY <2>1, <2>2 DEF Flight, Unanswered, OfKind
<1>5. CASE RendererAnswers
  <2>1. PICK i \in 1 .. Len(inbox), yes \in BOOLEAN :
          LET a == [kind |-> inbox[i].kind, type |-> inbox[i].type, of |-> inbox[i].of,
                    consumed |-> yes]
          IN  /\ a \in SoundAcks /\ acks' = Append(acks, a)
              /\ inbox' = RemoveAt(inbox, i) /\ life = "up"
    BY <1>5, AnswerSteps
  <2> DEFINE a == [kind |-> inbox[i].kind, type |-> inbox[i].type, of |-> inbox[i].of,
                   consumed |-> yes]
             b == RemoveAt(inbox, i)
  <2>2. a.kind = inbox[i].kind /\ acks' = Append(acks, a) /\ inbox' = b
    BY <2>1
  <2>3. inbox \in Seq(Sound) /\ acks \in Seq(SoundAcks)
    BY DEF Typed
  <2>4. /\ b \in Seq(Sound) /\ Len(b) = Len(inbox) - 1
        /\ \A j \in 1 .. Len(inbox) - 1 : b[j] = IF j < i THEN inbox[j] ELSE inbox[j + 1]
    BY <2>3, RemoveAtPlaces
  <2> HIDE DEF a, b
  <2>5. \A K : Unanswered(K)' = Unanswered(K)
    <3> TAKE K
    <3>1. Cardinality(OfKind(inbox, K)) =
            Cardinality(OfKind(b, K)) + IF inbox[i].kind \in K THEN 1 ELSE 0
      BY <2>3, <2>4, OfKindLess, SMTT(30)
    <3>2. Cardinality(OfKind(Append(acks, a), K)) =
            Cardinality(OfKind(acks, K)) + IF a.kind \in K THEN 1 ELSE 0
      BY <2>3, OfKindAppend
    <3>3. /\ Cardinality(OfKind(acks, K)) \in Nat /\ Cardinality(OfKind(b, K)) \in Nat
      BY <2>3, <2>4, OfKindOfAny
    <3>4. /\ Unanswered(K) = Cardinality(OfKind(acks, K)) + Cardinality(OfKind(inbox, K))
          /\ Unanswered(K)' = Cardinality(OfKind(acks', K)) + Cardinality(OfKind(inbox', K))
      BY DEF Unanswered, OfKind
    <3> QED BY <2>2, <3>1, <3>2, <3>3, <3>4
  <2>6. UNCHANGED <<lane, widget, life>>
    BY <1>5 DEF RendererAnswers, routerVars
  <2> QED BY <2>5, <2>6 DEF Flight
<1>6. CASE FlingEnds
  <2> DEFINE a == [kind |-> "stop", type |-> "stop", of |-> <<>>, consumed |-> FALSE]
  <2>1. acks' = Append(acks, a) /\ a.kind = "stop" /\ UNCHANGED <<lane, widget, life, inbox>>
    BY <1>6 DEF FlingEnds, routerVars
  <2> HIDE DEF a
  <2>2. \A K : "stop" \notin K => Unanswered(K)' = Unanswered(K)
    <3> TAKE K
    <3>1. acks \in Seq(SoundAcks) /\ inbox \in Seq(Sound)
      BY DEF Typed
    <3>2. Cardinality(OfKind(Append(acks, a), K)) =
            Cardinality(OfKind(acks, K)) + IF a.kind \in K THEN 1 ELSE 0
      BY <3>1, OfKindAppend
    <3>3. Cardinality(OfKind(acks, K)) \in Nat
      BY <3>1, OfKindOfAny
    <3>4. /\ Unanswered(K) = Cardinality(OfKind(acks, K)) + Cardinality(OfKind(inbox, K))
          /\ Unanswered(K)' = Cardinality(OfKind(acks', K)) + Cardinality(OfKind(inbox', K))
      BY DEF Unanswered, OfKind
    <3> QED BY <2>1, <3>2, <3>3, <3>4
  <2>3. /\ Unanswered(Counted)' = Unanswered(Counted)
        /\ \A l \in Lanes : Unanswered({l})' = Unanswered({l})
    BY <2>2, KindSets
  <2> QED BY <2>1, <2>3 DEF Flight
<1>7. CASE ConnectionLost \/ RendererExited
  BY <1>7 DEF ConnectionLost, RendererExited, Flight
<1>8. CASE Relaunch
  <2>1. /\ lane = Fresh /\ acks = <<>> /\ inbox = <<>> /\ widget.count = 0
        /\ UNCHANGED <<lane, acks, inbox, widget>>
    BY <1>8 DEF Relaunch, Typed, routerVars
  <2>2. \A K : Unanswered(K) = 0
    BY <2>1, OfKindEmpty DEF Unanswered
  <2>3. \A K : Unanswered(K)' = Unanswered(K)
    BY <2>1 DEF Unanswered, OfKind
  <2>4. \A l \in Lanes : ~ lane[l].pending
    BY <2>1 DEF Fresh
  <2> QED BY <2>1, <2>2, <2>3, <2>4 DEF Flight
<1> QED BY <1>1, <1>2, <1>3, <1>4, <1>5, <1>6, <1>7, <1>8 DEF Next

LEMMA DrainWidget ==
  ASSUME NEW l, NEW q, NEW w, NEW count, NEW acked, Drain(l, q, w, count, acked)
  PROVE  widget' = w \/ widget' = IncrementInFlightEventCount(w)
  BY DEF Drain

LEMMA IncrementCalm ==
  ASSUME NEW w, Watched(w), Calm(w) PROVE Calm(IncrementInFlightEventCount(w))
<1>1. IncrementInFlightEventCount(w).count = w.count + 1 /\ w.count \in Nat
  BY CountsOfWidget DEF Calm
<1> QED BY <1>1 DEF Calm

LEMMA DecrementCalm ==
  ASSUME NEW w, Watched(w), Calm(w), w.count > 0 PROVE Calm(DecrementInFlightEventCount(w))
<1>1. DecrementInFlightEventCount(w).count = w.count - 1 /\ w.count \in Nat
  BY CountsOfWidget DEF Calm
<1>2. CASE w.count - 1 <= 0
  <2> DEFINE v == [w EXCEPT !.count = w.count - 1]
  <2>1. v \in Widgets
    BY <1>1 DEF Watched, Widgets
  <2>2. DecrementInFlightEventCount(w) = StopHangMonitorTimeout(v)
    BY <1>2 DEF DecrementInFlightEventCount
  <2> HIDE DEF v
  <2>3. ~ StopHangMonitorTimeout(v).running /\ ~ StopHangMonitorTimeout(v).unresponsive
    BY <2>1 DEF Widgets, StopHangMonitorTimeout
  <2>4. w.count - 1 \in Nat
    BY <1>1
  <2> QED BY <1>1, <2>2, <2>3, <2>4 DEF Calm
<1>3. CASE ~ (w.count - 1 <= 0)
  <2>1. w.count - 1 \in Nat /\ w.count - 1 # 0
    BY <1>1, <1>3
  <2> QED BY <1>1, <2>1 DEF Calm
<1> QED BY <1>2, <1>3

LEMMA NextCalm ==
  ASSUME Typed, Flight, Calm(widget), [Next]_vars PROVE Calm(widget')
<1>1. Watched(widget) /\ widget \in Widgets
  BY DEF Typed, Watched
<1>2. CASE UserInput
  <2>1. PICK u \in UserEvents : SendOrHold(u) \/ SendPress(u) \/ SendKeyboardEvent(u)
    BY <1>2 DEF UserInput
  <2>2. widget' = widget \/ widget' = IncrementInFlightEventCount(widget)
    <3>1. CASE SendOrHold(u) /\ ~ lane[u.kind].pending
      <4>1. PICK no \in BOOLEAN :
              Drain(u.kind, <<Event(u, Len(seen) + 1)>>, widget, active_renderer_fling_count, no)
        BY <3>1, Zenon DEF SendOrHold
      <4> QED BY <4>1, DrainWidget
    <3>2. CASE SendOrHold(u) /\ lane[u.kind].pending
      BY <3>2 DEF SendOrHold
    <3>3. CASE SendPress(u) \/ SendKeyboardEvent(u)
      BY <3>3 DEF SendPress, SendKeyboardEvent
    <3> QED BY <2>1, <3>1, <3>2, <3>3
  <2> QED BY <1>1, <2>2, IncrementCalm
<1>3. CASE OnMessageReceived
  <2> DEFINE a == Head(acks)
             w == DecrementInFlightEventCount(widget)
  <2>1. OnPointerAck(a) \/ OnKeyAck(a) \/ OnEditAck(a) \/ OnDidStopFlinging(a)
    BY <1>3 DEF OnMessageReceived
  <2>2. a.kind \in Counted => Watched(w) /\ Calm(w)
    BY <1>1, <1>3, MessageFlight, DecrementWatched, DecrementCalm
  <2> HIDE DEF w, a
  <2>3. CASE OnPointerAck(a)
    <3>1. a.kind \in Counted
      BY <2>3 DEF OnPointerAck, Counted
    <3>2. PICK yes \in BOOLEAN : Drain(a.kind, lane[a.kind].held, w, FlingsAfter(a), yes)
      BY <2>3, Zenon DEF OnPointerAck, w
    <3>3. widget' = w \/ widget' = IncrementInFlightEventCount(w)
      BY <3>2, DrainWidget
    <3> QED BY <2>2, <3>1, <3>3, IncrementCalm
  <2>4. CASE OnKeyAck(a)
    <3>1. a.kind \in Counted /\ widget' = w
      BY <2>4 DEF OnKeyAck, Counted, w
    <3> QED BY <2>2, <3>1
  <2>5. CASE OnEditAck(a)
    <3>1. PICK no \in BOOLEAN :
            Drain(a.kind, lane[a.kind].held, widget, active_renderer_fling_count, no)
      BY <2>5, Zenon DEF OnEditAck
    <3>2. widget' = widget \/ widget' = IncrementInFlightEventCount(widget)
      BY <3>1, DrainWidget
    <3> QED BY <1>1, <3>2, IncrementCalm
  <2>6. CASE OnDidStopFlinging(a)
    BY <2>6 DEF OnDidStopFlinging
  <2> QED BY <2>1, <2>3, <2>4, <2>5, <2>6
<1>4. CASE WasHidden
  BY <1>1, <1>4 DEF WasHidden, StopHangMonitorTimeout, Calm, Widgets
<1>5. CASE WasShown
  <2>1. widget'.count = widget.count /\ widget'.unresponsive = widget.unresponsive
    BY <1>1, <1>5 DEF WasShown, Shown, Widgets
  <2>2. widget.count = 0 => ~ widget'.running
    BY <1>1, <1>5 DEF WasShown, Shown, Widgets, Calm
  <2> QED BY <2>1, <2>2 DEF Calm
<1>6. CASE HangMonitorFires
  BY <1>1, <1>6 DEF HangMonitorFires, Calm, Widgets
<1>7. CASE RendererExited
  BY <1>1, <1>7 DEF RendererExited, Exited, StopHangMonitorTimeout, Calm, Widgets
<1>8. CASE \/ RequestNotificationWhenFlushed \/ SetIgnoreInputEvents
           \/ RendererAnswers \/ FlingEnds \/ ConnectionLost \/ Relaunch
  BY <1>8 DEF RequestNotificationWhenFlushed, SetIgnoreInputEvents, RendererAnswers, FlingEnds,
              ConnectionLost, Relaunch
<1>9. CASE UNCHANGED vars
  BY <1>9 DEF vars
<1> QED BY <1>2, <1>3, <1>4, <1>5, <1>6, <1>7, <1>8, <1>9 DEF Next

-----------------------------------------------------------------------------
(* Flings: what the answers under way still change in the browser's count. *)

Change(a) == (IF a.consumed THEN 1 ELSE 0) - (IF a.kind = "stop" THEN 1 ELSE 0)

\* The answers in q, taken one by one, lead from one count of flings to another,
\* and none of them would take it below zero.
Chain(q, from, to) ==
  \E f \in [0 .. Len(q) -> Nat] :
    /\ f[0] = from /\ f[Len(q)] = to
    /\ \A i \in 1 .. Len(q) : f[i] = f[i - 1] + Change(q[i])

Started(q) == {i \in DOMAIN q : q[i].consumed}

\* The browser's count is off by what is under way.
Balance(q, from, to) ==
  from + Cardinality(Started(q)) = to + Cardinality(OfKind(q, {"stop"}))

FlingsKnown ==
  /\ active_renderer_fling_count \in Nat
  /\ life = "up" => /\ Chain(acks, active_renderer_fling_count, flings)
                    /\ Balance(acks, active_renderer_fling_count, flings)

LEMMA ChainEmpty == Chain(<<>>, 0, 0) /\ Balance(<<>>, 0, 0)
<1>1. Chain(<<>>, 0, 0)
  <2> DEFINE f == [i \in 0 .. 0 |-> 0]
  <2>1. f \in [0 .. 0 -> Nat] /\ f[0] = 0
    OBVIOUS
  <2>2. Len(<<>>) = 0
    OBVIOUS
  <2> HIDE DEF f
  <2> QED BY <2>1, <2>2 DEF Chain
<1>2. Started(<<>>) = {}
  BY DEF Started
<1>3. Cardinality(Started(<<>>)) = 0
  BY <1>2, FS_EmptySet
<1> QED BY <1>1, <1>3, OfKindEmpty DEF Balance

LEMMA ChainAppend ==
  ASSUME NEW q \in Seq(SoundAcks), NEW a \in SoundAcks, NEW from \in Nat, NEW to \in Nat,
         Chain(q, from, to), to + Change(a) \in Nat
  PROVE  Chain(Append(q, a), from, to + Change(a))
<1> DEFINE n == Len(q)
           p == Append(q, a)
<1>1. PICK f \in [0 .. n -> Nat] :
        f[0] = from /\ f[n] = to /\ \A i \in 1 .. n : f[i] = f[i - 1] + Change(q[i])
  BY DEF Chain
<1>2. /\ n \in Nat /\ Len(p) = n + 1 /\ p[n + 1] = a
      /\ \A i \in 1 .. n : p[i] = q[i]
  OBVIOUS
<1> DEFINE g == [i \in 0 .. n + 1 |-> IF i <= n THEN f[i] ELSE to + Change(a)]
<1> HIDE DEF n, p
<1>3. /\ g \in [0 .. n + 1 -> Nat] /\ g[0] = from /\ g[n + 1] = to + Change(a)
      /\ \A i \in 0 .. n : g[i] = f[i]
  BY <1>1, <1>2
<1>4. ASSUME NEW i \in 1 .. n + 1 PROVE g[i] = g[i - 1] + Change(p[i])
  <2>1. CASE i \in 1 .. n
    BY <1>1, <1>2, <1>3, <2>1
  <2>2. CASE i = n + 1
    <3>1. i - 1 = n /\ g[n] = to
      BY <1>1, <1>2, <1>3, <2>2
    <3> QED BY <1>2, <1>3, <2>2, <3>1
  <2> QED BY <1>2, <2>1, <2>2
<1> HIDE DEF g
<1> QED BY <1>2, <1>3, <1>4 DEF Chain, p

LEMMA ChainTail ==
  ASSUME NEW q \in Seq(SoundAcks), q # <<>>, NEW from \in Nat, NEW to \in Nat,
         Chain(q, from, to)
  PROVE  from + Change(Head(q)) \in Nat /\ Chain(Tail(q), from + Change(Head(q)), to)
<1> DEFINE n == Len(q)
           p == Tail(q)
<1>1. PICK f \in [0 .. n -> Nat] :
        f[0] = from /\ f[n] = to /\ \A i \in 1 .. n : f[i] = f[i - 1] + Change(q[i])
  BY DEF Chain
<1>2. /\ n \in Nat /\ n >= 1 /\ Len(p) = n - 1 /\ Head(q) = q[1]
      /\ \A i \in 1 .. n - 1 : p[i] = q[i + 1]
  BY TailPlaces
<1>3. f[1] = from + Change(Head(q)) /\ f[1] \in Nat
  <2>1. 1 \in 1 .. n /\ 1 - 1 = 0 /\ 1 \in 0 .. n
    BY <1>2
  <2>2. f[1] = f[1 - 1] + Change(q[1])
    BY <1>1, <2>1
  <2> QED BY <1>1, <1>2, <2>1, <2>2
<1> DEFINE g == [i \in 0 .. n - 1 |-> f[i + 1]]
<1> HIDE DEF n, p
<1>4. /\ g \in [0 .. n - 1 -> Nat] /\ g[0] = f[1] /\ g[n - 1] = to
      /\ \A i \in 0 .. n - 1 : g[i] = f[i + 1]
  BY <1>1, <1>2
<1>5. ASSUME NEW i \in 1 .. n - 1 PROVE g[i] = g[i - 1] + Change(p[i])
  <2>1. g[i] = f[i + 1] /\ g[i - 1] = f[i] /\ i + 1 \in 1 .. n /\ (i + 1) - 1 = i
    <3>1. i \in 0 .. n - 1 /\ i - 1 \in 0 .. n - 1 /\ (i - 1) + 1 = i
      BY <1>2
    <3> QED BY <1>2, <1>4, <3>1
  <2>2. f[i + 1] = f[(i + 1) - 1] + Change(q[i + 1])
    BY <1>1, <2>1
  <2> QED BY <1>2, <2>1, <2>2
<1> HIDE DEF g
<1>6. Chain(p, f[1], to)
  BY <1>2, <1>4, <1>5 DEF Chain
<1> QED BY <1>3, <1>6 DEF p

LEMMA BalanceAppend ==
  ASSUME NEW q \in Seq(SoundAcks), NEW a \in SoundAcks, NEW from \in Nat, NEW to \in Nat,
         Balance(q, from, to)
  PROVE  Balance(Append(q, a), from, to + Change(a))
<1> DEFINE n == Len(q) + 1
           S == Started(q)
           T == Started(Append(q, a))
<1>1. /\ DOMAIN Append(q, a) = 1 .. n /\ Append(q, a)[n] = a /\ n \notin DOMAIN q
      /\ \A i \in DOMAIN q : Append(q, a)[i] = q[i]
      /\ DOMAIN q = 1 .. Len(q) /\ 1 .. n = (1 .. Len(q)) \cup {n}
  OBVIOUS
<1>2. T = S \cup IF a.consumed THEN {n} ELSE {}
  BY <1>1 DEF Started
<1>3. IsFiniteSet(S) /\ n \notin S /\ Cardinality(S) \in Nat
  <2>1. S \subseteq 1 .. Len(q)
    BY DEF Started
  <2>2. IsFiniteSet(S)
    BY <2>1, FS_Interval, FS_Subset, SMTT(30)
  <2> QED BY <2>1, <2>2, FS_CardinalityType
<1> HIDE DEF n, S, T
<1>4. Cardinality(T) = Cardinality(S) + IF a.consumed THEN 1 ELSE 0
  <2>1. CASE a.consumed
    <3>1. T = S \cup {n}
      BY <1>2, <2>1
    <3>2. Cardinality(S \cup {n}) = Cardinality(S) + 1
      BY <1>3, FS_AddElement
    <3> QED BY <2>1, <3>1, <3>2
  <2>2. CASE ~ a.consumed
    <3>1. T = S
      BY <1>2, <2>2
    <3> QED BY <1>3, <2>2, <3>1
  <2> QED BY <2>1, <2>2
<1>5. /\ Cardinality(OfKind(Append(q, a), {"stop"})) =
           Cardinality(OfKind(q, {"stop"})) + IF a.kind = "stop" THEN 1 ELSE 0
      /\ Cardinality(OfKind(q, {"stop"})) \in Nat
  <2>1. a.kind \in {"stop"} <=> a.kind = "stop"
    OBVIOUS
  <2> QED BY <2>1, OfKindAppend, OfKindOfAny
<1>6. from + Cardinality(S) = to + Cardinality(OfKind(q, {"stop"}))
  BY DEF Balance, S
<1>7. from + Cardinality(T) = (to + Change(a)) + Cardinality(OfKind(Append(q, a), {"stop"}))
  BY <1>3, <1>4, <1>5, <1>6 DEF Change
<1> QED BY <1>7 DEF Balance, T

LEMMA BalanceTail ==
  ASSUME NEW q \in Seq(SoundAcks), q # <<>>, NEW from \in Nat, NEW to \in Nat,
         Balance(q, from, to)
  PROVE  Balance(Tail(q), from + Change(Head(q)), to)
<1> DEFINE S == Started(q)
           T == Started(Tail(q))
           a == Head(q)
           n == Len(q)
<1>1. /\ Tail(q) \in Seq(SoundAcks) /\ Len(Tail(q)) = n - 1 /\ 1 \in 1 .. n /\ n \in Nat
      /\ \A j \in 1 .. n - 1 : Tail(q)[j] = q[j + 1]
      /\ a = q[1]
  BY TailPlaces
<1>2. /\ S = {i \in 1 .. n : q[i].consumed}
      /\ T = {i \in 1 .. n - 1 : q[i + 1].consumed}
  BY <1>1 DEF Started
<1> HIDE DEF S, T, n, a
<1>3. S \in SUBSET (1 .. n) /\ (1 \in S <=> a.consumed)
  BY <1>1, <1>2
<1>4. Without(S, 1, T)
  BY <1>1, <1>2 DEF Without
<1>5. /\ Cardinality(S) = Cardinality(T) + (IF 1 \in S THEN 1 ELSE 0)
      /\ Cardinality(T) \in Nat
  <2>1. PICK one \in 1 .. n : one = 1
    BY <1>1
  <2>2. S \in SUBSET (1 .. n) /\ Without(S, one, T)
    BY <1>3, <1>4, <2>1
  <2>3. /\ Cardinality(S) = Cardinality(T) + (IF one \in S THEN 1 ELSE 0)
        /\ Cardinality(T) \in Nat
    BY <1>1, <2>2, OneLess
  <2> QED BY <2>1, <2>3
<1>6. /\ Cardinality(OfKind(q, {"stop"})) =
           Cardinality(OfKind(Tail(q), {"stop"})) + IF a.kind = "stop" THEN 1 ELSE 0
      /\ Cardinality(OfKind(Tail(q), {"stop"})) \in Nat
  <2>1. a.kind \in {"stop"} <=> a.kind = "stop"
    OBVIOUS
  <2> QED BY <1>1, <2>1, OfKindTail, OfKindOfAny DEF a
<1>7. from + Cardinality(S) = to + Cardinality(OfKind(q, {"stop"}))
  BY DEF Balance, S
<1>8. (from + Change(a)) + Cardinality(T) = to + Cardinality(OfKind(Tail(q), {"stop"}))
  <2>1. CASE a.consumed
    BY <1>3, <1>5, <1>6, <1>7, <2>1, SMTT(30) DEF Change
  <2>2. CASE ~ a.consumed
    BY <1>3, <1>5, <1>6, <1>7, <2>2, SMTT(30) DEF Change
  <2> QED BY <2>1, <2>2
<1> QED BY <1>8 DEF Balance, T, a

LEMMA NextFlings ==
  ASSUME Typed, FlingsKnown, [Next]_vars PROVE FlingsKnown'
<1>1. acks \in Seq(SoundAcks) /\ flings \in Nat /\ active_renderer_fling_count \in Nat
  BY DEF Typed, FlingsKnown
<1>2. CASE UserInput
  <2>1. UNCHANGED <<active_renderer_fling_count, acks, life, flings>>
    BY <1>2 DEF UserInput, SendOrHold, SendPress, SendKeyboardEvent
  <2> QED BY <2>1 DEF FlingsKnown, Chain, Balance, Started, OfKind, Change
<1>3. CASE OnMessageReceived
  <2> DEFINE a == Head(acks)
  <2>1. /\ OnPointerAck(a) \/ OnKeyAck(a) \/ OnEditAck(a) \/ OnDidStopFlinging(a)
        /\ life = "up" /\ acks # <<>> /\ acks' = Tail(acks) /\ UNCHANGED <<life, flings>>
    BY <1>3 DEF OnMessageReceived
  <2>2. a \in SoundAcks
    BY <1>1, <2>1
  <2>3. a.consumed \in BOOLEAN /\ (a.consumed => a.type = "fling" /\ a.kind = "gesture")
    BY <2>2 DEF SoundAcks, Acks
  <2>4. /\ Chain(acks, active_renderer_fling_count, flings)
        /\ Balance(acks, active_renderer_fling_count, flings)
    BY <2>1 DEF FlingsKnown
  <2> DEFINE c == active_renderer_fling_count + Change(a)
  <2>5. c \in Nat /\ Chain(Tail(acks), c, flings) /\ Balance(Tail(acks), c, flings)
    BY <1>1, <2>1, <2>4, ChainTail, BalanceTail
  <2> HIDE DEF a
  <2>6. active_renderer_fling_count' = c
    <3>1. CASE OnPointerAck(a)
      <4>1. a.kind # "stop" /\ active_renderer_fling_count' = FlingsAfter(a)
        BY <3>1, KindSets DEF OnPointerAck
      <4> QED BY <1>1, <2>3, <4>1 DEF FlingsAfter, Change
    <3>2. CASE OnKeyAck(a) \/ OnEditAck(a)
      <4>1. /\ a.kind # "stop" /\ a.kind # "gesture"
            /\ active_renderer_fling_count' = active_renderer_fling_count
        BY <3>2, KindSets DEF OnKeyAck, OnEditAck
      <4> QED BY <1>1, <2>3, <4>1 DEF Change
    <3>3. CASE OnDidStopFlinging(a)
      <4>1. /\ a.kind = "stop" /\ a.kind # "gesture"
            /\ active_renderer_fling_count' = active_renderer_fling_count - 1
        BY <3>3 DEF OnDidStopFlinging
      <4> QED BY <1>1, <2>3, <4>1 DEF Change
    <3> QED BY <2>1, <3>1, <3>2, <3>3 DEF a
  <2> HIDE DEF c
  <2>7. Chain(acks', active_renderer_fling_count', flings')
    BY <2>1, <2>5, <2>6
  <2>8. Balance(acks', active_renderer_fling_count', flings')
    BY <2>1, <2>5, <2>6
  <2> QED BY <2>5, <2>6, <2>7, <2>8 DEF FlingsKnown, Chain, Balance, Started, OfKind, Change
<1>4. CASE \/ RequestNotificationWhenFlushed \/ SetIgnoreInputEvents \/ WasHidden
           \/ WasShown \/ HangMonitorFires \/ UNCHANGED vars
  <2>1. UNCHANGED <<active_renderer_fling_count, acks, life, flings>>
    BY <1>4 DEF RequestNotificationWhenFlushed, SetIgnoreInputEvents, WasHidden, WasShown,
                HangMonitorFires, routerVars, envVars, vars
  <2> QED BY <2>1 DEF FlingsKnown, Chain, Balance, Started, OfKind, Change
<1>5. CASE RendererAnswers
  <2>1. PICK i \in 1 .. Len(inbox), yes \in BOOLEAN :
          LET a == [kind |-> inbox[i].kind, type |-> inbox[i].type, of |-> inbox[i].of,
                    consumed |-> yes]
          IN  /\ a \in SoundAcks /\ acks' = Append(acks, a)
              /\ flings' = IF yes THEN flings + 1 ELSE flings
              /\ life = "up" /\ inbox[i] \in Sound
    BY <1>5, AnswerSteps
  <2> DEFINE a == [kind |-> inbox[i].kind, type |-> inbox[i].type, of |-> inbox[i].of,
                   consumed |-> yes]
  <2>2. /\ a.kind = inbox[i].kind /\ acks' = Append(acks, a) /\ a.consumed = yes
        /\ a \in SoundAcks
    BY <2>1
  <2>3. inbox[i].kind # "stop"
    BY <2>1, KindSets DEF Sound, Messages, Kinds
  <2>4. flings' = flings + Change(a) /\ flings + Change(a) \in Nat
    BY <1>1, <2>1, <2>2, <2>3 DEF Change
  <2> HIDE DEF a
  <2>5. /\ Chain(acks, active_renderer_fling_count, flings)
        /\ Balance(acks, active_renderer_fling_count, flings)
    BY <2>1 DEF FlingsKnown
  <2>6. /\ Chain(acks', active_renderer_fling_count, flings')
        /\ Balance(acks', active_renderer_fling_count, flings')
    BY <1>1, <2>2, <2>4, <2>5, ChainAppend, BalanceAppend
  <2>7. UNCHANGED active_renderer_fling_count
    BY <1>5 DEF RendererAnswers, routerVars
  <2> QED BY <1>1, <2>6, <2>7 DEF FlingsKnown, Chain, Balance, Started, OfKind, Change
<1>6. CASE FlingEnds
  <2> DEFINE a == [kind |-> "stop", type |-> "stop", of |-> <<>>, consumed |-> FALSE]
  <2>1. /\ acks' = Append(acks, a) /\ a.kind = "stop" /\ ~ a.consumed /\ a \in SoundAcks
        /\ flings > 0 /\ flings' = flings - 1 /\ life = "up"
        /\ UNCHANGED active_renderer_fling_count
    BY <1>6, FlingEndType DEF FlingEnds, routerVars
  <2> HIDE DEF a
  <2>2. flings' = flings + Change(a) /\ flings + Change(a) \in Nat
    BY <1>1, <2>1 DEF Change
  <2>3. /\ Chain(acks, active_renderer_fling_count, flings)
        /\ Balance(acks, active_renderer_fling_count, flings)
    BY <2>1 DEF FlingsKnown
  <2>4. /\ Chain(acks', active_renderer_fling_count, flings')
        /\ Balance(acks', active_renderer_fling_count, flings')
    BY <1>1, <2>1, <2>2, <2>3, ChainAppend, BalanceAppend
  <2> QED BY <1>1, <2>1, <2>4 DEF FlingsKnown, Chain, Balance, Started, OfKind, Change
<1>7. CASE ConnectionLost \/ RendererExited
  BY <1>1, <1>7 DEF ConnectionLost, RendererExited, routerVars, FlingsKnown
<1>8. CASE Relaunch
  <2>1. /\ acks = <<>> /\ flings = 0 /\ active_renderer_fling_count = 0
        /\ UNCHANGED <<active_renderer_fling_count, acks, flings>>
    BY <1>8 DEF Relaunch, Typed, routerVars
  <2>2. /\ Chain(acks', active_renderer_fling_count', flings')
        /\ Balance(acks', active_renderer_fling_count', flings')
    BY <2>1, ChainEmpty
  <2> QED BY <2>1, <2>2 DEF FlingsKnown, Chain, Balance, Started, OfKind, Change
<1> QED BY <1>2, <1>3, <1>4, <1>5, <1>6, <1>7, <1>8 DEF Next

-----------------------------------------------------------------------------
(* No class of events waits for what does not come.                        *)

Marked == latest \in 0 .. Len(seen)

LEMMA NextMarked ==
  ASSUME Typed, Marked, [Next]_vars PROVE Marked'
<1>1. seen \in Seq(UserEvents) /\ Len(seen) \in Nat
  BY DEF Typed
<1>2. CASE UserInput
  <2>1. PICK u \in UserEvents : seen' = Append(seen, u)
    BY <1>2 DEF UserInput
  <2>2. Len(seen') = Len(seen) + 1
    BY <1>1, <2>1
  <2>3. latest' = Len(seen') \/ latest' = latest
    BY <1>2 DEF UserInput, Mark
  <2> QED BY <1>1, <2>2, <2>3 DEF Marked
<1>3. CASE OnMessageReceived
  <2>1. seen' = seen /\ (latest' = Len(seen') \/ latest' = latest)
    BY <1>3 DEF OnMessageReceived, Mark
  <2> QED BY <1>1, <2>1 DEF Marked
<1>4. CASE RendererExited
  <2>1. seen' = <<>> /\ latest' = 0 /\ Len(seen') = 0
    BY <1>4 DEF RendererExited
  <2> QED BY <2>1 DEF Marked
<1>5. CASE \/ RequestNotificationWhenFlushed \/ WasHidden \/ WasShown \/ HangMonitorFires
           \/ SetIgnoreInputEvents \/ RendererAnswers \/ FlingEnds \/ ConnectionLost
           \/ Relaunch \/ UNCHANGED vars
  BY <1>5 DEF RequestNotificationWhenFlushed, WasHidden, WasShown, HangMonitorFires,
              SetIgnoreInputEvents, RendererAnswers, FlingEnds, ConnectionLost, Relaunch,
              historyVars, vars, Marked
<1> QED BY <1>2, <1>3, <1>4, <1>5 DEF Next

Ledger == Typed /\ Flight /\ Calm(widget) /\ FlingsKnown /\ Marked

LEMMA InitLedger == Init => Ledger
<1> SUFFICES ASSUME Init PROVE Ledger
  OBVIOUS
<1>1. /\ lane = Fresh /\ key_queue = <<>> /\ active_renderer_fling_count = 0
      /\ flush_requested = FALSE /\ ignore_input_events = FALSE /\ life = "up"
      /\ inbox = <<>> /\ acks = <<>> /\ flings = 0 /\ seen = <<>> /\ latest = 0
      /\ widget = [count |-> 0, running |-> FALSE, unresponsive |-> FALSE, hidden |-> FALSE]
  BY DEF Init
<1>2. Watched(widget) /\ Calm(widget) /\ widget.count = 0
  <2> DEFINE w == [count |-> 0, running |-> FALSE, unresponsive |-> FALSE, hidden |-> FALSE]
  <2>1. w \in Widgets
    BY DEF Widgets
  <2>2. w.count = 0 /\ ~ w.running /\ ~ w.unresponsive /\ ~ w.hidden
    OBVIOUS
  <2> HIDE DEF w
  <2>3. Watched(w) /\ Calm(w)
    BY <2>1, <2>2 DEF Watched, Calm
  <2> QED BY <1>1, <2>2, <2>3 DEF w
<1>3. TidyLanes(lane) /\ \A l \in Lanes : ~ lane[l].pending
  BY <1>1, FreshTyped DEF Fresh
<1>4. /\ key_queue \in Seq(Messages) /\ inbox \in Seq(Sound) /\ acks \in Seq(SoundAcks)
      /\ seen \in Seq(UserEvents) /\ Len(seen) = 0
  BY <1>1
<1>5. flush_requested \in BOOLEAN /\ ignore_input_events \in BOOLEAN
  BY <1>1, Zenon
<1>6. Len(seen) <= MaxEvents
  BY <1>4, RouterAssumption
<1>7. active_renderer_fling_count \in Int /\ life \in {"up", "dying", "down"} /\ flings \in Nat
  BY <1>1
<1>8. Typed
  BY <1>1, <1>2, <1>3, <1>4, <1>5, <1>6, <1>7 DEF Typed
<1>9. Flight
  <2>1. \A K : Unanswered(K) = 0
    BY <1>1, OfKindEmpty DEF Unanswered
  <2> QED BY <1>2, <1>3, <2>1 DEF Flight
<1>10. FlingsKnown
  BY <1>1, ChainEmpty DEF FlingsKnown
<1>11. Marked
  BY <1>1, <1>4 DEF Marked
<1> QED BY <1>2, <1>8, <1>9, <1>10, <1>11 DEF Ledger

LEMMA NextLedger == Ledger /\ [Next]_vars => Ledger'
<1> SUFFICES ASSUME Ledger, [Next]_vars PROVE Ledger'
  OBVIOUS
<1>1. Typed /\ Flight /\ Calm(widget) /\ FlingsKnown /\ Marked
  BY DEF Ledger
<1>2. Typed' /\ Flight' /\ FlingsKnown' /\ Marked'
  BY <1>1, NextTyped, NextFlight, NextFlings, NextMarked
<1>3. Calm(widget')
  BY <1>1, NextCalm
<1>4. Calm(widget)'
  BY <1>3 DEF Calm
<1> QED BY <1>2, <1>4 DEF Ledger

LEMMA LedgerAlways == Spec => []Ledger
  BY InitLedger, NextLedger, PTL DEF Spec

LEMMA LedgerTypes == Ledger => TypeOK
<1> SUFFICES ASSUME Ledger PROVE TypeOK
  OBVIOUS
<1>1. Typed /\ Calm(widget) /\ FlingsKnown /\ Marked
  BY DEF Ledger
<1>2. /\ TidyLanes(lane) /\ key_queue \in Seq(Messages) /\ flush_requested \in BOOLEAN
      /\ Watched(widget) /\ ignore_input_events \in BOOLEAN
      /\ life \in {"up", "dying", "down"} /\ flings \in Nat
      /\ inbox \in Seq(Sound) /\ acks \in Seq(SoundAcks) /\ seen \in Seq(UserEvents)
  BY <1>1 DEF Typed
<1>3. inbox \in Seq(Messages)
  <2>1. Sound \subseteq Messages
    BY DEF Sound
  <2> QED BY <1>2, <2>1
<1>4. acks \in Seq(Acks)
  <2>1. SoundAcks \subseteq Acks
    BY DEF SoundAcks
  <2> QED BY <1>2, <2>1
<1>5. lane \in [Lanes -> [pending : BOOLEAN, held : Seq(Messages)]]
  <2>1. Sound \subseteq Messages
    BY DEF Sound
  <2>2. \A s \in Seq(Sound) : s \in Seq(Messages)
    BY <2>1
  <2>3. [pending : BOOLEAN, held : Seq(Sound)] \subseteq [pending : BOOLEAN, held : Seq(Messages)]
    BY <2>2
  <2>4. lane \in [Lanes -> [pending : BOOLEAN, held : Seq(Sound)]]
    BY <1>2 DEF TidyLanes
  <2> QED BY <2>3, <2>4
<1>6. Len(lane["move"].held) <= 1 /\ Len(lane["caret"].held) <= 1
  BY <1>2, KindSets DEF TidyLanes
<1>7. widget \in [count : Nat, running : BOOLEAN, unresponsive : BOOLEAN, hidden : BOOLEAN]
  BY <1>1, <1>2 DEF Watched, Widgets, Calm
<1>8. active_renderer_fling_count \in Nat /\ latest \in 0 .. Len(seen)
  BY <1>1 DEF FlingsKnown, Marked
<1> QED BY <1>2, <1>3, <1>4, <1>5, <1>6, <1>7, <1>8 DEF TypeOK

\* However the user's events, the answers, crashes and reloads interleave, and
\* for any number of events: a class is marked pending exactly while one event
\* of it is with the renderer, and holds events back only then.
THEOREM NoLaneIsStuck == Spec => []LanesAreSound
<1>1. Ledger => LanesAreSound
  <2> SUFFICES ASSUME Ledger PROVE LanesAreSound
    OBVIOUS
  <2>1. PendingHasFlight
    <3>1. Flight /\ TidyLanes(lane)
      BY DEF Ledger, Typed
    <3> QED BY <3>1 DEF Flight, PendingHasFlight, TidyLanes
  <2> QED BY <2>1, LedgerTypes DEF LanesAreSound
<1> QED BY <1>1, LedgerAlways, PTL

-----------------------------------------------------------------------------
(* Keys: those the router keeps are those the renderer has not answered.   *)

Keyed(q)   == OfKind(q, {"key"})
Num(m)     == m.of[1]
KeyNums(q) == {Num(q[i]) : i \in Keyed(q)}

\* A key event stands for one user event of s, and they come in order.
Ordered(q, s) ==
  /\ \A i \in Keyed(q) : /\ Num(q[i]) \in 1 .. Len(s) /\ q[i].of = <<Num(q[i])>>
                         /\ q[i].type = s[Num(q[i])].type
  /\ \A i, j \in Keyed(q) : i < j => Num(q[i]) < Num(q[j])

Keys ==
  /\ Keyed(key_queue) = DOMAIN key_queue
  /\ Ordered(key_queue, seen) /\ Ordered(acks, seen) /\ Ordered(inbox, seen)
  /\ \A a \in KeyNums(acks), b \in KeyNums(inbox) : a < b
  /\ life = "up" => KeyNums(key_queue) = KeyNums(acks) \cup KeyNums(inbox)

LEMMA OrderedGrows ==
  ASSUME NEW q, NEW s \in Seq(UserEvents), NEW u \in UserEvents, Ordered(q, s)
  PROVE  Ordered(q, Append(s, u))
<1>1. /\ Len(Append(s, u)) = Len(s) + 1 /\ Len(s) \in Nat
      /\ \A i \in 1 .. Len(s) : Append(s, u)[i] = s[i]
  OBVIOUS
<1> DEFINE t == Append(s, u)
<1> HIDE DEF t
<1>2. /\ Len(t) = Len(s) + 1 /\ Len(s) \in Nat /\ \A i \in 1 .. Len(s) : t[i] = s[i]
  BY <1>1 DEF t
<1>3. Ordered(q, t)
  BY <1>2 DEF Ordered
<1> QED BY <1>3 DEF t

LEMMA KeyNumsType ==
  ASSUME NEW q, NEW s \in Seq(UserEvents), Ordered(q, s)
  PROVE  KeyNums(q) \subseteq 1 .. Len(s) /\ Len(s) \in Nat
  BY DEF Ordered, KeyNums

LEMMA OrderedEmpty ==
  ASSUME NEW s
  PROVE  Ordered(<<>>, s) /\ KeyNums(<<>>) = {} /\ Keyed(<<>>) = {}
<1>1. Keyed(<<>>) = {}
  BY OfKindEmpty DEF Keyed
<1> QED BY <1>1 DEF Ordered, KeyNums

LEMMA AppendPlaces ==
  ASSUME NEW E, NEW q \in Seq(E), NEW m
  PROVE  /\ Append(q, m)[Len(q) + 1] = m /\ Len(q) \in Nat /\ Len(Append(q, m)) = Len(q) + 1
         /\ \A i \in 1 .. Len(q) : Append(q, m)[i] = q[i]
         /\ Keyed(Append(q, m)) = Keyed(q) \cup IF m.kind = "key" THEN {Len(q) + 1} ELSE {}
         /\ Keyed(q) \subseteq 1 .. Len(q)
<1>1. /\ Append(q, m)[Len(q) + 1] = m /\ Len(q) \in Nat /\ Len(Append(q, m)) = Len(q) + 1
      /\ \A i \in 1 .. Len(q) : Append(q, m)[i] = q[i]
  OBVIOUS
<1>2. Keyed(q) \subseteq 1 .. Len(q)
  BY OfKindOfAny DEF Keyed
<1>3. Keyed(Append(q, m)) = Keyed(q) \cup IF m.kind \in {"key"} THEN {Len(q) + 1} ELSE {}
  BY OfKindAppend DEF Keyed
<1>4. m.kind \in {"key"} <=> m.kind = "key"
  OBVIOUS
<1> QED BY <1>1, <1>2, <1>3, <1>4

LEMMA AppendOther ==
  ASSUME NEW E, NEW q \in Seq(E), NEW m, m.kind # "key", NEW s, Ordered(q, s)
  PROVE  Ordered(Append(q, m), s) /\ KeyNums(Append(q, m)) = KeyNums(q)
<1> DEFINE p == Append(q, m)
<1>1. /\ \A i \in 1 .. Len(q) : p[i] = q[i]
      /\ Keyed(p) = Keyed(q) /\ Keyed(q) \subseteq 1 .. Len(q)
  <2>1. /\ \A i \in 1 .. Len(q) : p[i] = q[i]
        /\ Keyed(p) = Keyed(q) \cup IF m.kind = "key" THEN {Len(q) + 1} ELSE {}
        /\ Keyed(q) \subseteq 1 .. Len(q)
    BY AppendPlaces
  <2> HIDE DEF p
  <2>2. Keyed(p) = Keyed(q) \cup {}
    BY <2>1
  <2> QED BY <2>1, <2>2
<1> HIDE DEF p
<1>2. \A i \in Keyed(q) : p[i] = q[i]
  BY <1>1
<1>3. Ordered(p, s) /\ KeyNums(p) = KeyNums(q)
  BY <1>1, <1>2 DEF Ordered, KeyNums
<1> QED BY <1>3 DEF p

LEMMA AppendKey ==
  ASSUME NEW E, NEW q \in Seq(E), NEW m, m.kind = "key", NEW s \in Seq(UserEvents),
         Ordered(q, s), Num(m) \in 1 .. Len(s), m.of = <<Num(m)>>, m.type = s[Num(m)].type,
         \A x \in KeyNums(q) : x < Num(m)
  PROVE  Ordered(Append(q, m), s) /\ KeyNums(Append(q, m)) = KeyNums(q) \cup {Num(m)}
<1> DEFINE p == Append(q, m)
           n == Len(q) + 1
<1>1. /\ \A i \in 1 .. Len(q) : p[i] = q[i]
      /\ p[n] = m /\ n \in Nat /\ Len(q) \in Nat
      /\ Keyed(p) = Keyed(q) \cup {n} /\ Keyed(q) \subseteq 1 .. Len(q)
  BY AppendPlaces
<1> HIDE DEF p
<1>2. \A i \in Keyed(q) : p[i] = q[i] /\ i < n /\ i \in Nat /\ Num(q[i]) < Num(m)
  BY <1>1 DEF KeyNums
<1> HIDE DEF n
<1>3. KeyNums(p) = KeyNums(q) \cup {Num(m)}
  BY <1>1, <1>2 DEF KeyNums
<1>4. Ordered(p, s)
  <2>1. ASSUME NEW i \in Keyed(p)
        PROVE  /\ Num(p[i]) \in 1 .. Len(s) /\ p[i].of = <<Num(p[i])>>
               /\ p[i].type = s[Num(p[i])].type
    <3>1. CASE i \in Keyed(q)
      BY <1>2, <3>1 DEF Ordered
    <3>2. CASE i = n
      BY <1>1, <3>2
    <3> QED BY <1>1, <3>1, <3>2
  <2>2. ASSUME NEW i \in Keyed(p), NEW j \in Keyed(p), i < j PROVE Num(p[i]) < Num(p[j])
    <3>1. CASE i \in Keyed(q) /\ j \in Keyed(q)
      BY <1>2, <2>2, <3>1 DEF Ordered
    <3>2. CASE i \in Keyed(q) /\ j = n
      BY <1>1, <1>2, <3>2
    <3>3. CASE i = n
      <4>1. j = n \/ j < n
        BY <1>1, <1>2
      <4>2. j \in Nat
        BY <1>1, <1>2
      <4> QED BY <1>1, <2>2, <3>3, <4>1, <4>2
    <3> QED BY <1>1, <3>1, <3>2, <3>3
  <2> QED BY <2>1, <2>2 DEF Ordered
<1> QED BY <1>3, <1>4 DEF p

\* p is q without its i-th message.
LessPlaces(q, i, p) ==
  /\ Len(p) = Len(q) - 1
  /\ \A j \in 1 .. Len(q) - 1 : p[j] = IF j < i THEN q[j] ELSE q[j + 1]

LEMMA LessKeys ==
  ASSUME NEW E, NEW q \in Seq(E), NEW i \in 1 .. Len(q), NEW p \in Seq(E), LessPlaces(q, i, p),
         NEW s \in Seq(UserEvents), Ordered(q, s)
  PROVE  /\ Ordered(p, s)
         /\ KeyNums(p) = KeyNums(q) \ (IF q[i].kind = "key" THEN {Num(q[i])} ELSE {})
         /\ (q[i].kind = "key" /\ \A j \in 1 .. i - 1 : q[j].kind # "key")
              => Num(q[i]) \in KeyNums(q) /\ \A x \in KeyNums(p) : Num(q[i]) < x
<1> DEFINE up(j) == IF j < i THEN j ELSE j + 1
<1>1. Len(q) \in Nat
  OBVIOUS
<1>2. /\ Keyed(q) = {j \in 1 .. Len(q) : q[j].kind = "key"}
      /\ Keyed(p) = {j \in 1 .. Len(q) - 1 : p[j].kind = "key"}
  BY DEF Keyed, OfKind, LessPlaces
<1>3. \A j \in Keyed(p) :
        /\ up(j) \in Keyed(q) /\ up(j) # i /\ p[j] = q[up(j)] /\ j \in Nat /\ up(j) \in Nat
  <2> TAKE j \in Keyed(p)
  <2>1. /\ j \in 1 .. Len(q) - 1 /\ p[j].kind = "key"
        /\ p[j] = IF j < i THEN q[j] ELSE q[j + 1]
    BY <1>2 DEF LessPlaces
  <2>2. CASE j < i
    <3>1. up(j) = j /\ j \in 1 .. Len(q) /\ q[j].kind = "key" /\ p[j] = q[j]
      BY <1>1, <2>1, <2>2
    <3> QED BY <1>2, <2>2, <3>1
  <2>3. CASE ~ (j < i)
    <3>1. up(j) = j + 1 /\ j + 1 \in 1 .. Len(q) /\ q[j + 1].kind = "key" /\ p[j] = q[j + 1]
      BY <1>1, <2>1, <2>3
    <3>2. j + 1 # i /\ j \in Nat /\ j + 1 \in Nat
      BY <2>1, <2>3
    <3> HIDE DEF up
    <3> QED BY <1>2, <3>1, <3>2
  <2> QED BY <2>2, <2>3
<1>4. \A k \in Keyed(q) : k # i => \E j \in Keyed(p) : up(j) = k
  <2> TAKE k \in Keyed(q)
  <2> SUFFICES ASSUME k # i PROVE \E j \in Keyed(p) : up(j) = k
    OBVIOUS
  <2>1. k \in 1 .. Len(q)
    BY <1>2
  <2>2. CASE k < i
    <3>1. k \in 1 .. Len(q) - 1 /\ p[k] = q[k]
      BY <1>1, <2>1, <2>2 DEF LessPlaces
    <3> QED BY <1>2, <2>2, <3>1
  <2>3. CASE ~ (k < i)
    <3>1. k - 1 \in 1 .. Len(q) - 1 /\ ~ (k - 1 < i) /\ (k - 1) + 1 = k
      BY <1>1, <2>1, <2>3
    <3>2. p[k - 1] = q[k]
      BY <3>1 DEF LessPlaces
    <3>3. k - 1 \in Keyed(p) /\ up(k - 1) = k
      BY <1>2, <3>1, <3>2
    <3> QED BY <3>3
  <2> QED BY <2>2, <2>3
<1>5. \A j, k \in Keyed(p) : j < k => up(j) < up(k)
  BY <1>3
<1> HIDE DEF up
<1>6. Ordered(p, s)
  <2>1. \A j \in Keyed(p) : /\ Num(p[j]) \in 1 .. Len(s) /\ p[j].of = <<Num(p[j])>>
                            /\ p[j].type = s[Num(p[j])].type
    BY <1>3 DEF Ordered
  <2>2. \A j, k \in Keyed(p) : j < k => Num(p[j]) < Num(p[k])
    BY <1>3, <1>5 DEF Ordered
  <2> QED BY <2>1, <2>2 DEF Ordered
<1>7. KeyNums(p) = {Num(q[k]) : k \in Keyed(q) \ {i}}
  BY <1>3, <1>4 DEF KeyNums
<1>8. \A j, k \in Keyed(q) : /\ j \in Nat /\ k \in Nat /\ Num(q[j]) \in Nat
                             /\ (j < k => Num(q[j]) < Num(q[k]))
  BY <1>2 DEF Ordered
<1>9. KeyNums(p) = KeyNums(q) \ (IF q[i].kind = "key" THEN {Num(q[i])} ELSE {})
  <2>1. CASE q[i].kind = "key"
    <3>1. i \in Keyed(q)
      BY <1>2, <2>1
    <3>2. \A k \in Keyed(q) \ {i} : Num(q[k]) # Num(q[i])
      <4> TAKE k \in Keyed(q) \ {i}
      <4>1. k < i \/ i < k
        BY <1>8, <3>1
      <4> QED BY <1>8, <3>1, <4>1
    <3>3. {Num(q[k]) : k \in Keyed(q) \ {i}} = KeyNums(q) \ {Num(q[i])}
      BY <3>1, <3>2 DEF KeyNums
    <3> QED BY <1>7, <2>1, <3>3
  <2>2. CASE q[i].kind # "key"
    <3>1. i \notin Keyed(q)
      BY <1>2, <2>2
    <3>2. {Num(q[k]) : k \in Keyed(q) \ {i}} = KeyNums(q)
      BY <3>1 DEF KeyNums
    <3> QED BY <1>7, <2>2, <3>2
  <2> QED BY <2>1, <2>2
<1>10. ASSUME q[i].kind = "key", \A j \in 1 .. i - 1 : q[j].kind # "key"
       PROVE  Num(q[i]) \in KeyNums(q) /\ \A x \in KeyNums(p) : Num(q[i]) < x
  <2>1. i \in Keyed(q)
    BY <1>2, <1>10
  <2>2. \A k \in Keyed(q) \ {i} : i < k
    BY <1>1, <1>2, <1>10
  <2> QED BY <1>7, <1>8, <2>1, <2>2 DEF KeyNums
<1> QED BY <1>6, <1>9, <1>10

\* A drain brings the renderer events of its own class only.
LEMMA DrainInbox ==
  ASSUME Typed, NEW l \in Lanes, NEW q \in Seq(Sound),
         \A i \in 1 .. Len(q) : q[i].kind = l,
         l \in {"move", "caret"} => Len(q) <= 1,
         NEW w, NEW count, NEW acked, Drain(l, q, w, count, acked)
  PROVE  inbox' = inbox \/ \E m \in Sound : m.kind # "key" /\ inbox' = Append(inbox, m)
<1>1. PICK k \in 0 .. Len(q) :
        inbox' = IF k < Len(q) /\ life = "up" THEN Append(inbox, q[k + 1]) ELSE inbox
  <2>1. TidyLanes(lane)
    BY DEF Typed
  <2> QED BY <2>1, DrainSteps
<1>2. l # "key"
  BY KindSets
<1>3. CASE k < Len(q) /\ life = "up"
  <2>1. q[k + 1] \in Sound /\ q[k + 1].kind = l /\ inbox' = Append(inbox, q[k + 1])
    BY <1>1, <1>3
  <2> QED BY <1>2, <2>1
<1>4. CASE ~ (k < Len(q) /\ life = "up")
  BY <1>1, <1>4
<1> QED BY <1>3, <1>4

\* No key is sent and none is answered.
LEMMA KeysQuiet ==
  ASSUME Typed, Keys, UNCHANGED <<key_queue, life>>,
         acks' = acks \/ (acks # <<>> /\ Head(acks).kind # "key" /\ acks' = Tail(acks)),
         inbox' = inbox \/ \E m \in Sound : m.kind # "key" /\ inbox' = Append(inbox, m),
         seen' = seen \/ \E u \in UserEvents : seen' = Append(seen, u)
  PROVE  Keys'
<1>1. /\ key_queue \in Seq(Messages) /\ inbox \in Seq(Sound) /\ acks \in Seq(SoundAcks)
      /\ seen \in Seq(UserEvents)
  BY DEF Typed
<1>2. /\ Keyed(key_queue) = DOMAIN key_queue
      /\ Ordered(key_queue, seen) /\ Ordered(acks, seen) /\ Ordered(inbox, seen)
      /\ \A a \in KeyNums(acks), b \in KeyNums(inbox) : a < b
      /\ life = "up" => KeyNums(key_queue) = KeyNums(acks) \cup KeyNums(inbox)
  BY DEF Keys
<1>3. Ordered(acks', seen) /\ KeyNums(acks') = KeyNums(acks)
  <2>1. CASE acks' = acks
    BY <1>2, <2>1
  <2>2. CASE acks # <<>> /\ Head(acks).kind # "key" /\ acks' = Tail(acks)
    <3> DEFINE p == Tail(acks)
    <3>1. PICK one \in 1 .. Len(acks) : one = 1
      BY <1>1, <2>2
    <3>2. /\ p \in Seq(SoundAcks) /\ LessPlaces(acks, one, p) /\ acks[one].kind # "key"
      BY <1>1, <2>2, <3>1, TailPlaces DEF LessPlaces
    <3> HIDE DEF p
    <3>3. /\ Ordered(p, seen)
          /\ KeyNums(p) = KeyNums(acks) \ (IF acks[one].kind = "key" THEN {Num(acks[one])} ELSE {})
      BY <1>1, <1>2, <3>2, LessKeys
    <3>4. KeyNums(p) = KeyNums(acks) \ {}
      BY <3>2, <3>3
    <3> QED BY <2>2, <3>3, <3>4 DEF p
  <2> QED BY <2>1, <2>2
<1>4. Ordered(inbox', seen) /\ KeyNums(inbox') = KeyNums(inbox)
  <2>1. CASE inbox' = inbox
    BY <1>2, <2>1
  <2>2. CASE \E m \in Sound : m.kind # "key" /\ inbox' = Append(inbox, m)
    BY <1>1, <1>2, <2>2, AppendOther
  <2> QED BY <2>1, <2>2
<1>5. \A q : Ordered(q, seen) => Ordered(q, seen')
  <2>1. CASE seen' = seen
    BY <2>1
  <2>2. CASE \E u \in UserEvents : seen' = Append(seen, u)
    BY <1>1, <2>2, OrderedGrows
  <2> QED BY <2>1, <2>2
<1>6. Ordered(key_queue', seen') /\ Ordered(acks', seen') /\ Ordered(inbox', seen')
  BY <1>2, <1>3, <1>4, <1>5
<1>7. /\ KeyNums(key_queue') = KeyNums(key_queue)
      /\ Keyed(key_queue') = DOMAIN key_queue'
  BY <1>2
<1> QED BY <1>2, <1>3, <1>4, <1>6, <1>7 DEF Keys, KeyNums, Keyed, Ordered, Num, OfKind

LEMMA UserInputKeys ==
  ASSUME Typed, Keys, UserInput PROVE Keys'
<1>1. PICK u \in UserEvents :
        /\ SendOrHold(u) \/ SendPress(u) \/ SendKeyboardEvent(u)
        /\ seen' = Append(seen, u)
  BY DEF UserInput
<1>2. life' = life /\ Len(seen) < MaxEvents
  BY DEF UserInput
<1> DEFINE n == Len(seen) + 1
           e == Event(u, n)
<1>3. n \in 1 .. MaxEvents /\ seen \in Seq(UserEvents)
  BY <1>2, RouterAssumption DEF Typed
<1>4. /\ e.kind = u.kind /\ u.kind \in Kinds /\ (u.kind # "press" => e \in Sound)
      /\ e.of = <<n>> /\ e.type = u.type
  BY <1>3, EventType
<1> HIDE DEF e, n
<1>5. CASE SendOrHold(u) \/ SendPress(u)
  <2>1. UNCHANGED <<key_queue, acks>>
    BY <1>5 DEF SendOrHold, SendPress
  <2>2. inbox' = inbox \/ \E m \in Sound : m.kind # "key" /\ inbox' = Append(inbox, m)
    <3>1. CASE SendOrHold(u) /\ ~ lane[u.kind].pending
      <4> DEFINE q == <<e>>
      <4>1. u.kind \in Lanes /\ e \in Sound
        BY <1>4, <3>1, KindSets DEF SendOrHold
      <4>2. PICK no \in BOOLEAN : Drain(u.kind, q, widget, active_renderer_fling_count, no)
        BY <3>1, Zenon DEF SendOrHold, e, n
      <4>3. /\ q \in Seq(Sound) /\ \A i \in 1 .. Len(q) : q[i].kind = u.kind
            /\ u.kind \in {"move", "caret"} => Len(q) <= 1
        BY <1>4, <4>1, AloneType
      <4> HIDE DEF q
      <4> QED BY <4>1, <4>2, <4>3, DrainInbox
    <3>2. CASE SendOrHold(u) /\ lane[u.kind].pending
      BY <3>2 DEF SendOrHold
    <3>3. CASE SendPress(u)
      BY <3>3 DEF SendPress
    <3> QED BY <1>5, <3>1, <3>2, <3>3
  <2> QED BY <1>1, <1>2, <2>1, <2>2, KeysQuiet
<1>6. CASE SendKeyboardEvent(u)
  <2>1. /\ key_queue' = Append(key_queue, e) /\ inbox' = Append(inbox, e) /\ acks' = acks
        /\ e.kind = "key" /\ life = "up"
    BY <1>4, <1>6 DEF SendKeyboardEvent, e, n
  <2>2. /\ key_queue \in Seq(Messages) /\ inbox \in Seq(Sound) /\ acks \in Seq(SoundAcks)
    BY DEF Typed
  <2>3. /\ Ordered(key_queue, seen) /\ Ordered(acks, seen) /\ Ordered(inbox, seen)
        /\ KeyNums(key_queue) = KeyNums(acks) \cup KeyNums(inbox)
        /\ \A a \in KeyNums(acks), b \in KeyNums(inbox) : a < b
        /\ Keyed(key_queue) = DOMAIN key_queue
    BY <2>1 DEF Keys
  <2> DEFINE t == Append(seen, u)
  <2>4. /\ t \in Seq(UserEvents) /\ Len(t) = n /\ t[n] = u /\ n \in 1 .. Len(t)
        /\ Num(e) = n /\ Len(seen) \in Nat /\ n = Len(seen) + 1
    BY <1>3, <1>4 DEF Num, n
  <2>5. /\ Ordered(key_queue, t) /\ Ordered(acks, t) /\ Ordered(inbox, t)
    BY <1>3, <2>3, OrderedGrows
  <2> HIDE DEF t
  <2>6. \A x \in KeyNums(key_queue) \cup KeyNums(acks) \cup KeyNums(inbox) : x < Num(e)
    <3>1. KeyNums(key_queue) \cup KeyNums(acks) \cup KeyNums(inbox) \subseteq 1 .. Len(seen)
      BY <1>3, <2>3, KeyNumsType
    <3> QED BY <2>4, <3>1
  <2>7. Num(e) \in 1 .. Len(t) /\ e.of = <<Num(e)>> /\ e.type = t[Num(e)].type
    BY <1>4, <2>4
  <2>8. /\ Ordered(Append(key_queue, e), t)
        /\ KeyNums(Append(key_queue, e)) = KeyNums(key_queue) \cup {Num(e)}
    BY <2>1, <2>2, <2>4, <2>5, <2>6, <2>7, AppendKey
  <2>9. /\ Ordered(Append(inbox, e), t)
        /\ KeyNums(Append(inbox, e)) = KeyNums(inbox) \cup {Num(e)}
    BY <2>1, <2>2, <2>4, <2>5, <2>6, <2>7, AppendKey
  <2>10. Keyed(Append(key_queue, e)) = DOMAIN Append(key_queue, e)
    <3>1. /\ Keyed(Append(key_queue, e)) = Keyed(key_queue) \cup {Len(key_queue) + 1}
          /\ Len(Append(key_queue, e)) = Len(key_queue) + 1 /\ Len(key_queue) \in Nat
      BY <2>1, <2>2, AppendPlaces
    <3>2. /\ DOMAIN Append(key_queue, e) = 1 .. Len(key_queue) + 1
          /\ DOMAIN key_queue = 1 .. Len(key_queue)
      BY <2>2
    <3> QED BY <2>3, <3>1, <3>2
  <2>11. /\ Ordered(key_queue', seen') /\ Ordered(acks', seen') /\ Ordered(inbox', seen')
         /\ KeyNums(key_queue') = KeyNums(acks') \cup KeyNums(inbox')
         /\ \A a \in KeyNums(acks'), b \in KeyNums(inbox') : a < b
         /\ Keyed(key_queue') = DOMAIN key_queue'
    <3>1. seen' = t
      BY <1>1 DEF t
    <3>2. KeyNums(key_queue') = KeyNums(acks') \cup KeyNums(inbox')
      BY <2>1, <2>3, <2>8, <2>9
    <3>3. \A a \in KeyNums(acks'), b \in KeyNums(inbox') : a < b
      BY <2>1, <2>3, <2>6, <2>9
    <3> QED BY <2>1, <2>5, <2>8, <2>9, <2>10, <3>1, <3>2, <3>3
  <2> QED BY <2>11 DEF Keys, KeyNums, Keyed, Ordered, Num, OfKind
<1> QED BY <1>1, <1>5, <1>6

LEMMA TailKeys ==
  ASSUME NEW E, NEW q \in Seq(E), q # <<>>, NEW s \in Seq(UserEvents), Ordered(q, s),
         Head(q).kind = "key"
  PROVE  /\ Tail(q) \in Seq(E) /\ Ordered(Tail(q), s)
         /\ KeyNums(Tail(q)) = KeyNums(q) \ {Num(Head(q))}
         /\ Num(Head(q)) \in KeyNums(q) /\ \A x \in KeyNums(Tail(q)) : Num(Head(q)) < x
<1> DEFINE p == Tail(q)
<1>1. PICK one \in 1 .. Len(q) : one = 1
  OBVIOUS
<1>2. p \in Seq(E) /\ LessPlaces(q, one, p) /\ Head(q) = q[one]
  BY <1>1, TailPlaces DEF LessPlaces
<1> HIDE DEF p
<1>3. /\ Ordered(p, s)
      /\ KeyNums(p) = KeyNums(q) \ (IF q[one].kind = "key" THEN {Num(q[one])} ELSE {})
      /\ (q[one].kind = "key" /\ \A j \in 1 .. one - 1 : q[j].kind # "key")
           => Num(q[one]) \in KeyNums(q) /\ \A x \in KeyNums(p) : Num(q[one]) < x
  BY <1>2, LessKeys
<1>4. \A j \in 1 .. one - 1 : q[j].kind # "key"
  BY <1>1
<1>5. q[one].kind = "key"
  BY <1>2
<1>6. KeyNums(p) = KeyNums(q) \ {Num(q[one])}
  BY <1>3, <1>5
<1> QED BY <1>2, <1>3, <1>4, <1>5, <1>6 DEF p

\* An answer to a key is for the oldest one that is kept.
LEMMA KeyAckKeys ==
  ASSUME Typed, Keys, life = "up", acks # <<>>, Head(acks).kind = "key",
         acks' = Tail(acks), key_queue' = AfterKeyAck(key_queue, Head(acks).type),
         UNCHANGED <<inbox, life, seen>>
  PROVE  Keys'
<1>1. /\ key_queue \in Seq(Messages) /\ acks \in Seq(SoundAcks) /\ seen \in Seq(UserEvents)
  BY DEF Typed
<1>2. /\ Keyed(key_queue) = DOMAIN key_queue
      /\ Ordered(key_queue, seen) /\ Ordered(acks, seen) /\ Ordered(inbox, seen)
      /\ \A a \in KeyNums(acks), b \in KeyNums(inbox) : a < b
      /\ KeyNums(key_queue) = KeyNums(acks) \cup KeyNums(inbox)
  BY DEF Keys
<1> DEFINE a == Head(acks)
<1>3. /\ Ordered(acks', seen) /\ KeyNums(acks') = KeyNums(acks) \ {Num(a)}
      /\ Num(a) \in KeyNums(acks) /\ \A x \in KeyNums(acks') : Num(a) < x
  BY <1>1, <1>2, TailKeys
<1>4. a.type = seen[Num(a)].type
  <2>1. 1 \in Keyed(acks) /\ a = acks[1]
    BY <1>1 DEF Keyed, OfKind
  <2> QED BY <1>2, <2>1 DEF Ordered
<1>5. key_queue # <<>>
  <2>1. Num(a) \in KeyNums(key_queue)
    BY <1>2, <1>3
  <2> QED BY <2>1, OrderedEmpty
<1> DEFINE k == Head(key_queue)
<1>6. k = key_queue[1] /\ 1 \in Keyed(key_queue) /\ k.kind = "key"
  <2>1. 1 \in DOMAIN key_queue /\ k = key_queue[1]
    BY <1>1, <1>5
  <2>2. 1 \in OfKind(key_queue, {"key"})
    BY <1>2, <2>1 DEF Keyed
  <2> QED BY <1>2, <2>1, <2>2 DEF OfKind
<1>7. /\ Tail(key_queue) \in Seq(Messages) /\ Ordered(Tail(key_queue), seen)
      /\ KeyNums(Tail(key_queue)) = KeyNums(key_queue) \ {Num(k)}
      /\ Num(k) \in KeyNums(key_queue) /\ \A x \in KeyNums(Tail(key_queue)) : Num(k) < x
  BY <1>1, <1>2, <1>5, <1>6, TailKeys
<1>8. k.type = seen[Num(k)].type
  BY <1>2, <1>6 DEF Ordered
<1> HIDE DEF a, k
<1>9. Num(k) = Num(a)
  <2>1. KeyNums(key_queue) \subseteq Nat
    BY <1>1, <1>2, KeyNumsType
  <2>2. \A x \in KeyNums(key_queue) : x = Num(k) \/ Num(k) < x
    BY <1>7
  <2>3. \A x \in KeyNums(key_queue) : x = Num(a) \/ Num(a) < x
    BY <1>2, <1>3
  <2>4. Num(a) \in KeyNums(key_queue)
    BY <1>2, <1>3
  <2> QED BY <1>7, <2>1, <2>2, <2>3, <2>4
<1>10. key_queue' = Tail(key_queue)
  <2>1. Head(key_queue).type = Head(acks).type
    BY <1>4, <1>8, <1>9 DEF a, k
  <2> QED BY <1>5, <2>1 DEF AfterKeyAck
<1>11. KeyNums(key_queue') = KeyNums(acks') \cup KeyNums(inbox')
  <2>1. Num(a) \notin KeyNums(inbox)
    <3>1. Num(a) \in Nat
      BY <1>1, <1>2, <1>3, KeyNumsType
    <3> QED BY <1>2, <1>3, <3>1
  <2> QED BY <1>2, <1>3, <1>7, <1>9, <1>10, <2>1
<1>12. Keyed(key_queue') = DOMAIN key_queue'
  <2>1. /\ Tail(key_queue) \in Seq(Messages) /\ Len(Tail(key_queue)) = Len(key_queue) - 1
        /\ \A j \in 1 .. Len(key_queue) - 1 : Tail(key_queue)[j] = key_queue[j + 1]
    BY <1>1, <1>5, TailPlaces
  <2>2. \A i \in 1 .. Len(key_queue) : key_queue[i].kind = "key"
    <3>1. DOMAIN key_queue = 1 .. Len(key_queue)
      BY <1>1
    <3> QED BY <1>2, <3>1 DEF Keyed, OfKind
  <2>3. \A j \in 1 .. Len(Tail(key_queue)) : Tail(key_queue)[j].kind = "key"
    <3> TAKE j \in 1 .. Len(Tail(key_queue))
    <3>1. j \in 1 .. Len(key_queue) - 1 /\ j + 1 \in 1 .. Len(key_queue)
      BY <1>1, <2>1
    <3> QED BY <2>1, <2>2, <3>1
  <2>4. DOMAIN Tail(key_queue) = 1 .. Len(Tail(key_queue))
    BY <2>1
  <2> QED BY <1>10, <2>3, <2>4 DEF Keyed, OfKind
<1>13. /\ Ordered(key_queue', seen') /\ Ordered(acks', seen') /\ Ordered(inbox', seen')
       /\ \A x \in KeyNums(acks'), b \in KeyNums(inbox') : x < b
  BY <1>2, <1>3, <1>7, <1>10
<1> QED BY <1>11, <1>12, <1>13 DEF Keys, KeyNums, Keyed, Ordered, Num, OfKind

\* Within its class the renderer answers the oldest event first.
LEMMA AnswerKeys ==
  ASSUME Typed, Keys, RendererAnswers PROVE Keys'
<1>1. PICK i \in 1 .. Len(inbox), yes \in BOOLEAN :
        LET a == [kind |-> inbox[i].kind, type |-> inbox[i].type, of |-> inbox[i].of,
                  consumed |-> yes]
        IN  /\ \A j \in 1 .. i - 1 : inbox[j].kind # inbox[i].kind
            /\ a \in SoundAcks /\ acks' = Append(acks, a)
            /\ inbox' = RemoveAt(inbox, i) /\ life = "up"
  BY AnswerSteps
<1> DEFINE a == [kind |-> inbox[i].kind, type |-> inbox[i].type, of |-> inbox[i].of,
                 consumed |-> yes]
           p == RemoveAt(inbox, i)
           m == inbox[i]
<1>2. /\ a.kind = m.kind /\ a.of = m.of /\ a.type = m.type
      /\ acks' = Append(acks, a) /\ inbox' = p
      /\ \A j \in 1 .. i - 1 : inbox[j].kind # m.kind
      /\ UNCHANGED <<key_queue, seen>>
  BY <1>1 DEF RendererAnswers, routerVars, historyVars
<1>3. inbox \in Seq(Sound) /\ acks \in Seq(SoundAcks) /\ seen \in Seq(UserEvents)
  BY DEF Typed
<1>4. /\ Keyed(key_queue) = DOMAIN key_queue
      /\ Ordered(key_queue, seen) /\ Ordered(acks, seen) /\ Ordered(inbox, seen)
      /\ \A x \in KeyNums(acks), b \in KeyNums(inbox) : x < b
      /\ KeyNums(key_queue) = KeyNums(acks) \cup KeyNums(inbox)
  BY <1>1 DEF Keys
<1>5. p \in Seq(Sound) /\ LessPlaces(inbox, i, p)
  BY <1>3, RemoveAtPlaces DEF LessPlaces
<1> HIDE DEF a, p
<1>6. /\ Ordered(p, seen)
      /\ KeyNums(p) = KeyNums(inbox) \ (IF inbox[i].kind = "key" THEN {Num(inbox[i])} ELSE {})
      /\ (inbox[i].kind = "key" /\ \A j \in 1 .. i - 1 : inbox[j].kind # "key")
           => Num(inbox[i]) \in KeyNums(inbox) /\ \A x \in KeyNums(p) : Num(inbox[i]) < x
  BY <1>3, <1>4, <1>5, LessKeys
<1>7. /\ Ordered(Append(acks, a), seen)
      /\ KeyNums(key_queue) = KeyNums(Append(acks, a)) \cup KeyNums(p)
      /\ \A x \in KeyNums(Append(acks, a)), b \in KeyNums(p) : x < b
  <2>1. CASE m.kind = "key"
    <3>1. /\ KeyNums(p) = KeyNums(inbox) \ {Num(m)}
          /\ Num(m) \in KeyNums(inbox) /\ \A x \in KeyNums(p) : Num(m) < x
      BY <1>2, <1>6, <2>1
    <3>2. Num(a) = Num(m)
      BY <1>2 DEF Num
    <3>3. i \in Keyed(inbox)
      BY <1>3, <2>1 DEF Keyed, OfKind
    <3>4. Num(a) \in 1 .. Len(seen) /\ a.of = <<Num(a)>> /\ a.type = seen[Num(a)].type
      BY <1>2, <1>4, <3>2, <3>3 DEF Ordered
    <3>5. \A x \in KeyNums(acks) : x < Num(a)
      BY <1>4, <3>1, <3>2
    <3>6. /\ Ordered(Append(acks, a), seen)
          /\ KeyNums(Append(acks, a)) = KeyNums(acks) \cup {Num(a)}
      BY <1>2, <1>3, <1>4, <2>1, <3>4, <3>5, AppendKey
    <3>7. KeyNums(key_queue) = KeyNums(Append(acks, a)) \cup KeyNums(p)
      BY <1>4, <3>1, <3>2, <3>6
    <3>8. \A x \in KeyNums(Append(acks, a)), b \in KeyNums(p) : x < b
      BY <1>4, <3>1, <3>2, <3>6
    <3> QED BY <3>6, <3>7, <3>8
  <2>2. CASE m.kind # "key"
    <3>1. KeyNums(p) = KeyNums(inbox)
      BY <1>6, <2>2
    <3>2. Ordered(Append(acks, a), seen) /\ KeyNums(Append(acks, a)) = KeyNums(acks)
      BY <1>2, <1>3, <1>4, <2>2, AppendOther
    <3> QED BY <1>4, <3>1, <3>2
  <2> QED BY <2>1, <2>2
<1>8. /\ Ordered(key_queue', seen') /\ Ordered(acks', seen') /\ Ordered(inbox', seen')
      /\ KeyNums(key_queue') = KeyNums(acks') \cup KeyNums(inbox')
      /\ \A x \in KeyNums(acks'), b \in KeyNums(inbox') : x < b
      /\ Keyed(key_queue') = DOMAIN key_queue'
  BY <1>2, <1>4, <1>6, <1>7
<1> QED BY <1>8 DEF Keys, KeyNums, Keyed, Ordered, Num, OfKind

LEMMA MessageKeys ==
  ASSUME Typed, Keys, OnMessageReceived PROVE Keys'
<1> DEFINE a == Head(acks)
<1>1. /\ OnPointerAck(a) \/ OnKeyAck(a) \/ OnEditAck(a) \/ OnDidStopFlinging(a)
      /\ life = "up" /\ acks # <<>> /\ acks' = Tail(acks) /\ UNCHANGED <<life, seen>>
  BY DEF OnMessageReceived
<1>2. TidyLanes(lane)
  BY DEF Typed
<1> HIDE DEF a
<1>3. ASSUME a.kind \in Lanes, NEW w, NEW count, NEW acked,
             Drain(a.kind, lane[a.kind].held, w, count, acked)
      PROVE  inbox' = inbox \/ \E m \in Sound : m.kind # "key" /\ inbox' = Append(inbox, m)
  <2> DEFINE q == lane[a.kind].held
  <2>1. /\ q \in Seq(Sound) /\ \A i \in 1 .. Len(q) : q[i].kind = a.kind
        /\ a.kind \in {"move", "caret"} => Len(q) <= 1
    BY <1>2, <1>3, HeldType
  <2>2. Drain(a.kind, q, w, count, acked)
    BY <1>3
  <2> HIDE DEF q
  <2> QED BY <1>3, <2>1, <2>2, DrainInbox
<1>4. CASE OnKeyAck(a)
  <2>1. a.kind = "key" /\ key_queue' = AfterKeyAck(key_queue, a.type) /\ UNCHANGED inbox
    BY <1>4 DEF OnKeyAck
  <2> QED BY <1>1, <2>1, KeyAckKeys DEF a
<1>5. CASE OnPointerAck(a) \/ OnEditAck(a) \/ OnDidStopFlinging(a)
  <2>1. a.kind # "key" /\ UNCHANGED key_queue
    BY <1>5, KindSets DEF OnPointerAck, OnEditAck, OnDidStopFlinging
  <2>2. inbox' = inbox \/ \E m \in Sound : m.kind # "key" /\ inbox' = Append(inbox, m)
    <3>1. CASE OnPointerAck(a)
      <4> DEFINE w == DecrementInFlightEventCount(widget)
                 c == FlingsAfter(a)
      <4>1. PICK yes \in BOOLEAN : Drain(a.kind, lane[a.kind].held, w, c, yes)
        BY <3>1, Zenon DEF OnPointerAck
      <4>2. a.kind \in Lanes
        BY <3>1, KindSets DEF OnPointerAck
      <4> HIDE DEF w, c
      <4> QED BY <1>3, <4>1, <4>2
    <3>2. CASE OnEditAck(a)
      <4>1. PICK no \in BOOLEAN :
              Drain(a.kind, lane[a.kind].held, widget, active_renderer_fling_count, no)
        BY <3>2, Zenon DEF OnEditAck
      <4>2. a.kind \in Lanes
        BY <3>2, KindSets DEF OnEditAck
      <4> QED BY <1>3, <4>1, <4>2
    <3>3. CASE OnDidStopFlinging(a)
      BY <3>3 DEF OnDidStopFlinging
    <3> QED BY <1>5, <3>1, <3>2, <3>3
  <2> QED BY <1>1, <2>1, <2>2, KeysQuiet DEF a
<1> QED BY <1>1, <1>4, <1>5

LEMMA NextKeys ==
  ASSUME Typed, Keys, [Next]_vars PROVE Keys'
<1>1. CASE UserInput
  BY <1>1, UserInputKeys
<1>2. CASE OnMessageReceived
  BY <1>2, MessageKeys
<1>3. CASE RendererAnswers
  BY <1>3, AnswerKeys
<1>4. CASE FlingEnds
  <2> DEFINE a == [kind |-> "stop", type |-> "stop", of |-> <<>>, consumed |-> FALSE]
  <2>1. /\ acks' = Append(acks, a) /\ a.kind # "key"
        /\ UNCHANGED <<key_queue, inbox, life, seen>>
    BY <1>4 DEF FlingEnds, routerVars, historyVars
  <2> HIDE DEF a
  <2>2. acks \in Seq(SoundAcks) /\ Ordered(acks, seen)
    BY DEF Typed, Keys
  <2>3. Ordered(Append(acks, a), seen) /\ KeyNums(Append(acks, a)) = KeyNums(acks)
    BY <2>1, <2>2, AppendOther
  <2>4. /\ Ordered(key_queue', seen') /\ Ordered(acks', seen') /\ Ordered(inbox', seen')
        /\ life' = "up" => KeyNums(key_queue') = KeyNums(acks') \cup KeyNums(inbox')
        /\ \A x \in KeyNums(acks'), b \in KeyNums(inbox') : x < b
        /\ Keyed(key_queue') = DOMAIN key_queue'
    BY <2>1, <2>3 DEF Keys
  <2> QED BY <2>4 DEF Keys, KeyNums, Keyed, Ordered, Num, OfKind
<1>5. CASE ConnectionLost \/ RendererExited
  <2>1. acks' = <<>> /\ inbox' = <<>> /\ life' # "up"
    BY <1>5 DEF ConnectionLost, RendererExited, Typed
  <2>2. UNCHANGED <<key_queue, seen>> \/ key_queue' = <<>>
    BY <1>5 DEF ConnectionLost, RendererExited, routerVars, historyVars
  <2>3. Ordered(key_queue', seen') /\ Keyed(key_queue') = DOMAIN key_queue'
    <3>1. CASE UNCHANGED <<key_queue, seen>>
      BY <3>1 DEF Keys
    <3>2. CASE key_queue' = <<>>
      BY <3>2, OrderedEmpty
    <3> QED BY <2>2, <3>1, <3>2
  <2>4. /\ Ordered(acks', seen') /\ Ordered(inbox', seen')
        /\ \A x \in KeyNums(acks'), b \in KeyNums(inbox') : x < b
    BY <2>1, OrderedEmpty
  <2> QED BY <2>1, <2>3, <2>4 DEF Keys, KeyNums, Keyed, Ordered, Num, OfKind
<1>6. CASE Relaunch
  <2>1. /\ acks' = <<>> /\ inbox' = <<>> /\ key_queue' = <<>>
    BY <1>6 DEF Relaunch, Typed, routerVars
  <2>2. /\ Ordered(key_queue', seen') /\ Ordered(acks', seen') /\ Ordered(inbox', seen')
        /\ KeyNums(key_queue') = KeyNums(acks') \cup KeyNums(inbox')
        /\ \A x \in KeyNums(acks'), b \in KeyNums(inbox') : x < b
        /\ Keyed(key_queue') = DOMAIN key_queue'
    BY <2>1, OrderedEmpty
  <2> QED BY <2>2 DEF Keys, KeyNums, Keyed, Ordered, Num, OfKind
<1>7. CASE \/ RequestNotificationWhenFlushed \/ WasHidden \/ WasShown \/ HangMonitorFires
           \/ SetIgnoreInputEvents \/ UNCHANGED vars
  <2>1. UNCHANGED <<key_queue, acks, inbox, seen, life>>
    BY <1>7 DEF RequestNotificationWhenFlushed, WasHidden, WasShown, HangMonitorFires,
                SetIgnoreInputEvents, routerVars, envVars, historyVars, vars
  <2>2. /\ Ordered(key_queue', seen') /\ Ordered(acks', seen') /\ Ordered(inbox', seen')
        /\ life' = "up" => KeyNums(key_queue') = KeyNums(acks') \cup KeyNums(inbox')
        /\ \A x \in KeyNums(acks'), b \in KeyNums(inbox') : x < b
        /\ Keyed(key_queue') = DOMAIN key_queue'
    BY <2>1 DEF Keys
  <2> QED BY <2>2 DEF Keys, KeyNums, Keyed, Ordered, Num, OfKind
<1> QED BY <1>1, <1>2, <1>3, <1>4, <1>5, <1>6, <1>7 DEF Next

LEMMA OrderedInOrder ==
  ASSUME NEW q, NEW s \in Seq(UserEvents), Ordered(q, s)
  PROVE  InOrder(q, Keyed(q)) /\ MembersAt(q, Keyed(q)) = KeyNums(q)
<1>1. \A i \in Keyed(q) : /\ q[i].of = <<Num(q[i])>> /\ Num(q[i]) \in 1 .. Len(s)
                          /\ ToSet(q[i].of) = {Num(q[i])} /\ Ascending(q[i].of)
  <2> TAKE i \in Keyed(q)
  <2>1. q[i].of = <<Num(q[i])>> /\ Num(q[i]) \in 1 .. Len(s)
    BY DEF Ordered
  <2> DEFINE n == Num(q[i])
  <2>2. DOMAIN <<n>> = {1} /\ <<n>>[1] = n
    OBVIOUS
  <2> HIDE DEF n
  <2>3. ToSet(<<n>>) = {n} /\ Ascending(<<n>>)
    BY <2>2 DEF ToSet, Ascending
  <2> QED BY <2>1, <2>3 DEF n
<1>2. \A i, j \in Keyed(q) : i < j => Num(q[i]) < Num(q[j])
  BY DEF Ordered
<1>3. InOrder(q, Keyed(q))
  <2>1. ASSUME NEW i \in Keyed(q), NEW j \in Keyed(q), i < j,
               NEW m \in ToSet(q[i].of), NEW n \in ToSet(q[j].of)
        PROVE  m < n
    <3>1. m = Num(q[i]) /\ n = Num(q[j])
      BY <1>1, <2>1
    <3> QED BY <1>2, <2>1, <3>1
  <2> QED BY <1>1, <2>1 DEF InOrder
<1>4. MembersAt(q, Keyed(q)) = KeyNums(q)
  <2>1. ASSUME NEW n PROVE n \in MembersAt(q, Keyed(q)) <=> n \in KeyNums(q)
    <3>1. n \in MembersAt(q, Keyed(q)) <=> \E i \in Keyed(q) : n \in ToSet(q[i].of)
      BY DEF MembersAt
    <3>2. n \in KeyNums(q) <=> \E i \in Keyed(q) : n = Num(q[i])
      BY DEF KeyNums
    <3> QED BY <1>1, <3>1, <3>2
  <2> QED BY <2>1
<1> QED BY <1>3, <1>4

\* The answers under way are for older keys than the messages still unread.
LEMMA WireOrdered ==
  ASSUME NEW E, NEW p \in Seq(E), NEW q \in Seq(E), NEW s \in Seq(UserEvents),
         Ordered(p, s), Ordered(q, s), \A a \in KeyNums(p), b \in KeyNums(q) : a < b
  PROVE  Ordered(p \o q, s) /\ KeyNums(p \o q) = KeyNums(p) \cup KeyNums(q)
<1> DEFINE w == p \o q
           n == Len(p)
<1>1. /\ w \in Seq(E) /\ Len(w) = n + Len(q) /\ n \in Nat /\ Len(q) \in Nat
      /\ \A i \in 1 .. n + Len(q) : w[i] = IF i <= n THEN p[i] ELSE q[i - n]
  BY ConcatProperties
<1>2. /\ Keyed(p) = {i \in 1 .. n : p[i].kind = "key"}
      /\ Keyed(q) = {i \in 1 .. Len(q) : q[i].kind = "key"}
      /\ Keyed(w) = {i \in 1 .. n + Len(q) : w[i].kind = "key"}
  BY <1>1 DEF Keyed, OfKind
<1> HIDE DEF w, n
<1>3. ASSUME NEW i \in Keyed(w)
      PROVE  /\ i \in Nat
             /\ \/ i <= n /\ i \in Keyed(p) /\ w[i] = p[i]
                \/ ~ (i <= n) /\ i - n \in Keyed(q) /\ w[i] = q[i - n]
  <2>1. i \in 1 .. n + Len(q) /\ w[i].kind = "key"
    BY <1>2
  <2>2. CASE i <= n
    BY <1>1, <1>2, <2>1, <2>2
  <2>3. CASE ~ (i <= n)
    <3>1. i - n \in 1 .. Len(q) /\ w[i] = q[i - n]
      BY <1>1, <2>1, <2>3
    <3> QED BY <1>2, <2>1, <2>3, <3>1
  <2> QED BY <2>2, <2>3
<1>4. \A i \in Keyed(p) : i \in Keyed(w) /\ w[i] = p[i]
  BY <1>1, <1>2
<1>5. \A i \in Keyed(q) : i + n \in Keyed(w) /\ w[i + n] = q[i]
  <2> TAKE i \in Keyed(q)
  <2>1. i \in 1 .. Len(q) /\ q[i].kind = "key"
    BY <1>2
  <2>2. i + n \in 1 .. n + Len(q) /\ ~ (i + n <= n) /\ (i + n) - n = i
    BY <1>1, <2>1
  <2>3. w[i + n] = q[i]
    BY <1>1, <2>2
  <2> QED BY <1>2, <2>1, <2>2, <2>3
<1>6. KeyNums(w) = KeyNums(p) \cup KeyNums(q)
  <2>1. \A x \in KeyNums(w) : x \in KeyNums(p) \cup KeyNums(q)
    BY <1>3 DEF KeyNums
  <2>2. \A x \in KeyNums(p) : x \in KeyNums(w)
    BY <1>4 DEF KeyNums
  <2>3. \A x \in KeyNums(q) : x \in KeyNums(w)
    BY <1>5 DEF KeyNums
  <2> QED BY <2>1, <2>2, <2>3
<1>7. Ordered(w, s)
  <2>1. ASSUME NEW i \in Keyed(w)
        PROVE  /\ Num(w[i]) \in 1 .. Len(s) /\ w[i].of = <<Num(w[i])>>
               /\ w[i].type = s[Num(w[i])].type
    BY <1>3 DEF Ordered
  <2>2. ASSUME NEW i \in Keyed(w), NEW j \in Keyed(w), i < j PROVE Num(w[i]) < Num(w[j])
    <3>1. CASE j <= n
      <4>1. i \in Keyed(p) /\ w[i] = p[i] /\ j \in Keyed(p) /\ w[j] = p[j]
        BY <1>1, <1>3, <2>2, <3>1
      <4> QED BY <2>2, <4>1 DEF Ordered
    <3>2. CASE ~ (j <= n) /\ i <= n
      <4>1. i \in Keyed(p) /\ w[i] = p[i] /\ j - n \in Keyed(q) /\ w[j] = q[j - n]
        BY <1>3, <3>2
      <4> QED BY <4>1 DEF KeyNums
    <3>3. CASE ~ (i <= n)
      <4>1. ~ (j <= n) /\ i - n < j - n
        BY <1>1, <1>3, <2>2, <3>3
      <4>2. i - n \in Keyed(q) /\ w[i] = q[i - n] /\ j - n \in Keyed(q) /\ w[j] = q[j - n]
        BY <1>3, <3>3, <4>1
      <4> QED BY <4>1, <4>2 DEF Ordered
    <3> QED BY <3>1, <3>2, <3>3
  <2> QED BY <2>1, <2>2 DEF Ordered
<1> QED BY <1>6, <1>7 DEF w

LEMMA KeysAreMatched ==
  ASSUME Typed, Keys PROVE KeysMatchRenderer
<1> SUFFICES ASSUME life = "up" PROVE KeysMatchRenderer
  BY DEF KeysMatchRenderer
<1>1. /\ key_queue \in Seq(Messages) /\ inbox \in Seq(Sound) /\ acks \in Seq(SoundAcks)
      /\ seen \in Seq(UserEvents)
  BY DEF Typed
<1>2. /\ Keyed(key_queue) = DOMAIN key_queue
      /\ Ordered(key_queue, seen) /\ Ordered(acks, seen) /\ Ordered(inbox, seen)
      /\ KeyNums(key_queue) = KeyNums(acks) \cup KeyNums(inbox)
      /\ \A a \in KeyNums(acks), b \in KeyNums(inbox) : a < b
  BY DEF Keys
<1> DEFINE E == Sound \cup SoundAcks
           wire == acks \o inbox
<1>3. acks \in Seq(E) /\ inbox \in Seq(E)
  BY <1>1
<1> HIDE DEF E
<1>4. Ordered(wire, seen) /\ KeyNums(wire) = KeyNums(acks) \cup KeyNums(inbox)
  BY <1>1, <1>2, <1>3, WireOrdered
<1> HIDE DEF wire
<1>5. /\ InOrder(wire, Keyed(wire)) /\ MembersAt(wire, Keyed(wire)) = KeyNums(wire)
      /\ InOrder(key_queue, Keyed(key_queue))
      /\ MembersAt(key_queue, Keyed(key_queue)) = KeyNums(key_queue)
  BY <1>1, <1>2, <1>4, OrderedInOrder
<1>6. /\ InOrder(key_queue, DOMAIN key_queue) /\ InOrder(wire, OfKind(wire, {"key"}))
      /\ Members(key_queue) = MembersAt(wire, OfKind(wire, {"key"}))
  BY <1>2, <1>4, <1>5 DEF Members, Keyed
<1> QED BY <1>6 DEF KeysMatchRenderer, wire

LEMMA FlingsAreBalanced ==
  ASSUME Typed, FlingsKnown PROVE FlingsBalance
<1>1. acks \in Seq(SoundAcks) /\ active_renderer_fling_count \in Nat /\ flings \in Nat
  BY DEF Typed, FlingsKnown
<1>2. life = "up" =>
        active_renderer_fling_count + Cardinality({i \in DOMAIN acks : acks[i].consumed})
          = flings + Cardinality(OfKind(acks, {"stop"}))
  BY DEF FlingsKnown, Balance, Started
<1>3. ASSUME acks # <<>>, Head(acks).kind = "stop" PROVE active_renderer_fling_count > 0
  <2>1. Chain(acks, active_renderer_fling_count, flings)
    BY <1>3 DEF Typed, FlingsKnown
  <2>2. active_renderer_fling_count + Change(Head(acks)) \in Nat
    BY <1>1, <1>3, <2>1, ChainTail
  <2>3. Head(acks) \in SoundAcks
    BY <1>1, <1>3
  <2>4. ~ Head(acks).consumed
    BY <1>3, <2>3 DEF SoundAcks
  <2>5. Change(Head(acks)) = -1
    BY <1>3, <2>4 DEF Change
  <2> QED BY <1>1, <2>2, <2>5
<1> QED BY <1>2, <1>3 DEF FlingsBalance

LEMMA InitKeys == Init => Keys
<1> SUFFICES ASSUME Init PROVE Keys
  OBVIOUS
<1>1. key_queue = <<>> /\ inbox = <<>> /\ acks = <<>>
  BY DEF Init
<1> QED BY <1>1, OrderedEmpty DEF Keys

LEMMA KeysAlways == Spec => [](Ledger /\ Keys)
<1>1. Ledger /\ Keys /\ [Next]_vars => Keys'
  BY NextKeys DEF Ledger
<1>2. Init => Ledger /\ Keys
  BY InitLedger, InitKeys
<1>3. (Ledger /\ Keys) /\ [Next]_vars => (Ledger /\ Keys)'
  BY <1>1, NextLedger
<1> QED BY <1>2, <1>3, PTL DEF Spec

\* However the renderer's answers, its flings, crashes and reloads interleave with the
\* user's events, the browser's books of what the renderer owes are right: the keys it
\* keeps, the number of events it waits for, its count of flings, and nobody is blamed
\* without a debt.
THEOREM BooksAreRight == Spec => []DebtIsKnown
<1>1. Ledger /\ Keys => DebtIsKnown
  <2> SUFFICES ASSUME Ledger, Keys PROVE DebtIsKnown
    OBVIOUS
  <2>1. Typed /\ Flight /\ Calm(widget) /\ FlingsKnown
    BY DEF Ledger
  <2>2. KeysMatchRenderer /\ FlingsBalance
    BY <2>1, KeysAreMatched, FlingsAreBalanced
  <2>3. CountIsWhatRendererOwes
    BY <2>1 DEF Flight, CountIsWhatRendererOwes, Counted
  <2>4. NoBlameWithoutDebt
    BY <2>1 DEF Calm, NoBlameWithoutDebt
  <2> QED BY <2>2, <2>3, <2>4 DEF DebtIsKnown
<1> QED BY <1>1, KeysAlways, PTL

-----------------------------------------------------------------------------
(* DidFlush is called when nothing is held, unanswered or flinging.        *)

Pending == key_queue # <<>> \/ active_renderer_fling_count > 0 \/ \E l \in Lanes : lane[l].pending

Idle ==
  /\ \A l \in Lanes : lane[l].held = <<>>
  /\ OfKind(inbox, Kinds) = {} /\ OfKind(acks, Kinds \cup {"stop"}) = {}
  /\ flings = 0

LEMMA NothingPendingIsIdle ==
  ASSUME Ledger, Keys, life = "up", ~ Pending PROVE Idle
<1>1. /\ Typed /\ Flight /\ FlingsKnown
  BY DEF Ledger
<1>2. /\ inbox \in Seq(Sound) /\ acks \in Seq(SoundAcks) /\ TidyLanes(lane)
      /\ flings \in Nat
  BY <1>1 DEF Typed
<1>3. /\ key_queue = <<>> /\ ~ (active_renderer_fling_count > 0)
      /\ \A l \in Lanes : ~ lane[l].pending
  BY DEF Pending
<1>4. \A l \in Lanes : lane[l].held = <<>>
  BY <1>2, <1>3 DEF TidyLanes
<1>5. ASSUME NEW l \in Lanes PROVE OfKind(acks, {l}) = {} /\ OfKind(inbox, {l}) = {}
  <2>1. Unanswered({l}) = 0
    BY <1>1, <1>3 DEF Flight
  <2>2. /\ Cardinality(OfKind(acks, {l})) \in Nat /\ Cardinality(OfKind(inbox, {l})) \in Nat
        /\ Cardinality(OfKind(acks, {l})) + Cardinality(OfKind(inbox, {l})) = 0
    BY <1>1, <2>1, UnansweredType DEF Unanswered
  <2>3. Cardinality(OfKind(acks, {l})) = 0 /\ Cardinality(OfKind(inbox, {l})) = 0
    BY <2>2
  <2>4. IsFiniteSet(OfKind(acks, {l})) /\ IsFiniteSet(OfKind(inbox, {l}))
    BY <1>2, OfKindOfAny
  <2> QED BY <2>3, <2>4, FS_EmptySet
<1>6. OfKind(acks, {"key"}) = {} /\ OfKind(inbox, {"key"}) = {}
  <2>1. KeyNums(key_queue) = {}
    BY <1>3, OrderedEmpty
  <2>2. KeyNums(acks) \cup KeyNums(inbox) = {}
    BY <2>1 DEF Keys
  <2> QED BY <2>2 DEF KeyNums, Keyed
<1>7. \A k \in Lanes \cup {"key"} : OfKind(acks, {k}) = {} /\ OfKind(inbox, {k}) = {}
  BY <1>5, <1>6
<1>8. \A i \in DOMAIN inbox : inbox[i].kind \in Lanes \cup {"key"}
  <2> TAKE i \in DOMAIN inbox
  <2>1. inbox[i] \in Sound
    BY <1>2
  <2> QED BY <2>1 DEF Sound, Messages, Kinds
<1>9. \A i \in DOMAIN acks : acks[i].kind \in Lanes \cup {"key", "stop"}
  <2> TAKE i \in DOMAIN acks
  <2>1. acks[i] \in SoundAcks
    BY <1>2
  <2> QED BY <2>1 DEF SoundAcks, Acks, Kinds
<1>10. OfKind(inbox, Kinds) = {}
  <2>1. \A i \in DOMAIN inbox : FALSE
    <3> TAKE i \in DOMAIN inbox
    <3>1. i \in OfKind(inbox, {inbox[i].kind})
      BY DEF OfKind
    <3> QED BY <1>7, <1>8, <3>1
  <2> QED BY <2>1 DEF OfKind
<1>11. acks = <<>>
  <2> SUFFICES ASSUME acks # <<>> PROVE FALSE
    OBVIOUS
  <2>1. 1 \in DOMAIN acks /\ Head(acks) = acks[1]
    BY <1>2
  <2>2. 1 \in OfKind(acks, {acks[1].kind})
    BY <2>1 DEF OfKind
  <2>3. Head(acks).kind = "stop"
    BY <1>7, <1>9, <2>1, <2>2
  <2>4. active_renderer_fling_count > 0
    BY <1>1, <2>3, FlingsAreBalanced DEF FlingsBalance
  <2> QED BY <1>3, <2>4
<1>12. OfKind(acks, Kinds \cup {"stop"}) = {}
  BY <1>11, OfKindEmpty
<1>13. flings = 0
  <2>1. active_renderer_fling_count = 0
    BY <1>1, <1>3 DEF FlingsKnown
  <2>2. PICK f \in [0 .. Len(acks) -> Nat] :
          f[0] = active_renderer_fling_count /\ f[Len(acks)] = flings
    BY <1>1 DEF FlingsKnown, Chain
  <2>3. Len(acks) = 0
    BY <1>11
  <2> QED BY <2>1, <2>2, <2>3
<1> QED BY <1>4, <1>10, <1>12, <1>13 DEF Idle

LEMMA DrainFlush ==
  ASSUME TidyLanes(lane), NEW l \in Lanes, NEW q \in Seq(Sound),
         \A i \in 1 .. Len(q) : q[i].kind = l,
         l \in {"move", "caret"} => Len(q) <= 1,
         NEW w, NEW count, NEW acked, Drain(l, q, w, count, acked)
  PROVE  \/ flush_requested' = flush_requested
         \/ flush_requested' = Unsignalled(lane', key_queue, count)
<1>1. PICK k \in 0 .. Len(q) :
        flush_requested' = IF l \in PointerLanes /\ (acked \/ k > 0)
                             THEN Unsignalled(lane', key_queue, count)
                             ELSE flush_requested
  BY DrainSteps
<1> QED BY <1>1

\* The request is taken back only where nothing is pending afterwards.
LEMMA FlushSteps ==
  ASSUME Typed, [Next]_vars, flush_requested, ~ flush_requested', life' = "up"
  PROVE  ~ Pending'
<1>1. Pending' = HasPendingEvents(lane', key_queue', active_renderer_fling_count')
  BY Zenon DEF Pending, HasPendingEvents
<1>2. ASSUME flush_requested' = Unsignalled(lane', key_queue', active_renderer_fling_count')
      PROVE  ~ Pending'
  <2>1. ~ (flush_requested
           /\ HasPendingEvents(lane', key_queue', active_renderer_fling_count'))
    BY <1>2, Zenon DEF Unsignalled
  <2> QED BY <1>1, <2>1, Zenon
<1>3. flush_requested' # flush_requested
  OBVIOUS
<1>4. TidyLanes(lane)
  BY DEF Typed
<1>5. ASSUME NEW l \in Lanes, NEW q \in Seq(Sound), \A i \in 1 .. Len(q) : q[i].kind = l,
             l \in {"move", "caret"} => Len(q) <= 1,
             NEW w, NEW count, NEW acked, Drain(l, q, w, count, acked),
             key_queue' = key_queue, active_renderer_fling_count' = count
      PROVE  ~ Pending'
  <2>1. \/ flush_requested' = flush_requested
        \/ flush_requested' = Unsignalled(lane', key_queue, count)
    BY <1>4, <1>5, DrainFlush
  <2>2. flush_requested' = Unsignalled(lane', key_queue', active_renderer_fling_count')
    BY <1>3, <1>5, <2>1
  <2> QED BY <1>2, <2>2
<1>6. CASE UserInput
  <2>1. PICK u \in UserEvents :
          SendOrHold(u) \/ SendPress(u) \/ SendKeyboardEvent(u)
    BY <1>6 DEF UserInput
  <2>2. CASE SendOrHold(u)
    <3>1. ~ lane[u.kind].pending
      BY <1>3, <2>2 DEF SendOrHold
    <3> DEFINE n == Len(seen) + 1
               e == Event(u, n)
               q == <<e>>
    <3>2. n \in 1 .. MaxEvents
      BY <1>6, RouterAssumption DEF UserInput, Typed
    <3>3. e.kind = u.kind /\ u.kind \in Lanes /\ e \in Sound
      BY <2>2, <3>2, EventType, KindSets DEF SendOrHold
    <3>4. PICK no \in BOOLEAN : Drain(u.kind, q, widget, active_renderer_fling_count, no)
      BY <2>2, <3>1, Zenon DEF SendOrHold
    <3>5. UNCHANGED <<key_queue, active_renderer_fling_count>>
      BY <2>2 DEF SendOrHold
    <3> HIDE DEF e, n
    <3>6. /\ q \in Seq(Sound) /\ \A i \in 1 .. Len(q) : q[i].kind = u.kind
          /\ u.kind \in {"move", "caret"} => Len(q) <= 1
      BY <3>3, AloneType
    <3> HIDE DEF q
    <3> QED BY <1>5, <3>3, <3>4, <3>5, <3>6
  <2>3. CASE SendPress(u)
    <3>1. /\ flush_requested' = flush_requested
             \/ flush_requested' = Unsignalled(lane', key_queue, active_renderer_fling_count)
          /\ UNCHANGED <<key_queue, active_renderer_fling_count>>
      BY <2>3 DEF SendPress
    <3> QED BY <1>2, <1>3, <3>1
  <2>4. CASE SendKeyboardEvent(u)
    BY <1>3, <2>4 DEF SendKeyboardEvent
  <2> QED BY <2>1, <2>2, <2>3, <2>4
<1>7. CASE OnMessageReceived
  <2> DEFINE a == Head(acks)
  <2>1. OnPointerAck(a) \/ OnKeyAck(a) \/ OnEditAck(a) \/ OnDidStopFlinging(a)
    BY <1>7 DEF OnMessageReceived
  <2> HIDE DEF a
  <2>2. ASSUME a.kind \in Lanes, NEW w, NEW count, NEW acked, key_queue' = key_queue,
               Drain(a.kind, lane[a.kind].held, w, count, acked),
               active_renderer_fling_count' = count
        PROVE  ~ Pending'
    <3> DEFINE q == lane[a.kind].held
    <3>1. /\ q \in Seq(Sound) /\ \A i \in 1 .. Len(q) : q[i].kind = a.kind
          /\ a.kind \in {"move", "caret"} => Len(q) <= 1
      BY <1>4, <2>2, HeldType
    <3>2. Drain(a.kind, q, w, count, acked)
      BY <2>2
    <3> HIDE DEF q
    <3> QED BY <1>5, <2>2, <3>1, <3>2
  <2>3. CASE OnPointerAck(a)
    <3> DEFINE w == DecrementInFlightEventCount(widget)
               c == FlingsAfter(a)
    <3>1. /\ a.kind \in Lanes /\ key_queue' = key_queue
          /\ active_renderer_fling_count' = c
      BY <2>3, KindSets DEF OnPointerAck
    <3>2. PICK yes \in BOOLEAN : Drain(a.kind, lane[a.kind].held, w, c, yes)
      BY <2>3, Zenon DEF OnPointerAck
    <3> HIDE DEF w, c
    <3> QED BY <2>2, <3>1, <3>2
  <2>4. CASE OnKeyAck(a)
    BY <1>3, <2>4 DEF OnKeyAck
  <2>5. CASE OnEditAck(a)
    <3>1. /\ a.kind \in Lanes /\ key_queue' = key_queue
          /\ active_renderer_fling_count' = active_renderer_fling_count
      BY <2>5, KindSets DEF OnEditAck
    <3>2. PICK no \in BOOLEAN :
            Drain(a.kind, lane[a.kind].held, widget, active_renderer_fling_count, no)
      BY <2>5, Zenon DEF OnEditAck
    <3> QED BY <2>2, <3>1, <3>2
  <2>6. CASE OnDidStopFlinging(a)
    <3>1. /\ flush_requested' = Unsignalled(lane, key_queue, active_renderer_fling_count - 1)
          /\ active_renderer_fling_count' = active_renderer_fling_count - 1
          /\ UNCHANGED <<lane, key_queue>>
      BY <2>6 DEF OnDidStopFlinging
    <3> QED BY <1>2, <3>1
  <2> QED BY <2>1, <2>3, <2>4, <2>5, <2>6
<1>8. CASE RequestNotificationWhenFlushed
  <2>1. /\ flush_requested' = HasPendingEvents(lane, key_queue, active_renderer_fling_count)
        /\ UNCHANGED <<lane, key_queue, active_renderer_fling_count>>
    BY <1>8 DEF RequestNotificationWhenFlushed
  <2>2. ~ HasPendingEvents(lane', key_queue', active_renderer_fling_count')
    BY <2>1
  <2> QED BY <1>1, <2>2, Zenon
<1>9. CASE \/ WasHidden \/ WasShown \/ HangMonitorFires \/ SetIgnoreInputEvents
           \/ RendererAnswers \/ FlingEnds \/ ConnectionLost \/ Relaunch \/ UNCHANGED vars
  BY <1>3, <1>9 DEF WasHidden, WasShown, HangMonitorFires, SetIgnoreInputEvents,
                    RendererAnswers, FlingEnds, ConnectionLost, Relaunch, routerVars, vars
<1>10. CASE RendererExited
  BY <1>10 DEF RendererExited
<1> QED BY <1>6, <1>7, <1>8, <1>9, <1>10 DEF Next

\* A flush that was asked for is reported only when the user's input has reached
\* the end of its way, flings included.
THEOREM FlushIsHonest == Spec => DidFlushMeansIdle
<1> DEFINE Rest == life = "up" /\ ~ Pending => Idle
           Honest == flush_requested /\ ~ flush_requested' /\ life' = "up"
                       => /\ \A l \in Lanes : lane'[l].held = <<>>
                          /\ OfKind(inbox', Kinds) = {} /\ OfKind(acks', Kinds \cup {"stop"}) = {}
                          /\ flings' = 0
<1>1. Ledger /\ Keys => Rest
  BY NothingPendingIsIdle
<1>2. Ledger /\ [Next]_vars /\ Rest' => [Honest]_vars
  <2> SUFFICES ASSUME Ledger, [Next]_vars, Rest',
                      flush_requested, ~ flush_requested', life' = "up"
               PROVE  Idle'
    BY DEF Idle, OfKind
  <2>1. ~ Pending'
    BY FlushSteps DEF Ledger
  <2> QED BY <2>1
<1>3. Spec => [][Honest]_vars
  <2> HIDE DEF Rest, Honest
  <2> QED BY <1>1, <1>2, KeysAlways, PTL DEF Spec
<1> QED BY <1>3 DEF DidFlushMeansIdle

-----------------------------------------------------------------------------
(* The user's order: what is let go, and what may follow it.               *)

Offers == [kind : Kinds, type : Types, of : Seq(1 .. MaxEvents)]

Of(e)        == ToSet(e.of)
Before(e, f) == \A m \in Of(e), n \in Of(f) : m < n
Has(q, n)    == \E i \in 1 .. Len(q) : n \in Of(q[i])

\* An event stands for user events of its kind, in order.
Good(e, s) ==
  /\ e.of \in Seq(Nat) /\ e.of # <<>> /\ Ascending(e.of)
  /\ \A n \in Of(e) : n \in 1 .. Len(s) /\ s[n].kind = e.kind

\* The events let go are in order, class by class, and no move comes late.
Lined(off, s) ==
  /\ \A i \in 1 .. Len(off) : Good(off[i], s)
  /\ \A i, j \in 1 .. Len(off) :
       /\ i < j /\ off[i].kind = off[j].kind => Before(off[i], off[j])
       /\ i < j /\ off[j].kind = "move" /\ off[i].kind \notin EditLanes
            => Last(off[i].of) < Last(off[j].of)

\* The events of q may still be let go after those of off.
Follows(off, q, s) ==
  /\ \A i \in 1 .. Len(q) : Good(q[i], s)
  /\ \A i, j \in 1 .. Len(q) : i < j => Before(q[i], q[j])
  /\ \A i \in 1 .. Len(off), j \in 1 .. Len(q) :
       /\ off[i].kind = q[j].kind => Before(off[i], q[j])
       /\ q[j].kind = "move" /\ off[i].kind \notin EditLanes
            => Last(off[i].of) < Last(q[j].of)

\* The last selection that waits is the last one the user made.
Selects(q, s) ==
  \A j \in 1 .. Len(q), n \in Nat :
    n \in Of(q[j]) =>
      /\ s[n].type = q[j].type
      /\ j = Len(q) => \A m \in 1 .. Len(s) : s[m].kind = "select" => m <= n

\* User event n was replaced, as the rules of its class have it.
Replaced(n, s, marked) ==
  \/ s[n].kind = "move" /\ n <= marked
  \/ s[n].kind = "caret" /\ \E m \in 1 .. Len(s) : m > n /\ s[m].kind = "caret"
  \/ /\ s[n].kind = "select"
     /\ \E m \in 1 .. Len(s) :
          /\ m > n /\ s[m] = s[n]
          /\ \A j \in n + 1 .. m - 1 : s[j].kind # "select"

Kept(off, ls, s, marked) ==
  \A n \in 1 .. Len(s) :
    Has(off, n) \/ (\E l \in Lanes : Has(ls[l].held, n)) \/ Replaced(n, s, marked)

InLine(off, ls, s, marked) ==
  /\ off \in Seq(Offers) /\ Lined(off, s)
  /\ \A l \in Lanes : Follows(off, ls[l].held, s)
  /\ Selects(ls["select"].held, s)
  /\ Kept(off, ls, s, marked)

Line == InLine(offered, lane, seen, latest)

\* off2 is off and the first t events of q, rest what is left of q.
Moved(off, q, t, off2, rest) ==
  /\ t \in 0 .. Len(q) /\ Len(off2) = Len(off) + t /\ Len(rest) = Len(q) - t
  /\ \A i \in 1 .. Len(off) : off2[i] = off[i]
  /\ \A i \in 1 .. t : off2[Len(off) + i] = q[i]
  /\ \A i \in 1 .. Len(q) - t : rest[i] = q[t + i]

\* Where an event of off2 or of rest comes from.
LEMMA MovedPlaces ==
  ASSUME NEW off \in Seq(Offers), NEW q \in Seq(Offers), NEW t, NEW off2, NEW rest,
         Moved(off, q, t, off2, rest)
  PROVE  /\ Len(off) \in Nat /\ Len(q) \in Nat
         /\ \A i \in 1 .. Len(off2) :
              \/ i \in 1 .. Len(off) /\ off2[i] = off[i]
              \/ /\ i - Len(off) \in 1 .. Len(q) /\ i - Len(off) <= t /\ i > Len(off)
                 /\ off2[i] = q[i - Len(off)]
         /\ \A i \in 1 .. Len(rest) :
              t + i \in 1 .. Len(q) /\ rest[i] = q[t + i] /\ t + i > t
<1>1. /\ Len(off) \in Nat /\ Len(q) \in Nat /\ t \in 0 .. Len(q)
      /\ Len(off2) = Len(off) + t /\ Len(rest) = Len(q) - t
  BY DEF Moved
<1>2. ASSUME NEW i \in 1 .. Len(off2)
      PROVE  \/ i \in 1 .. Len(off) /\ off2[i] = off[i]
             \/ /\ i - Len(off) \in 1 .. Len(q) /\ i - Len(off) <= t /\ i > Len(off)
                /\ off2[i] = q[i - Len(off)]
  <2>1. CASE i <= Len(off)
    BY <1>1, <2>1 DEF Moved
  <2>2. CASE ~ (i <= Len(off))
    <3>1. /\ i - Len(off) \in 1 .. t /\ Len(off) + (i - Len(off)) = i
          /\ i - Len(off) \in 1 .. Len(q) /\ i - Len(off) <= t /\ i > Len(off)
      BY <1>1, <2>2
    <3>2. off2[Len(off) + (i - Len(off))] = q[i - Len(off)]
      BY <3>1 DEF Moved
    <3> QED BY <3>1, <3>2
  <2> QED BY <2>1, <2>2
<1>3. ASSUME NEW i \in 1 .. Len(rest)
      PROVE  t + i \in 1 .. Len(q) /\ rest[i] = q[t + i] /\ t + i > t
  <2>1. i \in 1 .. Len(q) - t /\ t + i \in 1 .. Len(q) /\ t + i > t
    BY <1>1
  <2> QED BY <2>1 DEF Moved
<1> QED BY <1>1, <1>2, <1>3

LEMMA MovedHas ==
  ASSUME NEW off \in Seq(Offers), NEW q \in Seq(Offers), NEW t, NEW off2, NEW rest,
         Moved(off, q, t, off2, rest), NEW n
  PROVE  /\ Has(off, n) => Has(off2, n)
         /\ Has(q, n) => Has(off2, n) \/ Has(rest, n)
<1>1. /\ Len(off) \in Nat /\ Len(q) \in Nat /\ t \in 0 .. Len(q)
      /\ Len(off2) = Len(off) + t /\ Len(rest) = Len(q) - t
  BY DEF Moved
<1>2. ASSUME Has(off, n) PROVE Has(off2, n)
  <2>1. PICK i \in 1 .. Len(off) : n \in Of(off[i])
    BY <1>2 DEF Has
  <2>2. i \in 1 .. Len(off2) /\ off2[i] = off[i]
    BY <1>1 DEF Moved
  <2> QED BY <2>1, <2>2 DEF Has
<1>3. ASSUME Has(q, n) PROVE Has(off2, n) \/ Has(rest, n)
  <2>1. PICK i \in 1 .. Len(q) : n \in Of(q[i])
    BY <1>3 DEF Has
  <2>2. CASE i <= t
    <3>1. Len(off) + i \in 1 .. Len(off2) /\ i \in 1 .. t
      BY <1>1, <2>2
    <3>2. off2[Len(off) + i] = q[i]
      BY <3>1 DEF Moved
    <3> QED BY <2>1, <3>1, <3>2 DEF Has
  <2>3. CASE ~ (i <= t)
    <3>1. i - t \in 1 .. Len(rest) /\ i - t \in 1 .. Len(q) - t /\ t + (i - t) = i
      BY <1>1, <2>3
    <3>2. rest[i - t] = q[t + (i - t)]
      BY <3>1 DEF Moved
    <3> QED BY <2>1, <3>1, <3>2 DEF Has
  <2> QED BY <2>2, <2>3
<1> QED BY <1>2, <1>3

\* What is let go and what is left of q stay in order.
LEMMA ReleaseLine ==
  ASSUME NEW off \in Seq(Offers), NEW q \in Seq(Offers), NEW t, NEW off2, NEW rest, NEW s,
         NEW k, \A i \in 1 .. Len(q) : q[i].kind = k, k = "move" => Len(q) <= 1,
         Moved(off, q, t, off2, rest), Lined(off, s), Follows(off, q, s)
  PROVE  Lined(off2, s) /\ Follows(off2, rest, s)
<1>1. /\ Len(off) \in Nat /\ Len(q) \in Nat
      /\ \A i \in 1 .. Len(off2) :
           \/ i \in 1 .. Len(off) /\ off2[i] = off[i]
           \/ /\ i - Len(off) \in 1 .. Len(q) /\ i - Len(off) <= t /\ i > Len(off)
              /\ off2[i] = q[i - Len(off)]
      /\ \A i \in 1 .. Len(rest) :
           t + i \in 1 .. Len(q) /\ rest[i] = q[t + i] /\ t + i > t
  BY MovedPlaces
<1>2. t \in 0 .. Len(q) /\ Len(off2) \in Nat /\ Len(rest) \in Nat
  BY <1>1 DEF Moved
<1>3. Lined(off2, s)
  <2>1. ASSUME NEW i \in 1 .. Len(off2) PROVE Good(off2[i], s)
    BY <1>1 DEF Lined, Follows
  <2>2. ASSUME NEW i \in 1 .. Len(off2), NEW j \in 1 .. Len(off2), i < j
        PROVE  /\ off2[i].kind = off2[j].kind => Before(off2[i], off2[j])
               /\ off2[j].kind = "move" /\ off2[i].kind \notin EditLanes
                    => Last(off2[i].of) < Last(off2[j].of)
    <3>1. CASE j \in 1 .. Len(off) /\ off2[j] = off[j]
      <4>1. i \in 1 .. Len(off) /\ off2[i] = off[i]
        BY <1>1, <2>2, <3>1
      <4> QED BY <2>2, <3>1, <4>1 DEF Lined
    <3>2. CASE j - Len(off) \in 1 .. Len(q) /\ j > Len(off) /\ off2[j] = q[j - Len(off)]
      <4>1. CASE i \in 1 .. Len(off) /\ off2[i] = off[i]
        BY <3>2, <4>1 DEF Follows
      <4>2. CASE i - Len(off) \in 1 .. Len(q) /\ i > Len(off) /\ off2[i] = q[i - Len(off)]
        <5>1. i - Len(off) < j - Len(off) /\ ~ (Len(q) <= 1)
          BY <1>1, <2>2, <3>2, <4>2
        <5>2. Before(q[i - Len(off)], q[j - Len(off)])
          BY <3>2, <4>2, <5>1 DEF Follows
        <5>3. q[j - Len(off)].kind = k
          BY <3>2
        <5> QED BY <3>2, <4>2, <5>1, <5>2, <5>3
      <4> QED BY <1>1, <4>1, <4>2
    <3> QED BY <1>1, <3>1, <3>2
  <2> QED BY <2>1, <2>2 DEF Lined
<1>4. Follows(off2, rest, s)
  <2>1. ASSUME NEW i \in 1 .. Len(rest) PROVE Good(rest[i], s)
    BY <1>1 DEF Follows
  <2>2. ASSUME NEW i \in 1 .. Len(rest), NEW j \in 1 .. Len(rest), i < j
        PROVE  Before(rest[i], rest[j])
    <3>1. t + i \in 1 .. Len(q) /\ rest[i] = q[t + i] /\ t + j \in 1 .. Len(q) /\ rest[j] = q[t + j]
      BY <1>1
    <3>2. t + i < t + j
      BY <1>1, <1>2, <2>2
    <3> QED BY <3>1, <3>2 DEF Follows
  <2>3. ASSUME NEW i \in 1 .. Len(off2), NEW j \in 1 .. Len(rest)
        PROVE  /\ off2[i].kind = rest[j].kind => Before(off2[i], rest[j])
               /\ rest[j].kind = "move" /\ off2[i].kind \notin EditLanes
                    => Last(off2[i].of) < Last(rest[j].of)
    <3>1. t + j \in 1 .. Len(q) /\ rest[j] = q[t + j] /\ t + j > t /\ rest[j].kind = k
      BY <1>1
    <3>2. CASE i \in 1 .. Len(off) /\ off2[i] = off[i]
      BY <3>1, <3>2 DEF Follows
    <3>3. CASE /\ i - Len(off) \in 1 .. Len(q) /\ i - Len(off) <= t
               /\ off2[i] = q[i - Len(off)]
      <4>1. i - Len(off) < t + j /\ ~ (Len(q) <= 1)
        BY <1>1, <1>2, <3>1, <3>3
      <4>2. Before(q[i - Len(off)], q[t + j])
        BY <3>1, <3>3, <4>1 DEF Follows
      <4> QED BY <3>1, <3>3, <4>1, <4>2
    <3> QED BY <1>1, <3>2, <3>3
  <2> QED BY <2>1, <2>2, <2>3 DEF Follows
<1> QED BY <1>3, <1>4

\* So does what another class holds, unless it is a mouse move that an event overtook.
LEMMA OtherLine ==
  ASSUME NEW off \in Seq(Offers), NEW q \in Seq(Offers), NEW t, NEW off2, NEW rest, NEW s,
         NEW k, \A i \in 1 .. Len(q) : q[i].kind = k, Moved(off, q, t, off2, rest),
         NEW m, m # k, NEW h, \A i \in 1 .. Len(h) : h[i].kind = m,
         m = "move" /\ t > 0 => k \in EditLanes, Follows(off, h, s)
  PROVE  Follows(off2, h, s)
<1>1. /\ Len(off) \in Nat /\ Len(q) \in Nat
      /\ \A i \in 1 .. Len(off2) :
           \/ i \in 1 .. Len(off) /\ off2[i] = off[i]
           \/ /\ i - Len(off) \in 1 .. Len(q) /\ i - Len(off) <= t /\ i > Len(off)
              /\ off2[i] = q[i - Len(off)]
  BY MovedPlaces
<1>2. ASSUME NEW i \in 1 .. Len(off2), NEW j \in 1 .. Len(h)
      PROVE  /\ off2[i].kind = h[j].kind => Before(off2[i], h[j])
             /\ h[j].kind = "move" /\ off2[i].kind \notin EditLanes
                  => Last(off2[i].of) < Last(h[j].of)
  <2>1. CASE i \in 1 .. Len(off) /\ off2[i] = off[i]
    BY <2>1 DEF Follows
  <2>2. CASE /\ i - Len(off) \in 1 .. Len(q) /\ i - Len(off) <= t
             /\ off2[i] = q[i - Len(off)]
    <3>1. t \in 0 .. Len(q)
      BY DEF Moved
    <3>2. off2[i].kind = k /\ h[j].kind = m /\ t > 0
      BY <1>1, <2>2, <3>1
    <3> QED BY <3>2
  <2> QED BY <1>1, <2>1, <2>2
<1> QED BY <1>2 DEF Follows

LEMMA FollowsEmpty ==
  ASSUME NEW off, NEW s PROVE Follows(off, <<>>, s)
<1>1. Len(<<>>) = 0 /\ 1 .. 0 = {}
  OBVIOUS
<1> QED BY <1>1 DEF Follows

\* Events of class k wait in q, those of the other classes in the lanes, and none is lost.
Waiting(off, q, k, ls, s, marked) ==
  /\ \A i \in 1 .. Len(q) : q[i].kind = k
  /\ k = "move" => Len(q) <= 1
  /\ Lined(off, s) /\ Follows(off, q, s)
  /\ k = "select" => Selects(q, s)
  /\ k # "select" => Selects(ls["select"].held, s)
  /\ k \in Lanes => ls[k].held = q \/ ls[k].held = <<>>
  /\ \A m \in Lanes : /\ Follows(off, ls[m].held, s)
                      /\ \A i \in 1 .. Len(ls[m].held) : ls[m].held[i].kind = m
  /\ \A n \in 1 .. Len(s) : \/ Has(off, n) \/ Has(q, n) \/ Replaced(n, s, marked)
                           \/ \E m \in Lanes : Has(ls[m].held, n)

\* t of them are let go, the rest waits on; the mouse move that waits is dropped if an
\* event of a pointer class overtakes it.
Left(t, rest, k, ls, ls2, s, marked) ==
  /\ IF k \in Lanes THEN ls2[k].held = rest ELSE rest = <<>>
  /\ \A m \in Lanes \ {k} :
       \/ ls2[m].held = ls[m].held /\ (m = "move" /\ t > 0 => k \in EditLanes)
       \/ m = "move" /\ ls2[m].held = <<>> /\ Len(s) <= marked

LEMMA ReleaseInLine ==
  ASSUME NEW off \in Seq(Offers), NEW q \in Seq(Offers), NEW t, NEW off2 \in Seq(Offers),
         NEW rest, NEW s \in Seq(UserEvents), NEW k, NEW ls, NEW ls2, NEW old \in Nat,
         NEW new \in Nat, old <= new, Moved(off, q, t, off2, rest),
         Waiting(off, q, k, ls, s, old), Left(t, rest, k, ls, ls2, s, new)
  PROVE  InLine(off2, ls2, s, new)
<1>1. /\ \A i \in 1 .. Len(q) : q[i].kind = k
      /\ k = "move" => Len(q) <= 1
      /\ Lined(off, s) /\ Follows(off, q, s)
      /\ k = "select" => Selects(q, s)
      /\ k # "select" => Selects(ls["select"].held, s)
      /\ k \in Lanes => ls[k].held = q \/ ls[k].held = <<>>
      /\ \A m \in Lanes : /\ Follows(off, ls[m].held, s)
                          /\ \A i \in 1 .. Len(ls[m].held) : ls[m].held[i].kind = m
      /\ \A n \in 1 .. Len(s) : \/ Has(off, n) \/ Has(q, n) \/ Replaced(n, s, old)
                               \/ \E m \in Lanes : Has(ls[m].held, n)
  BY DEF Waiting
<1>2. /\ k \in Lanes => ls2[k].held = rest
      /\ k \notin Lanes => rest = <<>>
      /\ \A m \in Lanes \ {k} :
           \/ ls2[m].held = ls[m].held /\ (m = "move" /\ t > 0 => k \in EditLanes)
           \/ m = "move" /\ ls2[m].held = <<>> /\ Len(s) <= new
  BY DEF Left
<1> USE <1>1, <1>2
<1>3. Lined(off2, s) /\ Follows(off2, rest, s)
  BY ReleaseLine
<1>4. ASSUME NEW m \in Lanes PROVE Follows(off2, ls2[m].held, s)
  <2>1. CASE m = k
    BY <1>3, <2>1
  <2>2. CASE m # k /\ ls2[m].held = <<>>
    BY <2>2, FollowsEmpty
  <2>3. CASE m # k /\ ls2[m].held = ls[m].held /\ (m = "move" /\ t > 0 => k \in EditLanes)
    <3> DEFINE h == ls[m].held
    <3>1. Follows(off, h, s) /\ \A i \in 1 .. Len(h) : h[i].kind = m
      OBVIOUS
    <3>2. m # k /\ (m = "move" /\ t > 0 => k \in EditLanes)
      BY <2>3
    <3>3. Moved(off, q, t, off2, rest) /\ \A i \in 1 .. Len(q) : q[i].kind = k
      OBVIOUS
    <3> HIDE DEF h
    <3>4. Follows(off2, h, s)
      BY ONLY off \in Seq(Offers), q \in Seq(Offers), <3>1, <3>2, <3>3, OtherLine
    <3> QED BY <2>3, <3>4 DEF h
  <2> QED BY <2>1, <2>2, <2>3
<1>5. Selects(ls2["select"].held, s)
  <2>1. "select" \in Lanes /\ "select" # "move"
    BY DEF Lanes, EditLanes
  <2>2. CASE k = "select"
    <3>1. ls2["select"].held = rest
      BY <2>1, <2>2
    <3>2. /\ Len(q) \in Nat
          /\ \A i \in 1 .. Len(rest) : t + i \in 1 .. Len(q) /\ rest[i] = q[t + i] /\ t + i > t
      BY MovedPlaces
    <3>3. t \in 0 .. Len(q) /\ Len(rest) = Len(q) - t
      BY DEF Moved
    <3>4. ASSUME NEW j \in 1 .. Len(rest), NEW n \in Nat, n \in Of(rest[j])
          PROVE  /\ s[n].type = rest[j].type
                 /\ j = Len(rest) => \A m \in 1 .. Len(s) : s[m].kind = "select" => m <= n
      <4>1. t + j \in 1 .. Len(q) /\ rest[j] = q[t + j]
        BY <3>2
      <4>2. j = Len(rest) => t + j = Len(q)
        BY <3>2, <3>3
      <4> QED BY <2>2, <3>4, <4>1, <4>2 DEF Selects
    <3> QED BY <3>1, <3>4 DEF Selects
  <2>3. CASE k # "select"
    BY <2>1, <2>3
  <2> QED BY <2>2, <2>3
<1>6. Kept(off2, ls2, s, new)
  <2>1. ASSUME NEW n \in 1 .. Len(s)
        PROVE  Has(off2, n) \/ (\E l \in Lanes : Has(ls2[l].held, n)) \/ Replaced(n, s, new)
    <3>1. Has(off, n) => Has(off2, n)
      BY MovedHas
    <3>2. Has(q, n) => Has(off2, n) \/ Has(rest, n)
      BY MovedHas
    <3>3. ~ Has(<<>>, n)
      <4>1. Len(<<>>) = 0 /\ 1 .. 0 = {}
        OBVIOUS
      <4> QED BY <4>1 DEF Has
    <3>4. CASE Has(q, n)
      BY <3>2, <3>3, <3>4
    <3>5. CASE Replaced(n, s, old)
      <4>1. n <= old => n <= new
        OBVIOUS
      <4> QED BY <3>5, <4>1 DEF Replaced
    <3>6. ASSUME NEW m \in Lanes, Has(ls[m].held, n)
          PROVE  Has(off2, n) \/ (\E l \in Lanes : Has(ls2[l].held, n)) \/ Replaced(n, s, new)
      <4>1. CASE m = k
        BY <3>3, <3>4, <3>6, <4>1
      <4>2. CASE m # k /\ ls2[m].held = ls[m].held
        BY <3>6, <4>2
      <4>3. CASE m = "move" /\ Len(s) <= new
        <5>1. PICK i \in 1 .. Len(ls[m].held) : n \in Of(ls[m].held[i])
          BY <3>6 DEF Has
        <5>2. Good(ls[m].held[i], s) /\ ls[m].held[i].kind = "move"
          BY <4>3 DEF Follows
        <5>3. s[n].kind = "move" /\ n <= new
          <6>1. s[n].kind = "move" /\ n \in 1 .. Len(s)
            BY <5>1, <5>2 DEF Good
          <6>2. Len(s) \in Nat
            OBVIOUS
          <6> QED BY <4>3, <6>1, <6>2
        <5> QED BY <5>3 DEF Replaced
      <4> QED BY <4>1, <4>2, <4>3
    <3> QED BY <3>1, <3>4, <3>5, <3>6
  <2> QED BY <2>1 DEF Kept
<1> QED BY <1>3, <1>4, <1>5, <1>6 DEF InLine

-----------------------------------------------------------------------------
(* The user's order: the next event.                                       *)

LEMMA OneMore ==
  ASSUME NEW s \in Seq(UserEvents), NEW u \in UserEvents
  PROVE  /\ Append(s, u) \in Seq(UserEvents)
         /\ Len(s) \in Nat /\ Len(Append(s, u)) = Len(s) + 1 /\ Append(s, u)[Len(s) + 1] = u
         /\ \A i \in 1 .. Len(s) : Append(s, u)[i] = s[i] /\ i \in 1 .. Len(Append(s, u))
         /\ \A i \in 1 .. Len(Append(s, u)) : i \in 1 .. Len(s) \/ i = Len(s) + 1
  OBVIOUS

\* What was in order stays so.
LEMMA LineGrows ==
  ASSUME NEW s \in Seq(UserEvents), NEW u \in UserEvents, NEW off, NEW q
  PROVE  /\ Lined(off, s) => Lined(off, Append(s, u))
         /\ Follows(off, q, s) => Follows(off, q, Append(s, u))
         /\ u.kind # "select" /\ Follows(off, q, s) /\ Selects(q, s)
              => Selects(q, Append(s, u))
<1> DEFINE p == Append(s, u)
<1>1. /\ Len(s) \in Nat /\ Len(p) = Len(s) + 1 /\ p[Len(s) + 1] = u
      /\ \A i \in 1 .. Len(s) : p[i] = s[i] /\ i \in 1 .. Len(p)
      /\ \A i \in 1 .. Len(p) : i \in 1 .. Len(s) \/ i = Len(s) + 1
  BY OneMore
<1> HIDE DEF p
<1>2. \A e : Good(e, s) => Good(e, p)
  BY <1>1 DEF Good
<1>3. Lined(off, s) => Lined(off, p)
  BY <1>2 DEF Lined
<1>4. Follows(off, q, s) => Follows(off, q, p)
  BY <1>2 DEF Follows
<1>5. ASSUME u.kind # "select", Follows(off, q, s), Selects(q, s) PROVE Selects(q, p)
  <2>1. ASSUME NEW j \in 1 .. Len(q), NEW n \in Nat, n \in Of(q[j])
        PROVE  /\ p[n].type = q[j].type
               /\ j = Len(q) => \A m \in 1 .. Len(p) : p[m].kind = "select" => m <= n
    <3>1. n \in 1 .. Len(s)
      BY <1>5, <2>1 DEF Follows, Good
    <3>2. p[n] = s[n] /\ s[n].type = q[j].type
      BY <1>1, <1>5, <2>1, <3>1 DEF Selects
    <3>3. ASSUME j = Len(q), NEW m \in 1 .. Len(p), p[m].kind = "select" PROVE m <= n
      <4>1. m \in 1 .. Len(s) /\ s[m].kind = "select"
        BY <1>1, <1>5, <3>3
      <4> QED BY <1>5, <2>1, <3>3, <4>1 DEF Selects
    <3> QED BY <3>2, <3>3
  <2> QED BY <2>1 DEF Selects
<1> QED BY <1>3, <1>4, <1>5 DEF p

\* A replacement stands.
LEMMA ReplacedGrows ==
  ASSUME NEW s \in Seq(UserEvents), NEW u \in UserEvents, NEW n \in 1 .. Len(s), NEW marked,
         Replaced(n, s, marked)
  PROVE  Replaced(n, Append(s, u), marked)
<1> DEFINE p == Append(s, u)
<1>1. Len(s) \in Nat /\ \A i \in 1 .. Len(s) : p[i] = s[i] /\ i \in 1 .. Len(p)
  BY OneMore
<1> SUFFICES Replaced(n, p, marked)
  OBVIOUS
<1> HIDE DEF p
<1>2. CASE s[n].kind = "move" /\ n <= marked
  BY <1>1, <1>2 DEF Replaced
<1>3. CASE s[n].kind = "caret" /\ \E m \in 1 .. Len(s) : m > n /\ s[m].kind = "caret"
  BY <1>1, <1>3 DEF Replaced
<1>4. CASE /\ s[n].kind = "select"
           /\ \E m \in 1 .. Len(s) :
                /\ m > n /\ s[m] = s[n]
                /\ \A j \in n + 1 .. m - 1 : s[j].kind # "select"
  <2>1. PICK m \in 1 .. Len(s) : /\ m > n /\ s[m] = s[n]
                                 /\ \A j \in n + 1 .. m - 1 : s[j].kind # "select"
    BY <1>4
  <2>2. m \in 1 .. Len(p) /\ p[m] = p[n] /\ p[n].kind = "select"
    BY <1>1, <1>4, <2>1
  <2>3. ASSUME NEW j \in n + 1 .. m - 1 PROVE p[j].kind # "select"
    <3>1. j \in 1 .. Len(s)
      BY <1>1
    <3> QED BY <1>1, <2>1, <3>1
  <2> QED BY <2>1, <2>2, <2>3 DEF Replaced
<1>5. \/ s[n].kind = "move" /\ n <= marked
      \/ s[n].kind = "caret" /\ \E m \in 1 .. Len(s) : m > n /\ s[m].kind = "caret"
      \/ /\ s[n].kind = "select"
         /\ \E m \in 1 .. Len(s) :
              /\ m > n /\ s[m] = s[n]
              /\ \A j \in n + 1 .. m - 1 : s[j].kind # "select"
  BY DEF Replaced
<1> QED BY <1>2, <1>3, <1>4, <1>5

\* The event of the user's newest action.
LEMMA EventGood ==
  ASSUME NEW s \in Seq(UserEvents), NEW u \in UserEvents, Len(s) < MaxEvents, NEW e,
         e = Event(u, Len(s) + 1)
  PROVE  /\ e \in Offers /\ e.kind = u.kind /\ e.type = u.type
         /\ e.of = <<Len(s) + 1>> /\ Of(e) = {Len(s) + 1} /\ Last(e.of) = Len(s) + 1
         /\ Good(e, Append(s, u))
<1> DEFINE n == Len(s) + 1
<1>1. n \in 1 .. MaxEvents /\ Len(s) \in Nat /\ n \in Nat
  BY RouterAssumption
<1>2. e.kind = u.kind /\ e.type = u.type /\ e.of = <<n>> /\ u.kind \in Kinds
  BY <1>1, EventType
<1>3. u.type \in Types
  BY DEF Types
<1>4. /\ Len(Append(s, u)) = n /\ Append(s, u)[n] = u
  BY OneMore
<1>5. e = [kind |-> u.kind, type |-> u.type, of |-> <<n>>]
  BY DEF Event
<1> HIDE DEF n
<1>6. /\ <<n>> \in Seq(1 .. MaxEvents) /\ <<n>> \in Seq(Nat) /\ <<n>> # <<>>
      /\ DOMAIN <<n>> = {1} /\ <<n>>[1] = n /\ Len(<<n>>) = 1
  BY <1>1
<1>7. ToSet(<<n>>) = {n} /\ Ascending(<<n>>) /\ Last(<<n>>) = n
  BY <1>6 DEF ToSet, Ascending, Last
<1>8. e \in Offers
  BY <1>2, <1>3, <1>5, <1>6 DEF Offers
<1>9. Good(e, Append(s, u))
  <2>1. Of(e) = {n}
    BY <1>2, <1>7 DEF Of
  <2>2. n \in 1 .. Len(Append(s, u)) /\ Append(s, u)[n].kind = e.kind
    BY <1>1, <1>2, <1>4
  <2> QED BY <1>2, <1>6, <1>7, <2>1, <2>2 DEF Good
<1> QED BY <1>2, <1>7, <1>8, <1>9 DEF Of, n

\* It is newer than any that was let go.
LEMMA LastIsOf ==
  ASSUME NEW e, NEW s \in Seq(UserEvents), Good(e, s)
  PROVE  Last(e.of) \in Of(e) /\ Last(e.of) \in 1 .. Len(s) /\ Last(e.of) \in Nat
<1>1. e.of \in Seq(Nat) /\ e.of # <<>>
  BY DEF Good
<1>2. Len(e.of) \in DOMAIN e.of
  BY <1>1
<1>3. Last(e.of) \in Of(e)
  BY <1>2 DEF Last, Of, ToSet
<1>4. Last(e.of) \in 1 .. Len(s)
  BY <1>3 DEF Good
<1> QED BY <1>3, <1>4

LEMMA AloneInLine ==
  ASSUME NEW s \in Seq(UserEvents), NEW u \in UserEvents, Len(s) < MaxEvents, NEW e,
         e = Event(u, Len(s) + 1), NEW off, Lined(off, s)
  PROVE  /\ Follows(off, <<e>>, Append(s, u))
         /\ u.kind = "select" => Selects(<<e>>, Append(s, u))
         /\ Has(<<e>>, Len(s) + 1)
<1> DEFINE n == Len(s) + 1
           p == Append(s, u)
           q == <<e>>
<1>1. /\ e.kind = u.kind /\ e.type = u.type /\ Of(e) = {n} /\ Last(e.of) = n /\ Good(e, p)
  BY EventGood
<1>2. /\ Len(s) \in Nat /\ Len(p) = n /\ p[n] = u
      /\ \A i \in 1 .. Len(p) : i \in 1 .. Len(s) \/ i = n
  BY OneMore
<1>3. n \in Nat /\ \A i \in 1 .. Len(s) : i < n
  BY <1>2
<1>4. Len(q) = 1 /\ q[1] = e /\ 1 .. Len(q) = {1}
  OBVIOUS
<1> HIDE DEF n, p, q
<1>5. Follows(off, q, p)
  <2>1. ASSUME NEW i \in 1 .. Len(off), NEW j \in 1 .. Len(q)
        PROVE  Before(off[i], q[j]) /\ Last(off[i].of) < Last(q[j].of)
    <3>1. Good(off[i], s) /\ q[j] = e
      BY <1>4 DEF Lined
    <3>2. Last(off[i].of) \in 1 .. Len(s) /\ \A m \in Of(off[i]) : m \in 1 .. Len(s)
      BY <3>1, LastIsOf DEF Good
    <3> QED BY <1>1, <1>3, <3>1, <3>2 DEF Before
  <2> QED BY <1>1, <1>4, <2>1 DEF Follows
<1>6. u.kind = "select" => Selects(q, p)
  <2>1. \A m \in 1 .. Len(p) : m <= n
    BY <1>2, <1>3
  <2> QED BY <1>1, <1>2, <1>4, <2>1 DEF Selects
<1>7. Has(q, n)
  BY <1>1, <1>4 DEF Has
<1> QED BY <1>5, <1>6, <1>7 DEF n, p, q

Adds(f, g, e) == f.of = g.of \o e.of

\* h is held with e behind it, joined to its last event, or in place of that.
JoinedTo(l, held, e, h) ==
  LET n == Len(held)
      k == Len(h)
  IN  /\ k \in 1 .. n + 1 /\ h[k].kind = l
      /\ \A i \in 1 .. k - 1 : i <= n /\ h[i] = held[i]
      /\ \/ k = n + 1 /\ h[k] = e
         \/ k = n /\ l # "select" /\ Adds(h[k], held[k], e)
         \/ k = n /\ l = "caret" /\ h[k] = e
         \/ k = n /\ l = "select" /\ h[k] = e /\ held[k].type = e.type

LEMMA HoldShape ==
  ASSUME NEW l \in Lanes, NEW held \in Seq(Sound), NEW e \in Sound, e.kind = l,
         \A i \in 1 .. Len(held) : held[i].kind = l,
         l \in {"move", "caret"} => Len(held) <= 1
  PROVE  JoinedTo(l, held, e, Hold(l, held, e))
<1> DEFINE h == Hold(l, held, e)
           n == Len(held)
<1> SUFFICES JoinedTo(l, held, e, h)
  OBVIOUS
<1>1. n \in Nat /\ (held = <<>> <=> n = 0) /\ (l \in {"move", "caret"} => n <= 1)
  OBVIOUS
<1>2. ASSUME h = Append(held, e) PROVE JoinedTo(l, held, e, h)
  <2>1. /\ Len(h) = n + 1 /\ h[n + 1] = e /\ \A i \in 1 .. n : h[i] = held[i]
    BY <1>2
  <2> HIDE DEF h
  <2> QED BY <1>1, <2>1 DEF JoinedTo
<1>3. ASSUME held = <<>>, h = <<e>> PROVE JoinedTo(l, held, e, h)
  <2>1. Len(h) = 1 /\ h[1] = e /\ n = 0 /\ 1 = n + 1
    BY <1>3
  <2> HIDE DEF h
  <2> QED BY <2>1 DEF JoinedTo
<1>4. ASSUME held # <<>>, NEW f \in Sound, f.kind = l,
             h = ReplaceLast(held, f) \/ (n = 1 /\ h = <<f>>),
             \/ l # "select" /\ Adds(f, Last(held), e)
             \/ l = "caret" /\ f = e
             \/ l = "select" /\ f = e /\ Last(held).type = e.type
      PROVE  JoinedTo(l, held, e, h)
  <2>1. Last(held) = held[n]
    BY DEF Last
  <2>2. Len(h) = n /\ h[n] = f /\ \A i \in 1 .. n - 1 : h[i] = held[i]
    <3>1. CASE h = ReplaceLast(held, f)
      <4>1. /\ Len(ReplaceLast(held, f)) = n /\ ReplaceLast(held, f)[n] = f
            /\ \A i \in 1 .. n - 1 : ReplaceLast(held, f)[i] = held[i]
        BY <1>4, ReplaceLastPlaces
      <4> QED BY <3>1, <4>1
    <3>2. CASE n = 1 /\ h = <<f>>
      BY <3>2
    <3> QED BY <1>4, <3>1, <3>2
  <2>3. n \in 1 .. n + 1
    BY <1>1, <1>4
  <2> HIDE DEF h, n
  <2> SUFFICES JoinedTo(l, held, e, h)
    OBVIOUS
  <2>4. /\ Len(held) = n /\ Len(h) = n /\ n \in 1 .. n + 1 /\ h[n].kind = l /\ n \in Nat
        /\ \A i \in 1 .. n - 1 : i <= n /\ h[i] = held[i]
    BY <1>1, <1>4, <2>2, <2>3 DEF n
  <2> QED BY <1>4, <2>1, <2>2, <2>4 DEF JoinedTo
<1>5. CASE l = "move"
  <2>1. CASE held = <<>>
    <3>1. h = <<e>>
      BY <1>5, <2>1 DEF Hold
    <3> QED BY <1>3, <2>1, <3>1
  <2>2. CASE held # <<>>
    <3> DEFINE f == CoalesceWith(held[1], e)
    <3>1. n = 1 /\ held[1] \in Sound /\ h = <<f>> /\ held[1] = Last(held)
      BY <1>1, <1>5, <2>2 DEF Hold, Last
    <3>2. f \in Sound /\ f.kind = l /\ Adds(f, Last(held), e)
      BY <3>1, CoalescedType DEF Adds
    <3> HIDE DEF f, h
    <3> QED BY <1>4, <1>5, <2>2, <3>1, <3>2
  <2> QED BY <2>1, <2>2
<1>6. CASE l = "caret"
  <2>1. h = <<e>>
    BY <1>6 DEF Hold
  <2>2. CASE held = <<>>
    BY <1>3, <2>1, <2>2
  <2>3. CASE held # <<>>
    <3> HIDE DEF h, n
    <3>1. n = 1
      BY <1>1, <1>6, <2>3
    <3> QED BY <1>4, <1>6, <2>1, <2>3, <3>1
  <2> QED BY <2>2, <2>3
<1>7. CASE l = "gesture"
  <2>1. h = Append(held, e)
    BY <1>7 DEF Hold
  <2> QED BY <1>2, <2>1
<1>8. CASE l = "wheel"
  <2>1. CASE JoinsLast(held, e)
    <3> DEFINE f == CoalesceWith(Last(held), e)
    <3>1. h = ReplaceLast(held, f) /\ held # <<>> /\ Last(held) \in Sound
      BY <1>8, <2>1 DEF Hold, JoinsLast, Last
    <3>2. f \in Sound /\ f.kind = l /\ Adds(f, Last(held), e)
      BY <3>1, CoalescedType DEF Adds
    <3> HIDE DEF f, h
    <3> QED BY <1>4, <1>8, <3>1, <3>2
  <2>2. CASE ~ JoinsLast(held, e)
    BY <1>2, <1>8, <2>2 DEF Hold
  <2> QED BY <2>1, <2>2
<1>9. CASE l = "select"
  <2>1. CASE JoinsLast(held, e)
    <3>1. h = ReplaceLast(held, e) /\ held # <<>> /\ Last(held).type = e.type
      BY <1>9, <2>1 DEF Hold, JoinsLast
    <3> HIDE DEF h
    <3> QED BY <1>4, <1>9, <3>1
  <2>2. CASE ~ JoinsLast(held, e)
    BY <1>2, <1>9, <2>2 DEF Hold
  <2> QED BY <2>1, <2>2
<1> QED BY <1>5, <1>6, <1>7, <1>8, <1>9 DEF Lanes, PointerLanes, EditLanes

\* An event that stands for one more user event than g.
LEMMA OneMoreOf ==
  ASSUME NEW s \in Seq(UserEvents), NEW u \in UserEvents, NEW g, Good(g, s), NEW f,
         f.of = g.of \o <<Len(s) + 1>>, f.kind = u.kind, g.kind = u.kind
  PROVE  /\ Good(f, Append(s, u)) /\ Of(f) = Of(g) \cup {Len(s) + 1}
         /\ Last(f.of) = Len(s) + 1
<1> DEFINE p == Append(s, u)
           n == Len(s) + 1
           a == g.of
           k == Len(a)
<1>1. a \in Seq(Nat) /\ a # <<>> /\ Ascending(a) /\ k \in Nat
  BY DEF Good
<1>2. /\ Len(s) \in Nat /\ Len(p) = Len(s) + 1 /\ p[Len(s) + 1] = u
      /\ \A i \in 1 .. Len(s) : p[i] = s[i] /\ i \in 1 .. Len(p)
  BY OneMore
<1>3. \A m \in Of(g) : m \in 1 .. Len(s) /\ s[m].kind = g.kind
  BY DEF Good
<1>4. n \in Nat /\ n \in 1 .. Len(p) /\ p[n] = u
  BY <1>2
<1>5. /\ f.of \in Seq(Nat) /\ Len(f.of) = k + 1 /\ f.of # <<>>
      /\ \A i \in 1 .. k : f.of[i] = a[i]
      /\ f.of[k + 1] = n
  BY <1>1, <1>4
<1>6. \A i \in 1 .. k : a[i] \in Of(g) /\ a[i] < n
  <2> TAKE i \in 1 .. k
  <2>1. a[i] \in Of(g)
    BY DEF Of, ToSet
  <2> QED BY <1>2, <1>3, <2>1
<1>7. DOMAIN f.of = 1 .. k + 1 /\ DOMAIN a = 1 .. k
  BY <1>1, <1>5
<1> DEFINE b == f.of
<1>8. Of(f) = Of(g) \cup {n}
  <2>1. \A x : x \in Of(f) <=> \E i \in 1 .. k + 1 : x = b[i]
    BY <1>7 DEF Of, ToSet
  <2>2. \A x : x \in Of(g) <=> \E i \in 1 .. k : x = a[i]
    BY <1>7 DEF Of, ToSet
  <2>3. \A i \in 1 .. k + 1 : i \in 1 .. k \/ i = k + 1
    BY <1>1
  <2>4. \A i \in 1 .. k : i \in 1 .. k + 1
    BY <1>1
  <2>5. k + 1 \in 1 .. k + 1
    BY <1>1
  <2>9. (\A i \in 1 .. k : b[i] = a[i]) /\ b[k + 1] = n
    BY <1>5
  <2> HIDE DEF a, k, b
  <2>6. ASSUME NEW x \in Of(f) PROVE x \in Of(g) \cup {n}
    BY <2>1, <2>2, <2>3, <2>9
  <2>7. ASSUME NEW x \in Of(g) PROVE x \in Of(f)
    BY <2>1, <2>2, <2>4, <2>9
  <2>8. n \in Of(f)
    BY <2>1, <2>5, <2>9
  <2> QED BY <2>6, <2>7, <2>8
<1>9. Ascending(f.of)
  <2>1. ASSUME NEW i \in 1 .. k + 1, NEW j \in 1 .. k + 1, i < j PROVE f.of[i] < f.of[j]
    <3>1. i \in 1 .. k
      BY <1>1, <2>1
    <3>2. CASE j = k + 1
      BY <1>5, <1>6, <3>1, <3>2
    <3>3. CASE j \in 1 .. k
      BY <1>1, <1>5, <1>7, <2>1, <3>1, <3>3 DEF Ascending
    <3> QED BY <1>1, <3>2, <3>3, SMTT(30)
  <2> QED BY <1>7, <2>1 DEF Ascending
<1>10. Last(f.of) = n
  BY <1>5 DEF Last
<1>11. \A m \in Of(f) : m \in 1 .. Len(p) /\ p[m].kind = f.kind
  BY <1>2, <1>3, <1>4, <1>8
<1>12. Good(f, p)
  BY <1>5, <1>9, <1>11 DEF Good
<1> QED BY <1>8, <1>10, <1>12

\* What is held stays in order when the newest event joins it.
LEMMA JoinFollows ==
  ASSUME NEW s \in Seq(UserEvents), NEW u \in UserEvents, Len(s) < MaxEvents,
         NEW e, e = Event(u, Len(s) + 1), NEW off, Lined(off, s),
         NEW held \in Seq(Sound), \A i \in 1 .. Len(held) : held[i].kind = u.kind,
         Follows(off, held, s), NEW h, JoinedTo(u.kind, held, e, h)
  PROVE  /\ Follows(off, h, Append(s, u))
         /\ Good(h[Len(h)], Append(s, u)) /\ Len(s) + 1 \in Of(h[Len(h)])
<1> DEFINE p == Append(s, u)
           n == Len(s) + 1
           k == Len(h)
           f == h[k]
<1>1. /\ e.kind = u.kind /\ e.type = u.type /\ e.of = <<n>> /\ Of(e) = {n}
      /\ Last(e.of) = n /\ Good(e, p)
  BY EventGood
<1>2. /\ Len(s) \in Nat /\ n \in Nat /\ \A i \in 1 .. Len(s) : i < n
      /\ Len(p) = n /\ Follows(off, held, p)
  BY OneMore, LineGrows
<1>3. /\ k \in 1 .. Len(held) + 1 /\ f.kind = u.kind
      /\ \A i \in 1 .. k - 1 : i <= Len(held) /\ h[i] = held[i]
      /\ \/ f = e
         \/ k = Len(held) /\ Adds(f, held[k], e)
  BY DEF JoinedTo
<1>4. Len(held) \in Nat /\ k \in Nat /\ \A i \in 1 .. k - 1 : i \in 1 .. Len(held)
  BY <1>3
<1>5. ASSUME k = Len(held), Adds(f, held[k], e)
      PROVE  Good(f, p) /\ Of(f) = Of(held[k]) \cup {n} /\ Last(f.of) = n
  <2>1. k \in 1 .. Len(held)
    BY <1>3, <1>5
  <2>2. Good(held[k], s) /\ held[k].kind = u.kind
    BY <2>1 DEF Follows
  <2>3. f.of = held[k].of \o <<n>>
    BY <1>1, <1>5 DEF Adds
  <2>4. f.kind = u.kind /\ f.of = held[k].of \o <<Len(s) + 1>>
    BY <1>3, <2>3
  <2> HIDE DEF f, k
  <2> QED BY <2>2, <2>4, OneMoreOf
<1>6. /\ Good(f, p) /\ n \in Of(f) /\ Last(f.of) = n
      /\ \/ Of(f) = {n}
         \/ k = Len(held) /\ k \in 1 .. Len(held) /\ Of(f) = Of(held[k]) \cup {n}
  <2>1. CASE f = e
    BY <1>1, <2>1
  <2>2. CASE k = Len(held) /\ Adds(f, held[k], e)
    <3>1. k \in 1 .. Len(held)
      BY <1>3, <2>2
    <3> QED BY <1>5, <2>2, <3>1
  <2> QED BY <1>3, <2>1, <2>2
<1> HIDE DEF p, n, k, f
<1>7. Follows(off, h, p)
  <2>1. ASSUME NEW i \in 1 .. k
        PROVE  \/ i \in 1 .. k - 1 /\ h[i] = held[i] /\ i \in 1 .. Len(held)
               \/ i = k /\ h[i] = f
    <3>1. i \in 1 .. k - 1 \/ i = k
      BY <1>4
    <3> QED BY <1>3, <1>4, <3>1 DEF f
  <2>2. ASSUME NEW i \in 1 .. k PROVE Good(h[i], p)
    BY <1>2, <1>6, <2>1 DEF Follows
  <2>3. ASSUME NEW i \in 1 .. k, NEW j \in 1 .. k, i < j PROVE Before(h[i], h[j])
    <3>1. i \in 1 .. k - 1
      BY <1>4, <2>3
    <3>2. h[i] = held[i] /\ i \in 1 .. Len(held)
      BY <1>3, <1>4, <3>1
    <3>3. CASE j \in 1 .. k - 1 /\ h[j] = held[j] /\ j \in 1 .. Len(held)
      BY <2>3, <3>2, <3>3 DEF Follows
    <3>4. CASE j = k /\ h[j] = f
      <4>1. \A x \in Of(held[i]) : x < n
        BY <1>2, <3>2 DEF Follows, Good
      <4>2. CASE Of(f) = {n}
        BY <3>2, <3>4, <4>1, <4>2 DEF Before
      <4>3. CASE k \in 1 .. Len(held) /\ Of(f) = Of(held[k]) \cup {n}
        <5>1. Before(held[i], held[k])
          BY <2>3, <3>2, <3>4, <4>3 DEF Follows
        <5> QED BY <3>2, <3>4, <4>1, <4>3, <5>1 DEF Before
      <4> QED BY <1>6, <4>2, <4>3
    <3> QED BY <2>1, <3>3, <3>4
  <2>4. ASSUME NEW i \in 1 .. Len(off), NEW j \in 1 .. k
        PROVE  /\ off[i].kind = h[j].kind => Before(off[i], h[j])
               /\ h[j].kind = "move" /\ off[i].kind \notin EditLanes
                    => Last(off[i].of) < Last(h[j].of)
    <3>1. CASE j \in 1 .. k - 1 /\ h[j] = held[j] /\ j \in 1 .. Len(held)
      BY <3>1 DEF Follows
    <3>2. CASE j = k /\ h[j] = f
      <4>1. Good(off[i], s)
        BY DEF Lined
      <4>2. /\ \A x \in Of(off[i]) : x < n
            /\ Last(off[i].of) < n
        <5>1. Last(off[i].of) \in Of(off[i])
          BY <4>1, LastIsOf
        <5> QED BY <1>2, <4>1, <5>1 DEF Good
      <4>3. off[i].kind = f.kind => Before(off[i], f)
        <5>1. CASE Of(f) = {n}
          BY <4>2, <5>1 DEF Before
        <5>2. CASE k \in 1 .. Len(held) /\ Of(f) = Of(held[k]) \cup {n}
          <6>1. off[i].kind = f.kind => Before(off[i], held[k])
            BY <1>3, <5>2 DEF Follows
          <6> QED BY <4>2, <5>2, <6>1 DEF Before
        <5> QED BY <1>6, <5>1, <5>2
      <4> QED BY <1>6, <3>2, <4>2, <4>3
    <3> QED BY <2>1, <3>1, <3>2
  <2> QED BY <2>2, <2>3, <2>4 DEF Follows, k
<1> QED BY <1>5, <1>6, <1>7 DEF p, n, k, f

LEMMA JoinSelects ==
  ASSUME NEW s \in Seq(UserEvents), NEW u \in UserEvents, Len(s) < MaxEvents,
         NEW e, e = Event(u, Len(s) + 1), NEW off, NEW held, Follows(off, held, s),
         u.kind = "select", Selects(held, s), NEW h, JoinedTo(u.kind, held, e, h),
         Len(held) \in Nat
  PROVE  Selects(h, Append(s, u))
<1> DEFINE p == Append(s, u)
           n == Len(s) + 1
           k == Len(h)
<1>1. /\ e.type = u.type /\ Of(e) = {n}
  BY EventGood
<1>2. /\ Len(s) \in Nat /\ n \in Nat /\ Len(p) = n /\ p[n] = u
      /\ \A i \in 1 .. Len(s) : p[i] = s[i]
  BY OneMore
<1>3. /\ k \in 1 .. Len(held) + 1 /\ h[k] = e
      /\ \A i \in 1 .. k - 1 : i <= Len(held) /\ h[i] = held[i]
  BY DEF JoinedTo
<1> SUFFICES Selects(h, p)
  OBVIOUS
<1> HIDE DEF p, n
<1>4. ASSUME NEW j \in 1 .. Len(h), NEW x \in Nat, x \in Of(h[j])
      PROVE  /\ p[x].type = h[j].type
             /\ j = Len(h) => \A m \in 1 .. Len(p) : p[m].kind = "select" => m <= x
  <2>1. CASE j = k
    <3>1. x = n /\ h[j] = e
      BY <1>1, <1>3, <1>4, <2>1
    <3> QED BY <1>1, <1>2, <3>1
  <2>2. CASE j # k
    <3>1. j \in 1 .. k - 1 /\ j \in 1 .. Len(held)
      BY <1>3, <2>2
    <3>2. h[j] = held[j]
      BY <1>3, <3>1
    <3>3. x \in 1 .. Len(s) /\ s[x].type = held[j].type
      BY <1>4, <3>1, <3>2 DEF Follows, Good, Selects
    <3> QED BY <1>2, <2>2, <3>2, <3>3
  <2> QED BY <2>1, <2>2
<1> QED BY <1>4 DEF Selects

\* What the newest event replaces was replaced by the rules of its class.
LEMMA JoinKeeps ==
  ASSUME NEW s \in Seq(UserEvents), NEW u \in UserEvents, Len(s) < MaxEvents,
         NEW e, e = Event(u, Len(s) + 1), NEW off, NEW held \in Seq(Sound),
         Lined(off, s), \A i \in 1 .. Len(held) : held[i].kind = u.kind, Follows(off, held, s),
         u.kind = "select" => Selects(held, s), NEW h, JoinedTo(u.kind, held, e, h),
         NEW x \in 1 .. Len(s), Has(held, x), NEW marked
  PROVE  Has(h, x) \/ Replaced(x, Append(s, u), marked)
<1> DEFINE p == Append(s, u)
           n == Len(s) + 1
           k == Len(h)
<1>1. /\ e.type = u.type /\ e.of = <<n>>
  BY EventGood
<1>2. /\ Len(s) \in Nat /\ n \in Nat /\ Len(p) = n /\ p[n] = u /\ n \in 1 .. Len(p)
      /\ \A i \in 1 .. Len(s) : p[i] = s[i]
      /\ n > x
  BY OneMore
<1>3. /\ Len(held) \in Nat /\ k \in 1 .. Len(held) + 1 /\ h[k].kind = u.kind
      /\ \A i \in 1 .. k - 1 : h[i] = held[i]
      /\ \/ k = Len(held) + 1
         \/ k = Len(held) /\ Adds(h[k], held[k], e)
         \/ k = Len(held) /\ u.kind = "caret"
         \/ k = Len(held) /\ u.kind = "select" /\ held[k].type = e.type
  <2>1. Len(held) \in Nat
    OBVIOUS
  <2> QED BY <2>1 DEF JoinedTo
<1>4. ASSUME k \in 1 .. Len(held), Adds(h[k], held[k], e)
      PROVE  Of(h[k]) = Of(held[k]) \cup {n}
  <2> DEFINE f == h[k]
             g == held[k]
  <2>1. Good(g, s) /\ g.kind = u.kind
    BY <1>4 DEF Follows
  <2>2. f.of = g.of \o <<Len(s) + 1>> /\ f.kind = u.kind
    BY <1>1, <1>3, <1>4 DEF Adds
  <2>3. Of(f) = Of(g) \cup {Len(s) + 1}
    <3> HIDE DEF f, g, k
    <3> QED BY <2>1, <2>2, OneMoreOf
  <2> QED BY <2>3
<1>5. PICK i \in 1 .. Len(held) : x \in Of(held[i])
  BY DEF Has
<1>6. x \in 1 .. Len(s) /\ s[x].kind = u.kind
  BY <1>5 DEF Follows, Good
<1> SUFFICES Has(h, x) \/ Replaced(x, p, marked)
  OBVIOUS
<1> HIDE DEF p, n
<1>7. CASE i \in 1 .. k - 1
  <2>1. i \in 1 .. Len(h) /\ h[i] = held[i]
    BY <1>3, <1>7
  <2> QED BY <1>5, <2>1 DEF Has
<1>8. CASE i \notin 1 .. k - 1
  <2>1. i = k /\ k = Len(held) /\ i \in 1 .. Len(h) /\ k # Len(held) + 1
    <3> HIDE DEF k
    <3>1. i = k /\ k = Len(held) /\ i \in 1 .. k /\ k # Len(held) + 1
      BY <1>3, <1>8
    <3> QED BY <3>1 DEF k
  <2>2. CASE Adds(h[k], held[k], e)
    BY <1>4, <1>5, <2>1, <2>2 DEF Has
  <2>3. CASE u.kind = "caret"
    <3>1. p[x].kind = "caret" /\ p[n].kind = "caret"
      BY <1>2, <1>6, <2>3
    <3> QED BY <1>2, <3>1 DEF Replaced
  <2>4. CASE u.kind = "select" /\ held[k].type = e.type
    <3>1. s[x].type = held[k].type /\ \A m \in 1 .. Len(s) : s[m].kind = "select" => m <= x
      BY <1>5, <2>1, <2>4 DEF Selects
    <3>2. s[x] = u
      <4>1. s[x] \in UserEvents
        BY <1>6
      <4>2. s[x] = [kind |-> s[x].kind, type |-> s[x].type] /\ u = [kind |-> u.kind, type |-> u.type]
        BY <4>1, RouterAssumption
      <4> QED BY <1>1, <1>6, <2>4, <3>1, <4>2
    <3>3. p[x] = p[n] /\ p[x].kind = "select"
      BY <1>2, <1>6, <2>4, <3>2
    <3>4. ASSUME NEW j \in x + 1 .. n - 1 PROVE p[j].kind # "select"
      <4>1. j \in 1 .. Len(s) /\ ~ (j <= x)
        BY <1>2 DEF n
      <4> QED BY <1>2, <3>1, <4>1
    <3> QED BY <1>2, <3>3, <3>4 DEF Replaced
  <2> QED BY <1>3, <2>1, <2>2, <2>3, <2>4
<1> QED BY <1>7, <1>8

LEMMA JoinInLine ==
  ASSUME NEW s \in Seq(UserEvents), NEW u \in UserEvents, Len(s) < MaxEvents,
         NEW e, e = Event(u, Len(s) + 1), NEW off, NEW ls, NEW ls2, NEW marked,
         u.kind \in Lanes, InLine(off, ls, s, marked),
         ls[u.kind].held \in Seq(Sound),
         \A i \in 1 .. Len(ls[u.kind].held) : ls[u.kind].held[i].kind = u.kind,
         JoinedTo(u.kind, ls[u.kind].held, e, ls2[u.kind].held),
         \A m \in Lanes \ {u.kind} : ls2[m] = ls[m]
  PROVE  InLine(off, ls2, Append(s, u), marked)
<1> DEFINE p    == Append(s, u)
           n    == Len(s) + 1
           held == ls[u.kind].held
           h    == ls2[u.kind].held
<1>1. /\ off \in Seq(Offers) /\ Lined(off, s) /\ \A m \in Lanes : Follows(off, ls[m].held, s)
      /\ Selects(ls["select"].held, s) /\ Kept(off, ls, s, marked)
  BY DEF InLine
<1>2. /\ held \in Seq(Sound) /\ \A i \in 1 .. Len(held) : held[i].kind = u.kind
      /\ JoinedTo(u.kind, held, e, h) /\ Follows(off, held, s)
      /\ u.kind = "select" => Selects(held, s)
      /\ Len(held) \in Nat
  BY <1>1
<1>3. Lined(off, p)
  BY <1>1, LineGrows
<1>4. "select" \in Lanes
  BY DEF Lanes, EditLanes
<1> HIDE DEF held, h
<1>5. Follows(off, h, p) /\ n \in Of(h[Len(h)])
  BY <1>1, <1>2, JoinFollows
<1>6. ASSUME NEW m \in Lanes PROVE Follows(off, ls2[m].held, p)
  <2>1. CASE m = u.kind
    BY <1>5, <2>1 DEF h
  <2>2. CASE m # u.kind
    BY <1>1, <2>2, LineGrows
  <2> QED BY <2>1, <2>2
<1>7. Selects(ls2["select"].held, p)
  <2>1. CASE u.kind = "select"
    <3>1. Selects(h, p)
      BY <1>2, <2>1, JoinSelects
    <3> QED BY <2>1, <3>1 DEF h
  <2>2. CASE u.kind # "select"
    BY <1>1, <1>4, <2>2, LineGrows
  <2> QED BY <2>1, <2>2
<1>8. Kept(off, ls2, p, marked)
  <2>1. ASSUME NEW x \in 1 .. Len(p)
        PROVE  Has(off, x) \/ (\E l \in Lanes : Has(ls2[l].held, x)) \/ Replaced(x, p, marked)
    <3>1. CASE x = n
      <4>1. Len(h) \in 1 .. Len(h)
        <5>1. Len(h) \in 1 .. Len(held) + 1
          BY <1>2 DEF JoinedTo
        <5> QED BY <1>2, <5>1
      <4>2. Has(h, x)
        BY <1>5, <3>1, <4>1 DEF Has
      <4> QED BY <4>2 DEF h
    <3>2. CASE x # n
      <4>1. x \in 1 .. Len(s)
        BY <3>2, OneMore
      <4>2. CASE Has(off, x)
        BY <4>2
      <4>3. CASE Replaced(x, s, marked)
        BY <4>1, <4>3, ReplacedGrows
      <4>4. ASSUME NEW m \in Lanes, Has(ls[m].held, x)
            PROVE  (\E l \in Lanes : Has(ls2[l].held, x)) \/ Replaced(x, p, marked)
        <5>1. CASE m = u.kind
          <6>1. Has(held, x)
            BY <4>4, <5>1 DEF held
          <6>2. Has(h, x) \/ Replaced(x, p, marked)
            BY <1>1, <1>2, <4>1, <6>1, JoinKeeps
          <6> QED BY <6>2 DEF h
        <5>2. CASE m # u.kind
          BY <4>4, <5>2
        <5> QED BY <5>1, <5>2
      <4> QED BY <1>1, <4>1, <4>2, <4>3, <4>4 DEF Kept
    <3> QED BY <3>1, <3>2
  <2> QED BY <2>1 DEF Kept
<1> QED BY <1>1, <1>3, <1>6, <1>7, <1>8 DEF InLine

-----------------------------------------------------------------------------
(* The user's order: every step.                                           *)

LEMMA SoundOffers ==
  ASSUME NEW q \in Seq(Sound) PROVE q \in Seq(Offers)
<1>1. \A m \in Sound : m \in Offers
  BY DEF Sound, Messages, Offers
<1> QED BY <1>1

\* Emptying a lane moves the first events of q.
LEMMA DrainMoves ==
  ASSUME NEW off \in Seq(Offers), NEW q \in Seq(Offers), NEW k \in 0 .. Len(q)
  PROVE  \E t \in 0 .. Len(q), off2 \in Seq(Offers) :
           /\ off2 = off \o SubSeq(q, 1, IF k < Len(q) THEN k + 1 ELSE k)
           /\ Moved(off, q, t, off2, SubSeq(q, k + 2, Len(q)))
           /\ t > 0 <=> q # <<>>
<1> DEFINE t    == IF k < Len(q) THEN k + 1 ELSE k
           head == SubSeq(q, 1, t)
           rest == SubSeq(q, k + 2, Len(q))
           off2 == off \o head
<1>1. Len(q) \in Nat /\ t \in 0 .. Len(q) /\ t \in Nat /\ k \in Nat
  OBVIOUS
<1>2. Len(q) - t = IF k + 2 <= Len(q) THEN Len(q) - (k + 2) + 1 ELSE 0
  <2>1. CASE k < Len(q)
    <3>1. t = k + 1 /\ (k + 2 <= Len(q) \/ Len(q) = k + 1)
      BY <1>1, <2>1
    <3> HIDE DEF t
    <3> QED BY <1>1, <3>1
  <2>2. CASE ~ (k < Len(q))
    BY <1>1, <2>2
  <2> QED BY <2>1, <2>2
<1>3. \A i \in 1 .. Len(q) - t : t = k + 1 /\ k + 2 + i - 1 = t + i
  BY <1>1
<1>4. t > 0 <=> q # <<>>
  BY <1>1
<1> HIDE DEF t
<1>5. head \in Seq(Offers) /\ Len(head) = t /\ \A i \in 1 .. t : head[i] = q[i]
  <2>1. 1 \in Int /\ t \in Int /\ \A i \in 1 .. t : q[i] \in Offers
    BY <1>1
  <2> HIDE DEF head
  <2>2. /\ head \in Seq(Offers)
        /\ Len(head) = IF 1 <= t THEN t - 1 + 1 ELSE 0
        /\ \A i \in 1 .. t - 1 + 1 : head[i] = q[1 + i - 1]
    BY <2>1, SubSeqProperties DEF head
  <2>3. Len(head) = t
    BY <1>1, <2>2
  <2>4. ASSUME NEW i \in 1 .. t PROVE head[i] = q[i]
    <3>1. i \in 1 .. t - 1 + 1 /\ 1 + i - 1 = i
      BY <1>1
    <3> QED BY <2>2, <3>1
  <2> QED BY <2>2, <2>3, <2>4
<1>6. Len(rest) = Len(q) - t /\ \A i \in 1 .. Len(q) - t : rest[i] = q[t + i]
  <2>1. k + 2 \in Int /\ Len(q) \in Int /\ \A i \in k + 2 .. Len(q) : q[i] \in Offers
    BY <1>1
  <2>2. /\ Len(rest) = IF k + 2 <= Len(q) THEN Len(q) - (k + 2) + 1 ELSE 0
        /\ \A i \in 1 .. Len(q) - (k + 2) + 1 : rest[i] = q[k + 2 + i - 1]
    BY <2>1, SubSeqProperties
  <2> HIDE DEF rest
  <2>3. Len(rest) = Len(q) - t
    BY <1>2, <2>2
  <2>4. ASSUME NEW i \in 1 .. Len(q) - t PROVE rest[i] = q[t + i]
    <3>1. t = k + 1 /\ k + 2 + i - 1 = t + i
      BY <1>3
    <3>2. i \in 1 .. Len(q) - (k + 2) + 1
      BY <1>1, <3>1
    <3>3. rest[i] = q[k + 2 + i - 1]
      BY <2>2, <3>2
    <3> QED BY <3>1, <3>3
  <2> QED BY <2>3, <2>4
<1> HIDE DEF head, rest
<1>7. /\ off2 \in Seq(Offers) /\ Len(off2) = Len(off) + t /\ Len(off) \in Nat
      /\ \A i \in 1 .. Len(off) + t :
           off2[i] = IF i <= Len(off) THEN off[i] ELSE head[i - Len(off)]
  <2>1. head \in Seq(Offers)
    BY <1>5
  <2>2. /\ off2 \in Seq(Offers) /\ Len(off2) = Len(off) + Len(head) /\ Len(off) \in Nat
        /\ \A i \in 1 .. Len(off) + Len(head) :
             off2[i] = IF i <= Len(off) THEN off[i] ELSE head[i - Len(off)]
    BY <2>1, ConcatProperties
  <2>3. Len(head) = t
    BY <1>5
  <2> HIDE DEF off2
  <2> QED BY <2>2, <2>3
<1> HIDE DEF off2
<1>8. \A i \in 1 .. Len(off) : off2[i] = off[i]
  BY <1>1, <1>7
<1>9. \A i \in 1 .. t : off2[Len(off) + i] = q[i]
  <2> TAKE i \in 1 .. t
  <2>1. /\ Len(off) + i \in 1 .. Len(off) + t /\ ~ (Len(off) + i <= Len(off))
        /\ Len(off) + i - Len(off) = i
    BY <1>1, <1>7
  <2>2. off2[Len(off) + i] = head[Len(off) + i - Len(off)]
    BY <1>7, <2>1
  <2> QED BY <1>5, <2>1, <2>2
<1>10. Moved(off, q, t, off2, rest)
  BY <1>1, <1>6, <1>7, <1>8, <1>9 DEF Moved
<1>11. off2 = off \o SubSeq(q, 1, t)
  BY DEF off2, head
<1>12. /\ off2 = off \o SubSeq(q, 1, IF k < Len(q) THEN k + 1 ELSE k)
       /\ Moved(off, q, t, off2, SubSeq(q, k + 2, Len(q)))
  BY <1>10, <1>11 DEF t, rest
<1> QED BY <1>1, <1>4, <1>7, <1>12

\* Emptying a lane, by the renderer's answer or by the newest event, keeps the order.
LEMMA DrainInLine ==
  ASSUME TidyLanes(lane), NEW l \in Lanes, NEW q \in Seq(Sound),
         \A i \in 1 .. Len(q) : q[i].kind = l, l \in {"move", "caret"} => Len(q) <= 1,
         NEW w, NEW count, NEW acked, Drain(l, q, w, count, acked), Mark,
         NEW s \in Seq(UserEvents), s = seen', latest \in 0 .. Len(s),
         offered \in Seq(Offers), Waiting(offered, q, l, lane, s, latest)
  PROVE  InLine(offered', lane', s, latest')
<1>1. PICK k \in 0 .. Len(q) :
        /\ Drained(lane', l, q, k)
        /\ offered' = offered \o SubSeq(q, 1, IF k < Len(q) THEN k + 1 ELSE k)
  BY DrainSteps
<1>2. q \in Seq(Offers)
  BY SoundOffers
<1>3. PICK t \in 0 .. Len(q), off2 \in Seq(Offers) :
        /\ off2 = offered \o SubSeq(q, 1, IF k < Len(q) THEN k + 1 ELSE k)
        /\ Moved(offered, q, t, off2, SubSeq(q, k + 2, Len(q)))
        /\ t > 0 <=> q # <<>>
  BY <1>2, DrainMoves
<1> DEFINE rest == SubSeq(q, k + 2, Len(q))
<1>4. /\ offered' = off2 /\ Moved(offered, q, t, off2, rest)
      /\ lane'[l].held = rest
  BY <1>1, <1>3 DEF Drained
<1> HIDE DEF rest
<1>5. Len(s) \in Nat /\ latest \in Nat /\ latest' \in Nat /\ latest <= latest'
      /\ latest' \in {latest, Len(s)}
  BY DEF Mark
<1>6. l \in PointerLanes /\ q # <<>> => latest' = Len(s)
  <2> SUFFICES ASSUME l \in PointerLanes, q # <<>> PROVE latest' = Len(s)
    OBVIOUS
  <2> DEFINE i == Len(offered) + 1
  <2>1. /\ Len(offered) \in Nat /\ Len(offered') = Len(offered) + t /\ t \in Nat /\ t > 0
        /\ offered' \in Seq(Offers)
    BY <1>3, <1>4 DEF Moved
  <2>2. i \in DOMAIN offered' /\ i \notin DOMAIN offered
    BY <2>1
  <2>3. offered'[i] = q[1] /\ 1 \in 1 .. Len(q)
    BY <1>3, <1>4, <2>1 DEF Moved
  <2>4. offered'[i].kind \notin EditLanes
    BY <2>3 DEF PointerLanes, EditLanes
  <2> HIDE DEF i
  <2> QED BY <2>2, <2>4 DEF Mark
<1>7. ASSUME NEW m \in Lanes \ {l}
      PROVE  \/ lane'[m].held = lane[m].held /\ (m = "move" /\ t > 0 => l \in EditLanes)
             \/ m = "move" /\ lane'[m].held = <<>> /\ Len(s) <= latest'
  <2>1. l \in PointerLanes \/ l \in EditLanes
    BY DEF Lanes
  <2>2. CASE m = "move" /\ l \in PointerLanes /\ q # <<>>
    BY <1>1, <1>5, <1>6, <2>2 DEF Drained
  <2>3. CASE ~ (m = "move" /\ l \in PointerLanes /\ q # <<>>)
    BY <1>1, <1>3, <2>1, <2>3 DEF Drained
  <2> QED BY <2>2, <2>3
<1>8. Left(t, rest, l, lane, lane', s, latest')
  BY <1>4, <1>7 DEF Left
<1> DEFINE ls  == lane
           ls2 == lane'
           new == latest'
<1>9. /\ new \in Nat /\ latest \in Nat /\ latest <= new
       /\ Moved(offered, q, t, off2, rest) /\ q \in Seq(Offers)
       /\ Waiting(offered, q, l, ls, s, latest) /\ Left(t, rest, l, ls, ls2, s, new)
  BY <1>2, <1>4, <1>5, <1>8
<1> HIDE DEF ls, ls2, new
<1>10. InLine(off2, ls2, s, new)
  BY <1>9, ReleaseInLine
<1> QED BY <1>4, <1>10 DEF ls2, new

\* The newest event waits alone where nothing of its class is held.
LEMMA AloneWaits ==
  ASSUME NEW s \in Seq(UserEvents), NEW u \in UserEvents, Len(s) < MaxEvents,
         NEW e, e = Event(u, Len(s) + 1), NEW off, NEW ls, NEW marked,
         InLine(off, ls, s, marked),
         \A m \in Lanes : \A i \in 1 .. Len(ls[m].held) : ls[m].held[i].kind = m,
         u.kind \in Lanes => ls[u.kind].held = <<>>
  PROVE  Waiting(off, <<e>>, u.kind, ls, Append(s, u), marked)
<1> DEFINE p == Append(s, u)
           q == <<e>>
           n == Len(s) + 1
<1>1. /\ off \in Seq(Offers) /\ Lined(off, s) /\ \A m \in Lanes : Follows(off, ls[m].held, s)
      /\ Selects(ls["select"].held, s) /\ Kept(off, ls, s, marked)
  BY DEF InLine
<1>2. Len(q) = 1 /\ q[1] = e /\ 1 .. Len(q) = {1} /\ e.kind = u.kind
  BY EventGood
<1>3. "select" \in Lanes
  BY DEF Lanes, EditLanes
<1>4. /\ Follows(off, q, p) /\ Has(q, n)
      /\ u.kind = "select" => Selects(q, p)
  BY <1>1, AloneInLine
<1>5. \A i \in 1 .. Len(p) : i \in 1 .. Len(s) \/ i = n
  BY OneMore
<1>6. Lined(off, p) /\ \A m \in Lanes : Follows(off, ls[m].held, p)
  BY <1>1, LineGrows
<1>7. u.kind # "select" => Selects(ls["select"].held, p)
  BY <1>1, <1>3, LineGrows
<1>8. \A x \in 1 .. Len(s) : Replaced(x, s, marked) => Replaced(x, p, marked)
  BY ReplacedGrows
<1> SUFFICES Waiting(off, q, u.kind, ls, p, marked)
  OBVIOUS
<1> HIDE DEF p, q, n
<1>9. \A x \in 1 .. Len(p) : \/ Has(off, x) \/ Has(q, x) \/ Replaced(x, p, marked)
                             \/ \E m \in Lanes : Has(ls[m].held, x)
  BY <1>1, <1>4, <1>5, <1>8 DEF Kept
<1>10. Len(q) <= 1
  BY <1>2
<1> QED BY <1>2, <1>4, <1>6, <1>7, <1>9, <1>10 DEF Waiting

\* A press or a key leaves at once and drops the mouse move that is held.
LEMMA AloneLeaves ==
  ASSUME TidyLanes(lane), offered \in Seq(Offers), latest \in Nat,
         NEW e \in Offers, e.kind \notin Lanes,
         offered' = Append(offered, e), lane' = [lane EXCEPT !["move"].held = <<>>], Mark,
         NEW s \in Seq(UserEvents), s = seen', latest <= Len(s),
         Waiting(offered, <<e>>, e.kind, lane, s, latest)
  PROVE  InLine(offered', lane', s, latest')
<1> DEFINE ls   == lane
           ls2  == lane'
           off2 == Append(offered, e)
           q    == <<e>>
           rest == <<>>
           new  == Len(s)
           k    == Len(offered) + 1
<1>1. /\ off2 \in Seq(Offers) /\ Len(off2) = k /\ off2[k] = e /\ k \in Nat /\ Len(offered) \in Nat
      /\ \A i \in 1 .. Len(offered) : off2[i] = offered[i]
  OBVIOUS
<1>2. latest' = new /\ new \in Nat
  <2>1. k \in DOMAIN offered' /\ k \notin DOMAIN offered /\ offered'[k] = e
    BY <1>1
  <2>2. e.kind \notin EditLanes
    BY DEF Lanes
  <2> HIDE DEF k
  <2>3. \E i \in DOMAIN offered' \ DOMAIN offered : offered'[i].kind \notin EditLanes
    BY <2>1, <2>2
  <2> QED BY <2>3 DEF Mark
<1>3. PICK one \in Nat : one = 1
  OBVIOUS
<1>4. Moved(offered, q, one, off2, rest)
  <2>1. /\ Len(q) = 1 /\ q[1] = e /\ Len(rest) = 0 /\ 1 .. 1 = {1} /\ 1 .. 0 = {}
        /\ 1 \in 0 .. 1
    OBVIOUS
  <2> HIDE DEF q, rest, off2
  <2> QED BY <1>1, <1>3, <2>1 DEF Moved
<1>5. \A m \in Lanes : \/ ls2[m].held = ls[m].held /\ m # "move"
                       \/ m = "move" /\ ls2[m].held = <<>>
  BY ForgetTyped
<1>6. q \in Seq(Offers)
  OBVIOUS
<1> HIDE DEF ls, ls2, off2, q, new, k, rest
<1>7. Left(one, rest, e.kind, ls, ls2, s, new)
  <2>1. Len(s) <= new /\ rest = <<>>
    BY <1>2 DEF new, rest
  <2> QED BY <1>5, <2>1 DEF Left
<1>8. Waiting(offered, q, e.kind, ls, s, latest) /\ latest <= new
  BY DEF ls, q, new
<1>9. InLine(off2, ls2, s, new)
  BY <1>1, <1>2, <1>4, <1>6, <1>7, <1>8, ReleaseInLine
<1> QED BY <1>2, <1>9 DEF ls2, off2

LEMMA UserInputLine ==
  ASSUME Typed, Marked, Line, UserInput PROVE Line'
<1>1. PICK u \in UserEvents :
        /\ SendOrHold(u) \/ SendPress(u) \/ SendKeyboardEvent(u)
        /\ seen' = Append(seen, u)
  BY DEF UserInput
<1>2. Len(seen) < MaxEvents /\ Mark
  BY DEF UserInput
<1> DEFINE e == Event(u, Len(seen) + 1)
           s == Append(seen, u)
<1>3. seen \in Seq(UserEvents) /\ TidyLanes(lane) /\ latest \in 0 .. Len(seen)
  BY DEF Typed, Marked
<1>4. /\ e \in Offers /\ e.kind = u.kind
  BY <1>2, <1>3, EventGood
<1>5. e.kind # "press" => e \in Sound
  <2>1. Len(seen) + 1 \in 1 .. MaxEvents
    BY <1>2, <1>3, RouterAssumption
  <2> QED BY <2>1, EventType
<1>6. /\ s \in Seq(UserEvents) /\ Len(s) = Len(seen) + 1 /\ latest \in 0 .. Len(s)
      /\ latest \in Nat /\ latest <= Len(s)
  BY <1>3, OneMore
<1>7. InLine(offered, lane, seen, latest) /\ offered \in Seq(Offers)
  BY DEF Line, InLine
<1>8. \A m \in Lanes : \A i \in 1 .. Len(lane[m].held) : lane[m].held[i].kind = m
  BY <1>3, HeldType
<1>9. seen' = s
  BY <1>1
<1>10. ASSUME u.kind \in Lanes => lane[u.kind].held = <<>>
       PROVE  Waiting(offered, <<e>>, u.kind, lane, s, latest)
  BY <1>2, <1>3, <1>7, <1>8, <1>10, AloneWaits
<1> SUFFICES InLine(offered', lane', s, latest')
  BY <1>9 DEF Line, InLine
<1>11. CASE SendOrHold(u) /\ lane[u.kind].pending
  <2>1. /\ u.kind \in Lanes /\ offered' = offered
        /\ lane' = [lane EXCEPT ![u.kind].held = Hold(u.kind, @, e)]
    BY <1>11 DEF SendOrHold
  <2>2. e \in Sound
    BY <1>4, <1>5, <2>1 DEF Lanes, PointerLanes, EditLanes
  <2>3. latest' = latest
    BY <1>2, <2>1 DEF Mark
  <2> HIDE DEF e
  <2>4. /\ lane'[u.kind].held = Hold(u.kind, lane[u.kind].held, e)
        /\ \A m \in Lanes \ {u.kind} : lane'[m] = lane[m]
    BY <1>3, <1>4, <1>11, <2>1, <2>2, JoinTyped
  <2>5. /\ lane[u.kind].held \in Seq(Sound)
        /\ \A i \in 1 .. Len(lane[u.kind].held) : lane[u.kind].held[i].kind = u.kind
        /\ u.kind \in {"move", "caret"} => Len(lane[u.kind].held) <= 1
    BY <1>3, <2>1, HeldType
  <2>6. JoinedTo(u.kind, lane[u.kind].held, e, lane'[u.kind].held)
    BY <1>4, <2>1, <2>2, <2>4, <2>5, HoldShape
  <2>7. e = Event(u, Len(seen) + 1)
    BY DEF e
  <2> DEFINE ls  == lane
             ls2 == lane'
  <2>8. /\ InLine(offered, ls, seen, latest) /\ ls[u.kind].held \in Seq(Sound)
        /\ \A i \in 1 .. Len(ls[u.kind].held) : ls[u.kind].held[i].kind = u.kind
        /\ JoinedTo(u.kind, ls[u.kind].held, e, ls2[u.kind].held)
        /\ \A m \in Lanes \ {u.kind} : ls2[m] = ls[m]
    BY <1>7, <2>4, <2>5, <2>6
  <2> HIDE DEF ls, ls2
  <2>9. InLine(offered, ls2, s, latest)
    BY <1>2, <1>3, <2>1, <2>7, <2>8, JoinInLine
  <2> QED BY <2>1, <2>3, <2>9 DEF ls2
<1>12. CASE SendOrHold(u) /\ ~ lane[u.kind].pending
  <2> DEFINE q == <<e>>
  <2>1. u.kind \in Lanes
    BY <1>12 DEF SendOrHold
  <2>2. PICK no \in BOOLEAN : Drain(u.kind, q, widget, active_renderer_fling_count, no)
    BY <1>12, Zenon DEF SendOrHold
  <2>3. lane[u.kind].held = <<>>
    BY <1>3, <1>12, <2>1 DEF TidyLanes
  <2>4. Waiting(offered, q, u.kind, lane, s, latest)
    BY <1>10, <2>3
  <2>5. e \in Sound
    BY <1>4, <1>5, <2>1 DEF Lanes, PointerLanes, EditLanes
  <2> HIDE DEF e
  <2>6. /\ q \in Seq(Sound) /\ \A i \in 1 .. Len(q) : q[i].kind = u.kind
        /\ u.kind \in {"move", "caret"} => Len(q) <= 1
    BY <1>4, <2>5, AloneType
  <2> HIDE DEF q, s
  <2> QED BY <1>2, <1>3, <1>6, <1>7, <1>9, <2>1, <2>2, <2>4, <2>6, DrainInLine
<1>13. CASE SendPress(u) \/ SendKeyboardEvent(u)
  <2>1. /\ u.kind \notin Lanes
        /\ lane' = [lane EXCEPT !["move"].held = <<>>] /\ offered' = Append(offered, e)
    BY <1>13 DEF SendPress, SendKeyboardEvent, Lanes, PointerLanes, EditLanes
  <2>2. Waiting(offered, <<e>>, e.kind, lane, s, latest)
    BY <1>4, <1>10, <2>1
  <2> HIDE DEF e, s
  <2> QED BY <1>2, <1>3, <1>4, <1>6, <1>7, <1>9, <2>1, <2>2, AloneLeaves
<1> QED BY <1>1, <1>11, <1>12, <1>13

\* What a lane holds waits to be let go.
LEMMA HeldWaits ==
  ASSUME Typed, Line, NEW l \in Lanes
  PROVE  Waiting(offered, lane[l].held, l, lane, seen, latest)
<1> DEFINE q == lane[l].held
<1>1. \A m \in Lanes : \A i \in 1 .. Len(lane[m].held) : lane[m].held[i].kind = m
  BY HeldType DEF Typed
<1>2. /\ Lined(offered, seen) /\ \A m \in Lanes : Follows(offered, lane[m].held, seen)
      /\ Selects(lane["select"].held, seen) /\ Kept(offered, lane, seen, latest)
  BY DEF Line, InLine
<1>3. l = "move" => Len(q) <= 1
  BY HeldType DEF Typed
<1>4. \A n \in 1 .. Len(seen) : \/ Has(offered, n) \/ Has(q, n) \/ Replaced(n, seen, latest)
                                \/ \E m \in Lanes : Has(lane[m].held, n)
  BY <1>2 DEF Kept
<1> QED BY <1>1, <1>2, <1>3, <1>4 DEF Waiting

LEMMA MessageLine ==
  ASSUME Typed, Marked, Line, OnMessageReceived PROVE Line'
<1> DEFINE a == Head(acks)
<1>1. /\ OnPointerAck(a) \/ OnKeyAck(a) \/ OnEditAck(a) \/ OnDidStopFlinging(a)
      /\ seen' = seen /\ Mark
  BY DEF OnMessageReceived
<1> HIDE DEF a
<1>2. CASE OnPointerAck(a) \/ OnEditAck(a)
  <2>1. a.kind \in Lanes
    BY <1>2 DEF OnPointerAck, OnEditAck, Lanes
  <2>2. PICK w, c, yes :
          Drain(a.kind, lane[a.kind].held, w, c, yes)
    <3>1. CASE OnPointerAck(a)
      BY <3>1, Zenon DEF OnPointerAck
    <3>2. CASE OnEditAck(a)
      BY <3>2, Zenon DEF OnEditAck
    <3> QED BY <1>2, <3>1, <3>2
  <2> DEFINE q == lane[a.kind].held
             s == seen
  <2>3. /\ s \in Seq(UserEvents) /\ s = seen' /\ latest \in 0 .. Len(s) /\ TidyLanes(lane)
        /\ offered \in Seq(Offers)
    BY <1>1 DEF Typed, Marked, Line, InLine
  <2>4. /\ q \in Seq(Sound) /\ \A i \in 1 .. Len(q) : q[i].kind = a.kind
        /\ a.kind \in {"move", "caret"} => Len(q) <= 1
    BY <2>1, <2>3, HeldType
  <2>5. Waiting(offered, q, a.kind, lane, s, latest)
    BY <2>1, HeldWaits
  <2>6. Drain(a.kind, q, w, c, yes)
    BY <2>2
  <2> HIDE DEF q, s
  <2>7. InLine(offered', lane', s, latest')
    BY <1>1, <2>1, <2>3, <2>4, <2>5, <2>6, DrainInLine
  <2> QED BY <1>1, <2>7 DEF Line, InLine, s
<1>3. CASE OnKeyAck(a) \/ OnDidStopFlinging(a)
  <2>1. UNCHANGED <<lane, offered, seen>>
    BY <1>1, <1>3 DEF OnKeyAck, OnDidStopFlinging
  <2>2. latest' = latest
    BY <1>1, <2>1 DEF Mark
  <2> QED BY <2>1, <2>2 DEF Line, InLine
<1> QED BY <1>1, <1>2, <1>3

LEMMA FreshLine == InLine(<<>>, Fresh, <<>>, 0)
<1>1. /\ <<>> \in Seq(Offers) /\ Len(<<>>) = 0 /\ 1 .. 0 = {}
  OBVIOUS
<1>2. \A l \in Lanes : Fresh[l].held = <<>>
  BY DEF Fresh
<1>3. "select" \in Lanes
  BY DEF Lanes, EditLanes
<1> QED BY <1>1, <1>2, <1>3, FollowsEmpty DEF InLine, Lined, Selects, Kept

LEMMA NextLine ==
  ASSUME Typed, Marked, Line, [Next]_vars PROVE Line'
<1>1. CASE UserInput
  BY <1>1, UserInputLine
<1>2. CASE OnMessageReceived
  BY <1>2, MessageLine
<1>3. CASE RendererExited
  <2>1. lane' = Fresh /\ seen' = <<>> /\ offered' = <<>> /\ latest' = 0
    BY <1>3 DEF RendererExited
  <2> QED BY <2>1, FreshLine DEF Line, InLine
<1>4. CASE \/ RequestNotificationWhenFlushed \/ WasHidden \/ WasShown \/ HangMonitorFires
           \/ SetIgnoreInputEvents \/ RendererAnswers \/ FlingEnds \/ ConnectionLost
           \/ Relaunch \/ UNCHANGED vars
  <2>1. UNCHANGED <<lane, offered, seen, latest>>
    BY <1>4 DEF RequestNotificationWhenFlushed, WasHidden, WasShown, HangMonitorFires,
                SetIgnoreInputEvents, RendererAnswers, FlingEnds, ConnectionLost, Relaunch,
                routerVars, historyVars, vars
  <2> QED BY <2>1 DEF Line, InLine
<1> QED BY <1>1, <1>2, <1>3, <1>4 DEF Next

LEMMA LineAlways == Spec => [](Ledger /\ Line)
<1>1. Init => Ledger /\ Line
  <2> SUFFICES ASSUME Init PROVE Line
    BY InitLedger
  <2>1. lane = Fresh /\ seen = <<>> /\ offered = <<>> /\ latest = 0
    BY DEF Init
  <2> QED BY <2>1, FreshLine DEF Line
<1>2. Ledger /\ Line /\ [Next]_vars => (Ledger /\ Line)'
  BY NextLedger, NextLine DEF Ledger
<1> QED BY <1>1, <1>2, PTL DEF Spec

\* The renderer is offered what the user did in the user's order, and nothing is left out
\* but what a newer event of its class or, for a mouse move, an event that left meanwhile
\* replaced: for any number of user events of any kinds.
THEOREM NothingIsLost == Spec => []UserIsObeyed
<1>1. Ledger /\ Line => UserIsObeyed
  <2> SUFFICES ASSUME Ledger, Line PROVE UserIsObeyed
    OBVIOUS
  <2>1. /\ offered \in Seq(Offers) /\ Lined(offered, seen) /\ Kept(offered, lane, seen, latest)
        /\ seen \in Seq(UserEvents) /\ TidyLanes(lane)
    BY DEF Ledger, Typed, Line, InLine
  <2>2. DOMAIN offered = 1 .. Len(offered) /\ DOMAIN seen = 1 .. Len(seen)
    BY <2>1
  <2>3. OffersInOrder
    <3>1. ASSUME NEW kind \in Kinds PROVE InOrder(offered, OfKind(offered, {kind}))
      <4>1. \A i \in OfKind(offered, {kind}) : i \in 1 .. Len(offered) /\ offered[i].kind = kind
        BY <2>2 DEF OfKind
      <4> QED BY <2>1, <4>1 DEF InOrder, Lined, Good, Before, Of
    <3> QED BY <2>1, <2>2, <3>1 DEF OffersInOrder, Lined
  <2>4. NothingLostButSuperseded
    <3>1. ASSUME NEW n \in DOMAIN seen, n \notin Members(offered) \cup Held
          PROVE  Replaced(n, seen, latest)
      <4>1. ~ Has(offered, n)
        BY <2>2, <3>1 DEF Has, Of, Members, MembersAt
      <4>2. ASSUME NEW l \in Lanes PROVE ~ Has(lane[l].held, n)
        <5>1. DOMAIN lane[l].held = 1 .. Len(lane[l].held)
          BY <2>1, HeldType
        <5> QED BY <3>1, <5>1 DEF Has, Of, Members, MembersAt, Held
      <4> QED BY <2>1, <2>2, <3>1, <4>1, <4>2 DEF Kept
    <3> QED BY <2>2, <3>1 DEF NothingLostButSuperseded, Replaced
  <2> QED BY <2>3, <2>4 DEF UserIsObeyed
<1> QED BY <1>1, LineAlways, PTL

=============================================================================
