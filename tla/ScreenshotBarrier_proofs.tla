---------------------- MODULE ScreenshotBarrier_proofs ----------------------
(***************************************************************************)
(* Proofs about ScreenshotBarrier, for every set of widgets and processes, *)
(* every placement of widgets and every bound.                             *)
(***************************************************************************)
EXTENDS ScreenshotBarrier, TLAPS

\* A message in a queue of p belongs to a widget of p; a ScreenshotCaptured
\* names an answered request; an event and its message have one ticket.
SoundMessage(p, m) ==
  /\ Host(m.ticket) = p
  /\ m.type = "ScreenshotCaptured" => m.ticket \in answered
  /\ m.type = "HandleInputEvent" => m.event.ticket = m.ticket

SoundQueue(p, q) == \A i \in DOMAIN q : SoundMessage(p, q[i])

QueuesSound ==
  \A p \in Procs : /\ SoundQueue(p, channel[p])
                   /\ SoundQueue(p, compositor_q[p])
                   /\ SoundQueue(p, main_q[p])

\* What a process believes captured was answered, for some widget of its own.
CapturedSound ==
  \A p \in Procs : \A id \in captured_screenshots[p] :
    \E t \in answered : Host(t) = p /\ t.id = id

IInv == TypeOK /\ QueuesSound /\ CapturedSound /\ ReleasedByItsId

-----------------------------------------------------------------------------
(* Sequences of messages.                                                  *)

LEMMA TailType ==
  ASSUME NEW S, NEW q \in Seq(S), q # <<>>
  PROVE  /\ Tail(q) \in Seq(S)
         /\ Head(q) \in S
         /\ Head(q) = q[1]
         /\ 1 \in DOMAIN q
         /\ \A i \in DOMAIN Tail(q) : i + 1 \in DOMAIN q /\ Tail(q)[i] = q[i + 1]
  OBVIOUS

LEMMA InitInv ==
  ASSUME BarrierAssumption, Init PROVE IInv
<1>1. TypeOK
  BY DEF Init, TypeOK, BarrierAssumption
<1>2. QueuesSound
  BY DEF Init, QueuesSound, SoundQueue
<1>3. CapturedSound
  BY DEF Init, CapturedSound
<1>4. ReleasedByItsId
  BY DEF Init, ReleasedByItsId
<1> QED BY <1>1, <1>2, <1>3, <1>4 DEF IInv

-----------------------------------------------------------------------------
(* Queues that grow, shrink or stay while requests are answered.           *)

LEMMA SoundQueueGrows ==
  ASSUME NEW p \in Procs, NEW q, SoundQueue(p, q), answered \subseteq answered'
  PROVE  SoundQueue(p, q)'
  BY DEF SoundQueue, SoundMessage

LEMMA TailSound ==
  ASSUME NEW p \in Procs, NEW q \in Seq(Messages), q # <<>>, SoundQueue(p, q)
  PROVE  SoundQueue(p, Tail(q)) /\ SoundMessage(p, Head(q))
  BY TailType DEF SoundQueue

LEMMA AppendSound ==
  ASSUME NEW p \in Procs, NEW q \in Seq(Messages), SoundQueue(p, q),
         NEW m \in Messages, SoundMessage(p, m)
  PROVE  /\ Append(q, m) \in Seq(Messages)
         /\ SoundQueue(p, Append(q, m))
  BY DEF SoundQueue

LEMMA ConcatSound ==
  ASSUME NEW p \in Procs, NEW q \in Seq(Messages), SoundQueue(p, q),
         NEW r \in Seq(Messages), SoundQueue(p, r)
  PROVE  /\ q \o r \in Seq(Messages)
         /\ SoundQueue(p, q \o r)
  BY DEF SoundQueue

\* The steps of the browser that send to one process: they answer requests and
\* leave the renderers alone.
LEMMA SendPreserves ==
  ASSUME BarrierAssumption, IInv,
         answered \subseteq answered', answered' \subseteq Tickets,
         NEW p \in Procs, NEW msgs \in Seq(Messages),
         SoundQueue(p, msgs)', SendTo(p, msgs),
         UNCHANGED <<compositor_q, main_q, captured_screenshots, taken>>
  PROVE  /\ channel' \in [Procs -> Seq(Messages)]
         /\ QueuesSound' /\ CapturedSound' /\ ReleasedByItsId'
<1>1. channel' \in [Procs -> Seq(Messages)]
  BY DEF SendTo, IInv, TypeOK
<1>2. QueuesSound'
  <2> SUFFICES ASSUME NEW r \in Procs
               PROVE  /\ SoundQueue(r, channel[r])'
                      /\ SoundQueue(r, compositor_q[r])'
                      /\ SoundQueue(r, main_q[r])'
    BY DEF QueuesSound
  <2>1. SoundQueue(r, compositor_q[r])' /\ SoundQueue(r, main_q[r])'
    BY DEF IInv, QueuesSound, SoundQueue, SoundMessage
  <2>2. SoundQueue(r, channel[r])'
    <3>1. channel'[r] \in {channel[r], channel[r] \o msgs} 
          /\ (channel'[r] # channel[r] => r = p)
      BY DEF SendTo, IInv, TypeOK
    <3>2. CASE channel'[r] = channel[r]
      BY <3>2 DEF IInv, QueuesSound, SoundQueue, SoundMessage
    <3>3. CASE channel'[r] = channel[r] \o msgs /\ r = p
      <4>1. PICK c \in Seq(Messages) : c = channel[p]
        BY DEF IInv, TypeOK
      <4>2. SoundQueue(p, c)'
        BY <4>1, SoundQueueGrows DEF IInv, QueuesSound
      <4>3. SoundQueue(p, c \o msgs)'
        BY <4>2 DEF SoundQueue
      <4> QED BY <4>1, <4>3, <3>3
    <3> QED BY <3>1, <3>2, <3>3
  <2> QED BY <2>1, <2>2
<1>3. CapturedSound'
  BY DEF IInv, CapturedSound
<1>4. ReleasedByItsId'
  BY DEF IInv, ReleasedByItsId, Host
<1> QED BY <1>1, <1>2, <1>3, <1>4

-----------------------------------------------------------------------------
(* Each step of the browser keeps the invariant.                           *)

LEMMA TicketType ==
  ASSUME TypeOK, NEW w \in Widgets PROVE Ticket(w) \in Tickets
  BY DEF TypeOK, Ticket, Tickets

LEMMA IssueStep ==
  ASSUME BarrierAssumption, IInv,
         NEW w \in Widgets, NEW d \in Decisions, NEW sync \in BOOLEAN,
         HandleInputEvent(w, d, sync)
  PROVE  IInv'
<1> DEFINE t == Ticket(w)
           e == [ticket |-> t, shot |-> d.shot, kind |-> d.kind, n |-> issued]
           msgs == IF sync THEN <<Captured(t), Input(e)>> ELSE <<Input(e)>>
<1>1. t \in Tickets /\ t.w = w
  BY TicketType DEF IInv, Ticket
<1>2. e \in Events
  BY <1>1 DEF IInv, TypeOK, Events, BarrierAssumption, DecisionSet
<1>3. /\ Input(e) \in Messages /\ Input(e).ticket = t /\ Input(e).event = e
      /\ Input(e).type = "HandleInputEvent"
  BY <1>1, <1>2 DEF Input, Messages
<1>4. /\ Captured(t) \in Messages /\ Captured(t).ticket = t
      /\ Captured(t).type = "ScreenshotCaptured"
  BY <1>1 DEF Captured, Messages
<1>5. msgs \in Seq(Messages)
  BY <1>3, <1>4
<1>6. answered \subseteq answered' /\ answered' \subseteq Tickets
  BY <1>1 DEF HandleInputEvent, IInv, TypeOK
<1>7. PICK u : u = msgs
  OBVIOUS
<1>8. SoundQueue(ProcOf[w], u)'
  <2>1. PICK v : v = t
    OBVIOUS
  <2>2. CASE sync
    <3>1. u = <<[type |-> "ScreenshotCaptured", ticket |-> v], u[2]>>
          /\ u[2].ticket = v /\ u[2].type = "HandleInputEvent"
          /\ u[2].event.ticket = v
      BY <1>7, <2>1, <2>2, <1>3 DEF Captured
    <3>2. v \in answered'
      BY <2>1, <2>2 DEF HandleInputEvent
    <3> QED BY <3>1, <3>2, <2>1, <1>1 DEF SoundQueue, SoundMessage, Host
  <2>3. CASE ~ sync
    <3>1. u = <<u[1]>> /\ u[1].ticket = v /\ u[1].type = "HandleInputEvent"
          /\ u[1].event.ticket = v
      BY <1>7, <2>1, <2>3, <1>3
    <3> QED BY <3>1, <2>1, <1>1 DEF SoundQueue, SoundMessage, Host
  <2> QED BY <2>2, <2>3
<1>9. ProcOf[w] \in Procs
  BY DEF BarrierAssumption
<1>10. /\ channel' \in [Procs -> Seq(Messages)]
       /\ QueuesSound' /\ CapturedSound' /\ ReleasedByItsId'
  BY <1>5, <1>6, <1>7, <1>8, <1>9, SendPreserves
     DEF HandleInputEvent, rendererVars, historyVars
<1>11. TypeOK'
  BY <1>1, <1>6, <1>10
     DEF HandleInputEvent, historyVars, boundVars, IInv, TypeOK, Ticket
<1> QED BY <1>10, <1>11 DEF IInv

\* Both answers to a copy request send one ScreenshotCaptured.
LEMMA AnswerPreserves ==
  ASSUME BarrierAssumption, IInv, NEW t \in Tickets,
         answered' = answered \cup {t}, SendTo(Host(t), <<Captured(t)>>),
         UNCHANGED <<compositor_q, main_q, captured_screenshots, taken>>
  PROVE  /\ channel' \in [Procs -> Seq(Messages)]
         /\ QueuesSound' /\ CapturedSound' /\ ReleasedByItsId'
<1>1. Host(t) \in Procs
  BY DEF Host, Tickets, BarrierAssumption
<1>2. <<Captured(t)>> \in Seq(Messages)
  BY DEF Captured, Messages
<1>3. SoundQueue(Host(t), <<Captured(t)>>)'
  BY DEF SoundQueue, SoundMessage, Captured, Host
<1>4. answered \subseteq answered' /\ answered' \subseteq Tickets
  BY DEF IInv, TypeOK
<1> QED BY <1>1, <1>2, <1>3, <1>4, SendPreserves

LEMMA AnswerStep ==
  ASSUME BarrierAssumption, IInv, NEW t \in requests,
         SendScreenshotAck(t) \/ ScreenshotCaptured(t)
  PROVE  IInv'
<1>1. t \in Tickets
  BY DEF IInv, TypeOK
<1>2. /\ channel' \in [Procs -> Seq(Messages)]
      /\ QueuesSound' /\ CapturedSound' /\ ReleasedByItsId'
  BY <1>1, AnswerPreserves
     DEF SendScreenshotAck, ScreenshotCaptured, historyVars
<1>3. TypeOK'
  BY <1>1, <1>2 DEF SendScreenshotAck, ScreenshotCaptured, browserVars,
     historyVars, boundVars, IInv, TypeOK
<1> QED BY <1>2, <1>3 DEF IInv

LEMMA ExitStep ==
  ASSUME BarrierAssumption, IInv, NEW p \in Procs, RendererExited(p)
  PROVE  IInv'
<1>1. TypeOK'
  BY DEF RendererExited, copyVars, historyVars, IInv, TypeOK
<1>2. QueuesSound'
  BY DEF RendererExited, copyVars, IInv, TypeOK, QueuesSound, SoundQueue,
     SoundMessage
<1>3. CapturedSound'
  BY DEF RendererExited, copyVars, IInv, TypeOK, CapturedSound
<1>4. ReleasedByItsId'
  BY DEF RendererExited, copyVars, historyVars, IInv, ReleasedByItsId, Host
<1> QED BY <1>1, <1>2, <1>3, <1>4 DEF IInv

\* Steps that touch neither queues nor tickets.
LEMMA QuietStep ==
  ASSUME BarrierAssumption, IInv, TypeOK',
         UNCHANGED <<answered, channel, compositor_q, main_q,
                     captured_screenshots, taken>>
  PROVE  IInv'
  BY DEF IInv, QueuesSound, SoundQueue, SoundMessage, CapturedSound,
     ReleasedByItsId, Host

-----------------------------------------------------------------------------
(* Each step of a renderer keeps the invariant.                            *)

LEMMA QueuesChange ==
  ASSUME QueuesSound, NEW p \in Procs, answered' = answered,
         channel \in [Procs -> Seq(Messages)],
         compositor_q \in [Procs -> Seq(Messages)],
         main_q \in [Procs -> Seq(Messages)],
         NEW c, SoundQueue(p, c), NEW k, SoundQueue(p, k),
         NEW q, SoundQueue(p, q),
         channel' \in {channel, [channel EXCEPT ![p] = c]},
         compositor_q' \in {compositor_q, [compositor_q EXCEPT ![p] = k]},
         main_q' \in {main_q, [main_q EXCEPT ![p] = q]}
  PROVE  QueuesSound'
<1> SUFFICES ASSUME NEW r \in Procs
             PROVE  /\ SoundQueue(r, channel[r])'
                    /\ SoundQueue(r, compositor_q[r])'
                    /\ SoundQueue(r, main_q[r])'
  BY DEF QueuesSound
<1>1. /\ SoundQueue(r, channel'[r])
      /\ SoundQueue(r, compositor_q'[r])
      /\ SoundQueue(r, main_q'[r])
  <2>1. CASE r = p
    BY <2>1 DEF QueuesSound
  <2>2. CASE r # p
    BY <2>2 DEF QueuesSound
  <2> QED BY <2>1, <2>2
<1> QED BY <1>1 DEF SoundQueue, SoundMessage

LEMMA ReceiveStep ==
  ASSUME BarrierAssumption, IInv, NEW p \in Procs, OnMessageReceived(p)
  PROVE  IInv'
<1> DEFINE m == Head(channel[p])
<1>1. /\ channel[p] \in Seq(Messages) /\ compositor_q[p] \in Seq(Messages)
      /\ main_q[p] \in Seq(Messages) /\ channel[p] # <<>>
  BY DEF IInv, TypeOK, OnMessageReceived
<1>2. m \in Messages /\ SoundMessage(p, m)
  BY <1>1, TailType, TailSound DEF IInv, QueuesSound
<1>3. Tail(channel[p]) \in Seq(Messages) /\ SoundQueue(p, Tail(channel[p]))
  BY <1>1, TailType, TailSound DEF IInv, QueuesSound
<1>4. /\ Append(compositor_q[p], m) \in Seq(Messages)
      /\ SoundQueue(p, Append(compositor_q[p], m))
      /\ Append(main_q[p], m) \in Seq(Messages)
      /\ SoundQueue(p, Append(main_q[p], m))
  BY <1>1, <1>2, AppendSound DEF IInv, QueuesSound
<1>5. TypeOK'
  BY <1>1, <1>2, <1>3, <1>4 DEF OnMessageReceived, browserVars, copyVars,
     historyVars, boundVars, IInv, TypeOK
<1>6. QueuesSound'
  <2>1. /\ channel' = [channel EXCEPT ![p] = Tail(channel[p])]
        /\ \/ /\ compositor_q' = [compositor_q EXCEPT ![p] = Append(@, m)]
              /\ main_q' = main_q
           \/ /\ main_q' = [main_q EXCEPT ![p] = Append(@, m)]
              /\ compositor_q' = compositor_q
        /\ answered' = answered
    BY DEF OnMessageReceived, copyVars
  <2> QED BY <2>1, <1>3, <1>4, QueuesChange DEF IInv, TypeOK
<1>7. CapturedSound' /\ ReleasedByItsId'
  BY DEF OnMessageReceived, copyVars, historyVars, IInv, CapturedSound,
     ReleasedByItsId, Host
<1> QED BY <1>5, <1>6, <1>7 DEF IInv

LEMMA ForwardStep ==
  ASSUME BarrierAssumption, IInv, NEW p \in Procs, ForwardToHandler(p)
  PROVE  IInv'
<1> DEFINE m == Head(compositor_q[p])
<1>1. /\ compositor_q[p] \in Seq(Messages) /\ compositor_q[p] # <<>>
      /\ main_q[p] \in Seq(Messages)
  BY DEF IInv, TypeOK, ForwardToHandler
<1>2. m \in Messages /\ SoundMessage(p, m)
  BY <1>1, TailType, TailSound DEF IInv, QueuesSound
<1>3. Tail(compositor_q[p]) \in Seq(Messages)
      /\ SoundQueue(p, Tail(compositor_q[p]))
  BY <1>1, TailType, TailSound DEF IInv, QueuesSound
<1>4. /\ Append(main_q[p], m) \in Seq(Messages)
      /\ SoundQueue(p, Append(main_q[p], m))
  BY <1>1, <1>2, AppendSound DEF IInv, QueuesSound
<1>5. m.ticket.id \in Nat /\ m.ticket \in Tickets
      /\ (m.type = "HandleInputEvent" => m.event \in Events)
  BY <1>2 DEF Messages, Tickets
<1> HIDE DEF m
<1>6. /\ compositor_q' = [compositor_q EXCEPT ![p] = Tail(compositor_q[p])]
      /\ main_q' \in {main_q, [main_q EXCEPT ![p] = Append(main_q[p], m)]}
      /\ channel' = channel /\ answered' = answered
      /\ \/ captured_screenshots' = captured_screenshots
         \/ /\ m.type = "ScreenshotCaptured"
            /\ captured_screenshots' =
                 [captured_screenshots EXCEPT ![p] = @ \cup {m.ticket.id}]
      /\ \/ scrolled' = scrolled
         \/ m.type = "HandleInputEvent" /\ scrolled' = scrolled \cup {m.event}
  BY DEF ForwardToHandler, Recorded, copyVars, m
<1>7. TypeOK'
  <2>1. UNCHANGED <<next_snapshot_id, handler, issued, requests, optimized,
                    answered, alive, channel, routes, taken, crashes,
                    route_changes>>
    BY DEF ForwardToHandler, browserVars, copyVars, boundVars
  <2>2. compositor_q' \in [Procs -> Seq(Messages)]
    BY <1>6, <1>3 DEF IInv, TypeOK
  <2>3. main_q' \in [Procs -> Seq(Messages)]
    BY <1>6, <1>4 DEF IInv, TypeOK
  <2>4. captured_screenshots' \in [Procs -> SUBSET Nat]
    <3>1. captured_screenshots[p] \cup {m.ticket.id} \in SUBSET Nat
      BY <1>5 DEF IInv, TypeOK
    <3> QED BY <1>6, <3>1 DEF IInv, TypeOK
  <2>5. scrolled' \subseteq Events
    BY <1>6, <1>5 DEF IInv, TypeOK
  <2> QED BY <2>1, <2>2, <2>3, <2>4, <2>5 DEF IInv, TypeOK
<1>8. QueuesSound' 
  BY <1>6, <1>3, <1>4, QueuesChange DEF IInv, TypeOK
<1>9. CapturedSound'
  <2> SUFFICES ASSUME NEW r \in Procs, NEW id \in captured_screenshots'[r]
               PROVE  \E t \in answered : Host(t) = r /\ t.id = id
    BY <1>6 DEF CapturedSound, Host
  <2>1. CASE id \in captured_screenshots[r]
    BY <2>1 DEF IInv, CapturedSound
  <2>2. CASE id \notin captured_screenshots[r]
    <3>1. r = p /\ m.type = "ScreenshotCaptured" /\ id = m.ticket.id
      BY <2>2, <1>6 DEF IInv, TypeOK
    <3> QED BY <3>1, <1>2 DEF SoundMessage
  <2> QED BY <2>1, <2>2
<1>10. ReleasedByItsId'
  BY DEF ForwardToHandler, copyVars, IInv, ReleasedByItsId, Host
<1> QED BY <1>7, <1>8, <1>9, <1>10 DEF IInv

LEMMA HandleStep ==
  ASSUME BarrierAssumption, IInv, NEW p \in Procs, OnHandleInputEvent(p)
  PROVE  IInv'
<1> DEFINE m == Head(main_q[p])
<1>1. main_q[p] \in Seq(Messages) /\ main_q[p] # <<>>
  BY DEF IInv, TypeOK, OnHandleInputEvent
<1>2. m \in Messages /\ SoundMessage(p, m)
  BY <1>1, TailType, TailSound DEF IInv, QueuesSound
<1>3. Tail(main_q[p]) \in Seq(Messages) /\ SoundQueue(p, Tail(main_q[p]))
  BY <1>1, TailType, TailSound DEF IInv, QueuesSound
<1>4. m.ticket.w \in Widgets
      /\ (m.type = "HandleInputEvent" => m.event \in Events)
  BY <1>2 DEF Messages, Tickets
<1> HIDE DEF m
<1>10. /\ main_q' = [main_q EXCEPT ![p] = Tail(main_q[p])]
      /\ UNCHANGED <<channel, compositor_q, captured_screenshots, answered>>
      /\ \/ taken' = taken
         \/ /\ m.type = "HandleInputEvent" /\ Released(p, m.event)
            /\ taken' = [taken EXCEPT ![m.ticket.w] = Append(@, m.event)]
  BY DEF OnHandleInputEvent, copyVars, m
<1>5. TypeOK'
  <2>1. UNCHANGED <<next_snapshot_id, handler, issued, requests, optimized,
                    answered, alive, channel, compositor_q, routes, scrolled,
                    captured_screenshots, crashes, route_changes>>
    BY DEF OnHandleInputEvent, browserVars, copyVars, boundVars
  <2>2. main_q' \in [Procs -> Seq(Messages)]
    BY <1>10, <1>3 DEF IInv, TypeOK
  <2>3. taken' \in [Widgets -> Seq(Events)]
    <3>1. CASE taken' = taken
      BY <3>1 DEF IInv, TypeOK
    <3>2. CASE taken' # taken
      <4>1. Append(taken[m.ticket.w], m.event) \in Seq(Events)
        BY <1>10, <1>4, <3>2 DEF IInv, TypeOK
      <4> QED BY <1>10, <3>2, <4>1 DEF IInv, TypeOK
    <3> QED BY <3>1, <3>2
  <2> QED BY <2>1, <2>2, <2>3 DEF IInv, TypeOK
<1>6. QueuesSound'
  BY <1>10, <1>3, QueuesChange DEF IInv, TypeOK
<1>7. CapturedSound'
  <2>1. UNCHANGED <<captured_screenshots, answered>>
    BY DEF OnHandleInputEvent, copyVars
  <2> QED BY <2>1 DEF IInv, CapturedSound, Host
<1>8. ReleasedByItsId'
  <2> SUFFICES ASSUME NEW w \in Widgets, NEW i \in DOMAIN taken'[w],
                      taken'[w][i].shot
               PROVE  \E t \in answered : /\ Host(t) = ProcOf[w]
                                          /\ t.id = taken'[w][i].ticket.id
    <3>1. answered' = answered
      BY DEF OnHandleInputEvent, copyVars
    <3> QED BY <3>1 DEF ReleasedByItsId, Host
  <2>1. CASE i \in DOMAIN taken[w] /\ taken'[w][i] = taken[w][i]
    BY <2>1 DEF IInv, ReleasedByItsId
  <2>2. CASE /\ taken' # taken /\ m.type = "HandleInputEvent" /\ w = m.ticket.w
             /\ taken'[w][i] = m.event
    <3>1. m.event.ticket.id \in captured_screenshots[p]
      BY <2>2, <1>4, <1>10 DEF Released, IInv, TypeOK, Events, Tickets
    <3>2. ProcOf[w] = p
      BY <1>2, <2>2 DEF SoundMessage, Host
    <3> QED BY <3>1, <3>2, <2>2 DEF IInv, CapturedSound
  <2>3. taken[w] \in Seq(Events)
    BY DEF IInv, TypeOK
  <2>4. CASE taken'[w] = taken[w]
    BY <2>4, <2>1
  <2>5. CASE taken'[w] # taken[w]
    <3>1. m.type = "HandleInputEvent" /\ w = m.ticket.w
          /\ taken'[w] = Append(taken[w], m.event)
      BY <2>5, <1>10 DEF IInv, TypeOK
    <3> QED BY <3>1, <2>1, <2>2, <2>3
  <2> QED BY <2>4, <2>5
<1> QED BY <1>5, <1>6, <1>7, <1>8 DEF IInv

-----------------------------------------------------------------------------
LEMMA IInvStep ==
  ASSUME BarrierAssumption, IInv, [Next]_vars
  PROVE  IInv'
<1>1. CASE UNCHANGED vars
  <2>1. TypeOK'
    BY <1>1 DEF vars, IInv, TypeOK
  <2> QED BY <1>1, <2>1, QuietStep DEF vars
<1>2. ASSUME NEW w \in Widgets, NEW d \in Decisions, NEW sync \in BOOLEAN,
             HandleInputEvent(w, d, sync)
      PROVE  IInv'
  BY <1>2, IssueStep
<1>3. ASSUME NEW t \in requests, SendScreenshotAck(t) \/ ScreenshotCaptured(t)
      PROVE  IInv'
  BY <1>3, AnswerStep
<1>4. ASSUME NEW p \in Procs, RendererExited(p)
      PROVE  IInv'
  BY <1>4, ExitStep
<1>5. ASSUME NEW p \in Procs, Relaunch(p)
      PROVE  IInv'
  <2>1. TypeOK'
    BY <1>5 DEF Relaunch, browserVars, copyVars, rendererVars, historyVars,
       boundVars, IInv, TypeOK
  <2> QED BY <1>5, <2>1, QuietStep
          DEF Relaunch, copyVars, rendererVars, historyVars
<1>6. ASSUME NEW p \in Procs, OnMessageReceived(p)
      PROVE  IInv'
  BY <1>6, ReceiveStep
<1>7. ASSUME NEW p \in Procs, ForwardToHandler(p)
      PROVE  IInv'
  BY <1>7, ForwardStep
<1>8. ASSUME NEW p \in Procs, OnHandleInputEvent(p)
      PROVE  IInv'
  BY <1>8, HandleStep
<1>9. ASSUME NEW w \in Widgets, DidAddInputHandler(w) \/ DidRemoveInputHandler(w)
      PROVE  IInv'
  <2>1. TypeOK'
    BY <1>9, SMTT(30) DEF DidAddInputHandler, DidRemoveInputHandler, browserVars,
       copyVars, rendererVars, historyVars, IInv, TypeOK
  <2> QED BY <1>9, <2>1, QuietStep
          DEF DidAddInputHandler, DidRemoveInputHandler, copyVars,
              rendererVars, historyVars
<1> QED BY <1>1, <1>2, <1>3, <1>4, <1>5, <1>6, <1>7, <1>8, <1>9 DEF Next

\* The types hold in every behaviour of the barrier.
THEOREM TypeCorrect == Spec => []TypeOK
<1>1. Init => IInv
  BY InitInv, BarrierAssumption
<1>2. IInv /\ [Next]_vars => IInv'
  BY IInvStep, BarrierAssumption
<1>3. IInv => TypeOK
  BY DEF IInv
<1> QED BY <1>1, <1>2, <1>3, PTL DEF Spec

\* With crashes, route changes, failing copies and any number of widgets in
\* any number of processes, the main thread (RenderWidget::OnHandleInputEvent)
\* handles an event that asked for a screenshot only after a screenshot with
\* its id was answered for some widget of the same process.
THEOREM ReleaseIsEarned == Spec => []ReleasedByItsId
<1>1. Init => IInv
  BY InitInv, BarrierAssumption
<1>2. IInv /\ [Next]_vars => IInv'
  BY IInvStep, BarrierAssumption
<1>3. IInv => ReleasedByItsId
  BY DEF IInv
<1> QED BY <1>1, <1>2, <1>3, PTL DEF Spec

-----------------------------------------------------------------------------
(* When ids are not ambiguous the screenshot is the event's own.           *)

OneWidgetPerProcess ==
  \A v, w \in Widgets : ProcOf[v] = ProcOf[w] => v = w

\* Without a crash every ticket is of a widget's first handler.
FirstQueue(q) == \A i \in DOMAIN q : q[i].ticket.h = 0

FirstHandlers ==
  /\ crashes = 0
  /\ \A w \in Widgets : handler[w] = 0
  /\ \A t \in requests \cup answered : t.h = 0
  /\ \A p \in Procs : /\ FirstQueue(channel[p])
                      /\ FirstQueue(compositor_q[p])
                      /\ FirstQueue(main_q[p])
  /\ \A w \in Widgets : \A i \in DOMAIN taken[w] :
       taken[w][i].ticket.w = w /\ taken[w][i].ticket.h = 0

LEMMA FirstHandlersInit ==
  Init => FirstHandlers
  BY DEF Init, FirstHandlers, FirstQueue

LEMMA FirstHandlersSend ==
  ASSUME IInv, FirstHandlers, NEW p \in Procs, NEW msgs \in Seq(Messages),
         FirstQueue(msgs), SendTo(p, msgs)
  PROVE  \A r \in Procs : FirstQueue(channel'[r])
<1> SUFFICES ASSUME NEW r \in Procs PROVE FirstQueue(channel'[r])
  OBVIOUS
<1>1. channel[r] \in Seq(Messages)
  BY DEF IInv, TypeOK
<1>2. CASE channel'[r] = channel[r]
  BY <1>2 DEF FirstHandlers
<1>3. CASE channel'[r] = channel[r] \o msgs
  BY <1>1, <1>3 DEF FirstHandlers, FirstQueue
<1> QED BY <1>2, <1>3 DEF SendTo, IInv, TypeOK

LEMMA FirstQueueOps ==
  ASSUME NEW q \in Seq(Messages), FirstQueue(q)
  PROVE  /\ q # <<>> => FirstQueue(Tail(q)) /\ Head(q).ticket.h = 0
         /\ \A m \in Messages : m.ticket.h = 0 => FirstQueue(Append(q, m))
  BY TailType DEF FirstQueue

LEMMA FirstHandlersStep ==
  ASSUME BarrierAssumption, MaxCrashes = 0, IInv, FirstHandlers, [Next]_vars
  PROVE  FirstHandlers'
<1>1. CASE UNCHANGED vars
  BY <1>1 DEF vars, FirstHandlers, FirstQueue
<1>2. ASSUME NEW w \in Widgets, NEW d \in Decisions, NEW sync \in BOOLEAN,
             HandleInputEvent(w, d, sync)
      PROVE  FirstHandlers'
  <2> DEFINE t == Ticket(w)
             e == [ticket |-> t, shot |-> d.shot, kind |-> d.kind,
                   n |-> issued]
             msgs == IF sync THEN <<Captured(t), Input(e)>> ELSE <<Input(e)>>
  <2>1. t \in Tickets /\ t.h = 0
    BY TicketType DEF IInv, Ticket, FirstHandlers
  <2>2. e \in Events
    BY <2>1, <1>2 DEF IInv, TypeOK, Events, BarrierAssumption, DecisionSet
  <2>3. msgs \in Seq(Messages) /\ FirstQueue(msgs)
    <3>1. Input(e) \in Messages /\ Input(e).ticket.h = 0
      BY <2>1, <2>2 DEF Messages, Input
    <3>2. Captured(t) \in Messages /\ Captured(t).ticket.h = 0
      BY <2>1 DEF Messages, Captured
    <3> HIDE DEF t, e
    <3> QED BY <3>1, <3>2 DEF FirstQueue
  <2>4. SendTo(ProcOf[w], msgs) /\ ProcOf[w] \in Procs
    BY <1>2 DEF HandleInputEvent, BarrierAssumption
  <2>5. \A r \in Procs : FirstQueue(channel'[r])
    BY <2>3, <2>4, FirstHandlersSend
  <2> QED BY <1>2, <2>1, <2>5
          DEF HandleInputEvent, historyVars, boundVars, FirstHandlers,
              FirstQueue
<1>3. ASSUME NEW t \in requests, SendScreenshotAck(t) \/ ScreenshotCaptured(t)
      PROVE  FirstHandlers'
  <2>1. t \in Tickets /\ t.h = 0
    BY DEF IInv, TypeOK, FirstHandlers
  <2>2. /\ <<Captured(t)>> \in Seq(Messages) /\ FirstQueue(<<Captured(t)>>)
        /\ Host(t) \in Procs
    BY <2>1 DEF Messages, Captured, FirstQueue, Host, Tickets,
       BarrierAssumption
  <2>3. \A r \in Procs : FirstQueue(channel'[r])
    BY <1>3, <2>2, FirstHandlersSend DEF SendScreenshotAck, ScreenshotCaptured
  <2> QED BY <1>3, <2>1, <2>3
          DEF SendScreenshotAck, ScreenshotCaptured, browserVars, historyVars,
              boundVars, FirstHandlers, FirstQueue
<1>4. ASSUME NEW p \in Procs, RendererExited(p)
      PROVE  FirstHandlers'
  BY <1>4 DEF RendererExited, FirstHandlers
<1>5. ASSUME NEW p \in Procs, Relaunch(p)
      PROVE  FirstHandlers'
  BY <1>5 DEF Relaunch, browserVars, copyVars, rendererVars, historyVars,
     boundVars, FirstHandlers, FirstQueue
<1>6. ASSUME NEW p \in Procs, OnMessageReceived(p)
      PROVE  FirstHandlers'
  <2> DEFINE m == Head(channel[p])
  <2>1. /\ channel[p] \in Seq(Messages) /\ channel[p] # <<>>
        /\ compositor_q[p] \in Seq(Messages) /\ main_q[p] \in Seq(Messages)
        /\ FirstQueue(channel[p]) /\ FirstQueue(compositor_q[p])
        /\ FirstQueue(main_q[p])
    BY <1>6 DEF IInv, TypeOK, OnMessageReceived, FirstHandlers
  <2>2. m \in Messages /\ m.ticket.h = 0 /\ FirstQueue(Tail(channel[p]))
    BY <2>1, TailType, FirstQueueOps
  <2>3. /\ FirstQueue(Append(compositor_q[p], m))
        /\ FirstQueue(Append(main_q[p], m))
    BY <2>1, <2>2, FirstQueueOps
  <2>4. \A r \in Procs : /\ FirstQueue(channel'[r])
                         /\ FirstQueue(compositor_q'[r])
                         /\ FirstQueue(main_q'[r])
    BY <1>6, <2>2, <2>3 DEF OnMessageReceived, IInv, TypeOK, FirstHandlers
  <2> QED BY <1>6, <2>4 DEF OnMessageReceived, browserVars, copyVars,
             historyVars, boundVars, FirstHandlers, FirstQueue
<1>7. ASSUME NEW p \in Procs, ForwardToHandler(p)
      PROVE  FirstHandlers'
  <2> DEFINE m == Head(compositor_q[p])
  <2>1. /\ compositor_q[p] \in Seq(Messages) /\ compositor_q[p] # <<>>
        /\ main_q[p] \in Seq(Messages)
        /\ FirstQueue(compositor_q[p]) /\ FirstQueue(main_q[p])
    BY <1>7 DEF IInv, TypeOK, ForwardToHandler, FirstHandlers
  <2>2. m \in Messages /\ m.ticket.h = 0 /\ FirstQueue(Tail(compositor_q[p]))
    BY <2>1, TailType, FirstQueueOps
  <2>3. FirstQueue(Append(main_q[p], m))
    BY <2>1, <2>2, FirstQueueOps
  <2>4. \A r \in Procs : /\ FirstQueue(compositor_q'[r])
                         /\ FirstQueue(main_q'[r])
    BY <1>7, <2>2, <2>3 DEF ForwardToHandler, IInv, TypeOK, FirstHandlers
  <2> QED BY <1>7, <2>4 DEF ForwardToHandler, browserVars, copyVars,
             boundVars, FirstHandlers, FirstQueue
<1>8. ASSUME NEW p \in Procs, OnHandleInputEvent(p)
      PROVE  FirstHandlers'
  <2> DEFINE m == Head(main_q[p])
  <2>1. /\ main_q[p] \in Seq(Messages) /\ main_q[p] # <<>>
        /\ FirstQueue(main_q[p])
    BY <1>8 DEF IInv, TypeOK, OnHandleInputEvent, FirstHandlers
  <2>2. /\ m \in Messages /\ m.ticket.h = 0 /\ FirstQueue(Tail(main_q[p]))
        /\ SoundMessage(p, m)
    BY <2>1, TailType, TailSound, FirstQueueOps DEF IInv, QueuesSound
  <2>3. \A r \in Procs : FirstQueue(main_q'[r])
    BY <1>8, <2>2 DEF OnHandleInputEvent, IInv, TypeOK, FirstHandlers
  <2>4. \A w \in Widgets : \A i \in DOMAIN taken'[w] :
          taken'[w][i].ticket.w = w /\ taken'[w][i].ticket.h = 0
    <3> SUFFICES ASSUME NEW w \in Widgets, taken'[w] # taken[w]
                 PROVE  \A i \in DOMAIN taken'[w] :
                          taken'[w][i].ticket.w = w /\ taken'[w][i].ticket.h = 0
      BY DEF FirstHandlers
    <3>1. /\ taken'[w] = Append(taken[w], m.event) /\ m.ticket.w = w
          /\ m.type = "HandleInputEvent"
      BY <1>8 DEF OnHandleInputEvent, IInv, TypeOK
    <3>2. m.event.ticket = m.ticket /\ m.event \in Events
      BY <2>2, <3>1 DEF SoundMessage, Messages
    <3>3. taken[w] \in Seq(Events)
      BY DEF IInv, TypeOK
    <3> HIDE DEF m
    <3> QED BY <3>1, <3>2, <3>3, <2>2 DEF FirstHandlers
  <2>5. UNCHANGED <<browserVars, copyVars, channel, compositor_q, boundVars>>
    BY <1>8 DEF OnHandleInputEvent
  <2> HIDE DEF m
  <2>6. UNCHANGED <<crashes, handler, requests, answered, channel, compositor_q>>
    BY <2>5 DEF browserVars, copyVars, boundVars
  <2> QED BY <2>3, <2>4, <2>6 DEF FirstHandlers, FirstQueue
<1>9. ASSUME NEW w \in Widgets, DidAddInputHandler(w) \/ DidRemoveInputHandler(w)
      PROVE  FirstHandlers'
  BY <1>9 DEF DidAddInputHandler, DidRemoveInputHandler, browserVars,
     copyVars, rendererVars, historyVars, FirstHandlers, FirstQueue
<1> QED BY <1>1, <1>2, <1>3, <1>4, <1>5, <1>6, <1>7, <1>8, <1>9 DEF Next

\* The promise of input_messages.h:129 for the main thread, where it is kept:
\* if no two widgets share a renderer process and no renderer crashes, an event
\* that asked for a screenshot is handled after its own screenshot.
THEOREM OwnScreenshotWhenUnshared ==
  ASSUME OneWidgetPerProcess, MaxCrashes = 0
  PROVE  Spec => []ReleasedByItsOwnScreenshot
<1>1. Init => IInv /\ FirstHandlers
  BY InitInv, FirstHandlersInit, BarrierAssumption
<1>2. IInv /\ FirstHandlers /\ [Next]_vars => (IInv /\ FirstHandlers)'
  BY IInvStep, FirstHandlersStep, BarrierAssumption
<1>3. IInv /\ FirstHandlers => ReleasedByItsOwnScreenshot
  <2> SUFFICES ASSUME IInv, FirstHandlers, NEW w \in Widgets,
                      NEW i \in DOMAIN taken[w], taken[w][i].shot
               PROVE  taken[w][i].ticket \in answered
    BY DEF ReleasedByItsOwnScreenshot
  <2>1. PICK t \in answered : Host(t) = ProcOf[w]
                              /\ t.id = taken[w][i].ticket.id
    BY DEF IInv, ReleasedByItsId
  <2>2. t \in Tickets /\ taken[w][i].ticket \in Tickets
    <3>1. taken[w] \in Seq(Events) /\ answered \subseteq Tickets
      BY DEF IInv, TypeOK
    <3>2. taken[w][i] \in Events
      BY <3>1
    <3> QED BY <3>1, <3>2 DEF Events
  <2>3. t.w = w
    BY <2>1, <2>2 DEF OneWidgetPerProcess, Host, Tickets
  <2>4. taken[w][i].ticket.w = w /\ taken[w][i].ticket.h = 0 /\ t.h = 0
    BY DEF FirstHandlers
  <2>5. t = taken[w][i].ticket
    BY <2>1, <2>2, <2>3, <2>4 DEF Tickets
  <2> QED BY <2>5
<1> QED BY <1>1, <1>2, <1>3, PTL DEF Spec
-----------------------------------------------------------------------------
(* While no route comes or goes: the events of a widget keep their order.  *)

\* m is an input event of widget w.
EventOf(w, m) == m.type = "HandleInputEvent" /\ m.ticket.w = w

\* Of the events of w: those in q are in order; those in q are older than those
\* in r; those in q are older than number k, or newer than all of the history h.
Sorted(w, q) ==
  \A i, j \in DOMAIN q : i < j /\ EventOf(w, q[i]) /\ EventOf(w, q[j])
                           => q[i].event.n < q[j].event.n
Before(w, q, r) ==
  \A i \in DOMAIN q : \A j \in DOMAIN r :
    EventOf(w, q[i]) /\ EventOf(w, r[j]) => q[i].event.n < r[j].event.n
Below(w, q, k) == \A i \in DOMAIN q : EventOf(w, q[i]) => q[i].event.n < k
After(w, q, h) ==
  \A j \in DOMAIN q : EventOf(w, q[j]) => \A i \in DOMAIN h : h[i].n < q[j].event.n
None(w, q) == \A i \in DOMAIN q : ~ EventOf(w, q[i])

\* From the history over the main thread's queue and the compositor thread's
\* back to the channel the events of w grow; without a route there is nothing
\* of w on the way over the compositor thread, with one nothing goes past it.
Queued(w, q, k, h) == Sorted(w, q) /\ Below(w, q, k) /\ After(w, q, h)
InLine(w, mq, cq, ch, k, h, routed) ==
  /\ Queued(w, mq, k, h) /\ Queued(w, cq, k, h) /\ Queued(w, ch, k, h)
  /\ Before(w, mq, cq) /\ Before(w, mq, ch) /\ Before(w, cq, ch)
  /\ routed \/ None(w, cq)
Recalled(k, h) ==
  /\ \A i \in DOMAIN h : h[i].n < k
  /\ \A i, j \in DOMAIN h : i < j => h[i].n < h[j].n

EventsInLine ==
  \A w \in Widgets :
    /\ Recalled(issued, taken[w])
    /\ LET p == ProcOf[w]
       IN  InLine(w, main_q[p], compositor_q[p], channel[p], issued, taken[w],
                  w \in routes)

LineWhileRoutesStable == route_changes = 0 => EventsInLine

-----------------------------------------------------------------------------
(* How these relations follow the operations on queues.                    *)

LEMMA TailInLine ==
  ASSUME NEW w, NEW q \in Seq(Messages), q # <<>>
  PROVE  LET m == Head(q)
             t == Tail(q)
         IN  /\ \A k \in Nat, h \in Seq(Events) : Queued(w, q, k, h) => Queued(w, t, k, h)
             /\ \A r : Before(w, q, r) => Before(w, t, r) /\ Before(w, <<m>>, r)
             /\ \A r : Before(w, r, q) => Before(w, r, t) /\ Before(w, r, <<m>>)
             /\ \A k \in Nat, h \in Seq(Events) : Queued(w, q, k, h) => Queued(w, <<m>>, k, h)
             /\ Sorted(w, q) => Before(w, <<m>>, t)
             /\ None(w, q) => None(w, t) /\ ~ EventOf(w, m)
<1> DEFINE m == Head(q)
           t == Tail(q)
<1>1. /\ t \in Seq(Messages) /\ m = q[1] /\ 1 \in DOMAIN q
      /\ \A i \in DOMAIN t : i + 1 \in DOMAIN q /\ t[i] = q[i + 1]
      /\ DOMAIN t \subseteq Nat \ {0}
  BY TailType
<1>2. DOMAIN <<m>> = {1} /\ <<m>>[1] = m
  OBVIOUS
<1> HIDE DEF m, t
<1>3. PICK o : o = <<m>>
  OBVIOUS
<1>4. DOMAIN o = {1} /\ o[1] = q[1]
  BY <1>1, <1>2, <1>3
<1>5. \A k \in Nat, h \in Seq(Events) : Queued(w, q, k, h) => Queued(w, t, k, h)
  BY <1>1 DEF Queued, Sorted, Below, After
<1>6. \A k \in Nat, h \in Seq(Events) : Queued(w, q, k, h) => Queued(w, o, k, h)
  BY <1>1, <1>4 DEF Queued, Sorted, Below, After
<1>7. \A r : Before(w, q, r) => Before(w, t, r) /\ Before(w, o, r)
  BY <1>1, <1>4 DEF Before
<1>8. \A r : Before(w, r, q) => Before(w, r, t) /\ Before(w, r, o)
  BY <1>1, <1>4 DEF Before
<1>9. Sorted(w, q) => Before(w, o, t)
  BY <1>1, <1>4 DEF Before, Sorted
<1>10. None(w, q) => None(w, t) /\ ~ EventOf(w, m)
  BY <1>1 DEF None
<1> QED BY <1>3, <1>5, <1>6, <1>7, <1>8, <1>9, <1>10 DEF m, t

LEMMA AppendInLine ==
  ASSUME NEW w, NEW q \in Seq(Messages), NEW m \in Messages
  PROVE  LET t == Append(q, m)
         IN  /\ \A k \in Nat, h \in Seq(Events) :
                  Queued(w, q, k, h) /\ Queued(w, <<m>>, k, h) /\ Before(w, q, <<m>>)
                    => Queued(w, t, k, h)
             /\ \A r : Before(w, q, r) /\ Before(w, <<m>>, r) => Before(w, t, r)
             /\ \A r : Before(w, r, q) /\ Before(w, r, <<m>>) => Before(w, r, t)
             /\ None(w, q) /\ ~ EventOf(w, m) => None(w, t)
<1> DEFINE t == Append(q, m)
<1>1. /\ t \in Seq(Messages) /\ DOMAIN t = DOMAIN q \cup {Len(q) + 1}
      /\ t[Len(q) + 1] = m /\ \A i \in DOMAIN q : t[i] = q[i] /\ i < Len(q) + 1
      /\ DOMAIN q \subseteq Nat /\ Len(q) \in Nat
  OBVIOUS
<1>2. DOMAIN <<m>> = {1} /\ <<m>>[1] = m
  OBVIOUS
<1> HIDE DEF t
<1>3. PICK o : o = <<m>>
  OBVIOUS
<1>4. PICK n \in Nat : n = Len(q)
  BY <1>1
<1>5. /\ DOMAIN t = DOMAIN q \cup {n + 1} /\ t[n + 1] = o[1] /\ DOMAIN o = {1}
      /\ \A i \in DOMAIN q : t[i] = q[i] /\ i < n + 1 /\ i \in Nat
  BY <1>1, <1>2, <1>3, <1>4
<1>6. \A k \in Nat, h \in Seq(Events) :
        Queued(w, q, k, h) /\ Queued(w, o, k, h) /\ Before(w, q, o) => Queued(w, t, k, h)
  <2> SUFFICES ASSUME NEW k \in Nat, NEW h \in Seq(Events),
                      Queued(w, q, k, h), Queued(w, o, k, h), Before(w, q, o)
               PROVE  Queued(w, t, k, h)
    OBVIOUS
  <2>1. Below(w, t, k) /\ After(w, t, h)
    BY <1>5 DEF Queued, Below, After
  <2>2. Sorted(w, t)
    <3> SUFFICES ASSUME NEW i \in DOMAIN t, NEW j \in DOMAIN t, i < j,
                        EventOf(w, t[i]), EventOf(w, t[j])
                 PROVE  t[i].event.n < t[j].event.n
      BY DEF Sorted
    <3>1. i \in DOMAIN q
      BY <1>5
    <3>2. CASE j \in DOMAIN q
      BY <3>1, <3>2, <1>5 DEF Queued, Sorted
    <3>3. CASE j = n + 1
      BY <3>1, <3>3, <1>5 DEF Before
    <3> QED BY <3>2, <3>3, <1>5
  <2> QED BY <2>1, <2>2 DEF Queued
<1>7. \A r : Before(w, q, r) /\ Before(w, o, r) => Before(w, t, r)
  BY <1>5 DEF Before
<1>8. \A r : Before(w, r, q) /\ Before(w, r, o) => Before(w, r, t)
  BY <1>5 DEF Before
<1>9. None(w, q) /\ ~ EventOf(w, m) => None(w, t)
  BY <1>1 DEF None
<1> QED BY <1>3, <1>6, <1>7, <1>8, <1>9 DEF t

\* A message that is no event of w stands in no relation.
LEMMA OtherInLine ==
  ASSUME NEW w, NEW m, ~ EventOf(w, m)
  PROVE  /\ \A k, h : Queued(w, <<m>>, k, h)
         /\ \A r : Before(w, <<m>>, r) /\ Before(w, r, <<m>>)
<1>1. DOMAIN <<m>> = {1} /\ <<m>>[1] = m
  OBVIOUS
<1>2. PICK o : o = <<m>>
  OBVIOUS
<1> QED BY <1>1, <1>2 DEF Queued, Sorted, Below, After, Before

-----------------------------------------------------------------------------
(* The line of one widget, step by step.                                   *)

LEMMA ReceiveInLine ==
  ASSUME NEW w, NEW mq \in Seq(Messages), NEW cq \in Seq(Messages),
         NEW ch \in Seq(Messages), ch # <<>>, NEW k \in Nat, NEW h \in Seq(Events),
         NEW routed \in BOOLEAN, InLine(w, mq, cq, ch, k, h, routed)
  PROVE  LET m == Head(ch)
         IN  /\ routed \/ ~ EventOf(w, m)
                  => InLine(w, mq, Append(cq, m), Tail(ch), k, h, routed)
             /\ ~ routed \/ ~ EventOf(w, m)
                  => InLine(w, Append(mq, m), cq, Tail(ch), k, h, routed)
<1> DEFINE m == Head(ch)
           t == Tail(ch)
<1>1. m \in Messages /\ t \in Seq(Messages)
  BY TailType
<1>2. /\ Queued(w, t, k, h) /\ Queued(w, <<m>>, k, h) /\ Before(w, <<m>>, t)
      /\ Before(w, mq, t) /\ Before(w, cq, t)
      /\ Before(w, mq, <<m>>) /\ Before(w, cq, <<m>>)
  BY TailInLine DEF InLine, Queued
<1> HIDE DEF m, t
<1>3. routed \/ ~ EventOf(w, m) => InLine(w, mq, Append(cq, m), t, k, h, routed)
  BY <1>1, <1>2, AppendInLine DEF InLine
<1>4. ~ routed => Before(w, Append(mq, m), cq)
  BY DEF InLine, Before, None
<1>5. ~ EventOf(w, m) => Before(w, Append(mq, m), cq)
  BY <1>1, AppendInLine, OtherInLine DEF InLine
<1>6. ~ routed \/ ~ EventOf(w, m) => InLine(w, Append(mq, m), cq, t, k, h, routed)
  BY <1>1, <1>2, <1>4, <1>5, AppendInLine DEF InLine
<1> QED BY <1>3, <1>6 DEF m, t

LEMMA ForwardInLine ==
  ASSUME NEW w, NEW mq \in Seq(Messages), NEW cq \in Seq(Messages),
         NEW ch \in Seq(Messages), cq # <<>>, NEW k \in Nat, NEW h \in Seq(Events),
         NEW routed \in BOOLEAN, InLine(w, mq, cq, ch, k, h, routed)
  PROVE  /\ InLine(w, Append(mq, Head(cq)), Tail(cq), ch, k, h, routed)
         /\ InLine(w, mq, Tail(cq), ch, k, h, routed)
<1> DEFINE m == Head(cq)
           t == Tail(cq)
<1>1. m \in Messages /\ t \in Seq(Messages)
  BY TailType
<1>2. /\ Queued(w, t, k, h) /\ Queued(w, <<m>>, k, h) /\ Before(w, <<m>>, t)
      /\ Before(w, mq, t) /\ Before(w, mq, <<m>>)
      /\ Before(w, t, ch) /\ Before(w, <<m>>, ch) /\ (routed \/ None(w, t))
  BY TailInLine DEF InLine, Queued
<1> HIDE DEF m, t
<1>3. InLine(w, Append(mq, m), t, ch, k, h, routed) /\ InLine(w, mq, t, ch, k, h, routed)
  BY <1>1, <1>2, AppendInLine DEF InLine
<1> QED BY <1>3 DEF m, t

LEMMA HandleInLine ==
  ASSUME NEW w, NEW mq \in Seq(Messages), NEW cq \in Seq(Messages),
         NEW ch \in Seq(Messages), mq # <<>>, NEW k \in Nat, NEW h \in Seq(Events),
         NEW routed \in BOOLEAN, InLine(w, mq, cq, ch, k, h, routed), Recalled(k, h)
  PROVE  LET m == Head(mq)
         IN  /\ InLine(w, Tail(mq), cq, ch, k, h, routed)
             /\ EventOf(w, m) /\ m.event \in Events
                  => LET r == Append(h, m.event)
                     IN  InLine(w, Tail(mq), cq, ch, k, r, routed) /\ Recalled(k, r)
<1> DEFINE m == Head(mq)
           t == Tail(mq)
<1>1. m \in Messages /\ t \in Seq(Messages)
  BY TailType
<1>2. /\ Queued(w, t, k, h) /\ Queued(w, <<m>>, k, h) /\ Before(w, <<m>>, t)
      /\ Before(w, t, cq) /\ Before(w, <<m>>, cq)
      /\ Before(w, t, ch) /\ Before(w, <<m>>, ch)
  BY TailInLine DEF InLine, Queued
<1>3. DOMAIN <<m>> = {1} /\ <<m>>[1] = m
  OBVIOUS
<1> HIDE DEF m, t
<1>4. InLine(w, t, cq, ch, k, h, routed)
  BY <1>2 DEF InLine
<1>5. ASSUME EventOf(w, m), m.event \in Events
      PROVE  LET r == Append(h, m.event)
             IN  InLine(w, t, cq, ch, k, r, routed) /\ Recalled(k, r)
  <2> DEFINE r == Append(h, m.event)
  <2>1. PICK o : o = <<m>>
    OBVIOUS
  <2>2. m.event.n < k /\ \A i \in DOMAIN h : h[i].n < m.event.n
    BY <1>2, <1>3, <1>5, <2>1 DEF Queued, Below, After
  <2>3. PICK n \in Nat : n = Len(h)
    OBVIOUS
  <2>4. /\ DOMAIN r = DOMAIN h \cup {n + 1} /\ r[n + 1] = m.event
        /\ \A i \in DOMAIN h : r[i] = h[i] /\ i \in Nat /\ i < n + 1
    BY <1>5, <2>3
  <2> HIDE DEF r
  <2>5. Recalled(k, r)
    BY <2>2, <2>4 DEF Recalled
  <2>6. \A q : (Before(w, o, q) /\ After(w, q, h)) => After(w, q, r)
    BY <1>3, <1>5, <2>1, <2>4 DEF Before, After
  <2>7. After(w, t, r) /\ After(w, cq, r) /\ After(w, ch, r)
    BY <1>2, <2>1, <2>6 DEF InLine, Queued
  <2> QED BY <1>4, <2>5, <2>7 DEF InLine, Queued, r
<1> QED BY <1>4, <1>5 DEF m, t

\* More events are made somewhere.
LEMMA AgeInLine ==
  ASSUME NEW k \in Nat, NEW n \in Nat, k < n, NEW h \in Seq(Events)
  PROVE  /\ Recalled(k, h) => Recalled(n, h)
         /\ \A w, routed : \A mq, cq, ch \in Seq(Messages) :
              InLine(w, mq, cq, ch, k, h, routed) => InLine(w, mq, cq, ch, n, h, routed)
<1>1. \A w : \A q \in Seq(Messages) : Below(w, q, k) => Below(w, q, n)
  <2> SUFFICES ASSUME NEW w, NEW q \in Seq(Messages), Below(w, q, k),
                      NEW i \in DOMAIN q, EventOf(w, q[i])
               PROVE  q[i].event.n < n
    BY DEF Below
  <2>1. q[i] \in Messages /\ q[i].event.n < k
    BY DEF Below
  <2>2. q[i].event.n \in Nat
    BY <2>1 DEF Messages, Events, EventOf
  <2> QED BY <2>1, <2>2
<1>2. \A w, routed : \A mq, cq, ch \in Seq(Messages) :
        InLine(w, mq, cq, ch, k, h, routed) => InLine(w, mq, cq, ch, n, h, routed)
  BY <1>1 DEF InLine, Queued
<1>3. Recalled(k, h) => Recalled(n, h)
  <2> SUFFICES ASSUME Recalled(k, h) PROVE Recalled(n, h)
    OBVIOUS
  <2>1. \A i \in DOMAIN h : h[i].n < k /\ h[i] \in Events
    BY DEF Recalled
  <2>2. \A i \in DOMAIN h : h[i].n < k /\ h[i].n \in Nat
    BY <2>1 DEF Events
  <2> QED BY <2>2 DEF Recalled
<1> QED BY <1>2, <1>3

\* A message joins the channel: no event of w, or the newest one.
LEMMA OtherSent ==
  ASSUME NEW w, NEW mq \in Seq(Messages), NEW cq \in Seq(Messages),
         NEW ch \in Seq(Messages), NEW k \in Nat, NEW h \in Seq(Events),
         NEW routed \in BOOLEAN, InLine(w, mq, cq, ch, k, h, routed),
         NEW m \in Messages, ~ EventOf(w, m)
  PROVE  InLine(w, mq, cq, Append(ch, m), k, h, routed)
  BY AppendInLine, OtherInLine DEF InLine

LEMMA SendInLine ==
  ASSUME NEW w, NEW mq \in Seq(Messages), NEW cq \in Seq(Messages),
         NEW ch \in Seq(Messages), NEW k \in Nat, NEW h \in Seq(Events),
         NEW routed \in BOOLEAN, InLine(w, mq, cq, ch, k, h, routed), Recalled(k, h),
         NEW n \in Nat, k < n,
         NEW m \in Messages, EventOf(w, m), m.event.n = k
  PROVE  InLine(w, mq, cq, Append(ch, m), n, h, routed)
<1>1. DOMAIN <<m>> = {1} /\ <<m>>[1] = m
  OBVIOUS
<1>2. PICK o : o = <<m>>
  OBVIOUS
<1>4. InLine(w, mq, cq, ch, n, h, routed)
  BY AgeInLine
<1>5. Queued(w, o, n, h)
  BY <1>1, <1>2 DEF Queued, Sorted, Below, After, Recalled
<1>6. \A q : Below(w, q, k) => Before(w, q, o)
  BY <1>1, <1>2 DEF Below, Before
<1>7. Before(w, mq, o) /\ Before(w, cq, o) /\ Before(w, ch, o)
  BY <1>6 DEF InLine, Queued
<1> QED BY <1>2, <1>4, <1>5, <1>7, AppendInLine DEF InLine

LEMMA JoinInLine ==
  ASSUME NEW w, NEW mq \in Seq(Messages), NEW cq \in Seq(Messages),
         NEW k \in Nat, NEW h \in Seq(Events), NEW routed \in BOOLEAN, Recalled(k, h),
         NEW n \in Nat, k < n,
         NEW m \in Messages, EventOf(w, m) => m.event.n = k
  PROVE  \A ch \in Seq(Messages) : InLine(w, mq, cq, ch, k, h, routed)
           => InLine(w, mq, cq, Append(ch, m), n, h, routed)
<1> SUFFICES ASSUME NEW ch \in Seq(Messages), InLine(w, mq, cq, ch, k, h, routed)
             PROVE  InLine(w, mq, cq, Append(ch, m), n, h, routed)
  OBVIOUS
<1>1. CASE EventOf(w, m)
  BY <1>1, SendInLine
<1>2. CASE ~ EventOf(w, m)
  <2>1. InLine(w, mq, cq, ch, n, h, routed)
    BY AgeInLine
  <2> QED BY <1>2, <2>1, OtherSent
<1> QED BY <1>1, <1>2

\* A new event is sent, after a message that is none or alone.
LEMMA IssueInLine ==
  ASSUME NEW w, NEW mq \in Seq(Messages), NEW cq \in Seq(Messages),
         NEW ch \in Seq(Messages), NEW k \in Nat, NEW h \in Seq(Events),
         NEW routed \in BOOLEAN, InLine(w, mq, cq, ch, k, h, routed), Recalled(k, h),
         NEW n \in Nat, k < n,
         NEW c \in Messages, ~ EventOf(w, c),
         NEW m \in Messages, EventOf(w, m) => m.event.n = k
  PROVE  /\ InLine(w, mq, cq, Append(ch, m), n, h, routed)
         /\ InLine(w, mq, cq, Append(Append(ch, c), m), n, h, routed)
         /\ InLine(w, mq, cq, ch, n, h, routed) /\ Recalled(n, h)
<1>1. \A q \in Seq(Messages) : InLine(w, mq, cq, q, k, h, routed)
        => InLine(w, mq, cq, Append(q, m), n, h, routed)
  BY JoinInLine
<1>2. InLine(w, mq, cq, Append(ch, c), k, h, routed)
  BY OtherSent
<1>3. Append(ch, c) \in Seq(Messages)
  OBVIOUS
<1>4. InLine(w, mq, cq, ch, n, h, routed) /\ Recalled(n, h)
  BY AgeInLine
<1> QED BY <1>1, <1>2, <1>3, <1>4

-----------------------------------------------------------------------------
(* Every step keeps the events in line.                                    *)

\* Renderer steps: the line of each widget of p comes from one of the lemmas.
LEMMA LinesChange ==
  ASSUME BarrierAssumption, IInv, EventsInLine, NEW p \in Procs,
         UNCHANGED <<issued, routes>>,
         \A r \in Procs \ {p} : /\ main_q'[r] = main_q[r] /\ channel'[r] = channel[r]
                                /\ compositor_q'[r] = compositor_q[r],
         \A w \in Widgets : ProcOf[w] # p => taken'[w] = taken[w],
         \A w \in Widgets : ProcOf[w] = p =>
           /\ Recalled(issued, taken'[w])
           /\ InLine(w, main_q'[p], compositor_q'[p], channel'[p], issued, taken'[w],
                     w \in routes)
  PROVE  EventsInLine'
<1> SUFFICES ASSUME NEW w \in Widgets
             PROVE  /\ Recalled(issued', taken'[w])
                    /\ InLine(w, main_q'[ProcOf[w]], compositor_q'[ProcOf[w]],
                              channel'[ProcOf[w]], issued', taken'[w], w \in routes')
  BY DEF EventsInLine, InLine, Queued, Sorted, Before, Below, After, None, Recalled, EventOf
<1>1. ProcOf[w] \in Procs
  BY DEF BarrierAssumption
<1>2. CASE ProcOf[w] = p
  BY <1>2
<1>3. CASE ProcOf[w] # p
  BY <1>1, <1>3 DEF EventsInLine
<1> QED BY <1>2, <1>3

\* What is known of a process and one of its widgets.
LEMMA LineOf ==
  ASSUME BarrierAssumption, IInv, EventsInLine, NEW w \in Widgets
  PROVE  LET p == ProcOf[w]
         IN  /\ p \in Procs /\ issued \in Nat /\ taken[w] \in Seq(Events)
             /\ main_q[p] \in Seq(Messages) /\ compositor_q[p] \in Seq(Messages)
             /\ channel[p] \in Seq(Messages)
             /\ Recalled(issued, taken[w])
             /\ InLine(w, main_q[p], compositor_q[p], channel[p], issued, taken[w],
                       w \in routes)
  BY DEF BarrierAssumption, IInv, TypeOK, EventsInLine

LEMMA ReceiveLine ==
  ASSUME BarrierAssumption, IInv, EventsInLine, NEW p \in Procs, OnMessageReceived(p)
  PROVE  EventsInLine'
<1> DEFINE m == Head(channel[p])
<1>1. /\ channel[p] # <<>> /\ channel' = [channel EXCEPT ![p] = Tail(@)]
      /\ IF m.ticket.w \in routes
           THEN /\ compositor_q' = [compositor_q EXCEPT ![p] = Append(@, m)]
                /\ main_q' = main_q
           ELSE /\ main_q' = [main_q EXCEPT ![p] = Append(@, m)]
                /\ compositor_q' = compositor_q
      /\ UNCHANGED <<issued, routes, taken>>
  BY DEF OnMessageReceived, RequiresThreadBounce, browserVars, historyVars
<1>2. \A w \in Widgets : ProcOf[w] = p =>
        /\ Recalled(issued, taken'[w])
        /\ InLine(w, main_q'[p], compositor_q'[p], channel'[p], issued, taken'[w],
                  w \in routes)
  <2> SUFFICES ASSUME NEW w \in Widgets, ProcOf[w] = p
               PROVE  /\ Recalled(issued, taken'[w])
                      /\ InLine(w, main_q'[p], compositor_q'[p], channel'[p], issued,
                                taken'[w], w \in routes)
    OBVIOUS
  <2>1. PICK mq \in Seq(Messages) : mq = main_q[p]
    BY LineOf
  <2>2. PICK cq \in Seq(Messages) : cq = compositor_q[p]
    BY LineOf
  <2>3. PICK ch \in Seq(Messages) : ch = channel[p]
    BY LineOf
  <2>4. PICK k \in Nat : k = issued
    BY LineOf
  <2>5. PICK h \in Seq(Events) : h = taken[w]
    BY LineOf
  <2>6. PICK routed \in BOOLEAN : routed = (w \in routes)
    <3>1. (w \in routes) \in BOOLEAN
      OBVIOUS
    <3> QED BY <3>1, Zenon
  <2>7. ch # <<>> /\ InLine(w, mq, cq, ch, k, h, routed) /\ Recalled(k, h)
    BY <1>1, <2>1, <2>2, <2>3, <2>4, <2>5, <2>6, LineOf
  <2>8. /\ routed \/ ~ EventOf(w, m)
             => InLine(w, mq, Append(cq, m), Tail(ch), k, h, routed)
        /\ ~ routed \/ ~ EventOf(w, m)
             => InLine(w, Append(mq, m), cq, Tail(ch), k, h, routed)
    BY <2>3, <2>7, ReceiveInLine
  <2>9. channel'[p] = Tail(ch) /\ taken'[w] = h
    BY <1>1, <2>3, <2>5 DEF IInv, TypeOK
  <2>10. CASE m.ticket.w \in routes
    <3>1. main_q'[p] = mq /\ compositor_q'[p] = Append(cq, m)
      BY <1>1, <2>1, <2>2, <2>10 DEF IInv, TypeOK
    <3>2. routed \/ ~ EventOf(w, m)
      BY <2>6, <2>10 DEF EventOf
    <3> HIDE DEF m
    <3> QED BY <2>4, <2>6, <2>7, <2>8, <2>9, <3>1, <3>2
  <2>11. CASE m.ticket.w \notin routes
    <3>1. compositor_q'[p] = cq /\ main_q'[p] = Append(mq, m)
      BY <1>1, <2>1, <2>2, <2>11 DEF IInv, TypeOK
    <3>2. ~ routed \/ ~ EventOf(w, m)
      BY <2>6, <2>11 DEF EventOf
    <3> HIDE DEF m
    <3> QED BY <2>4, <2>6, <2>7, <2>8, <2>9, <3>1, <3>2
  <2> QED BY <2>10, <2>11
<1>3. \A r \in Procs \ {p} : /\ main_q'[r] = main_q[r] /\ channel'[r] = channel[r]
                             /\ compositor_q'[r] = compositor_q[r]
  BY <1>1 DEF IInv, TypeOK
<1> QED BY <1>1, <1>2, <1>3, LinesChange

LEMMA ForwardLine ==
  ASSUME BarrierAssumption, IInv, EventsInLine, NEW p \in Procs, ForwardToHandler(p)
  PROVE  EventsInLine'
<1> DEFINE m == Head(compositor_q[p])
<1>1. /\ compositor_q[p] # <<>> /\ compositor_q' = [compositor_q EXCEPT ![p] = Tail(@)]
      /\ main_q' = main_q \/ main_q' = [main_q EXCEPT ![p] = Append(@, m)]
      /\ UNCHANGED <<issued, routes, taken, channel>>
  BY DEF ForwardToHandler, browserVars
<1>2. \A w \in Widgets : ProcOf[w] = p =>
        /\ Recalled(issued, taken'[w])
        /\ InLine(w, main_q'[p], compositor_q'[p], channel'[p], issued, taken'[w],
                  w \in routes)
  <2> SUFFICES ASSUME NEW w \in Widgets, ProcOf[w] = p
               PROVE  /\ Recalled(issued, taken'[w])
                      /\ InLine(w, main_q'[p], compositor_q'[p], channel'[p], issued,
                                taken'[w], w \in routes)
    OBVIOUS
  <2>1. PICK mq \in Seq(Messages) : mq = main_q[p]
    BY LineOf
  <2>2. PICK cq \in Seq(Messages) : cq = compositor_q[p]
    BY LineOf
  <2>3. PICK ch \in Seq(Messages) : ch = channel[p]
    BY LineOf
  <2>4. PICK k \in Nat : k = issued
    BY LineOf
  <2>5. PICK h \in Seq(Events) : h = taken[w]
    BY LineOf
  <2>6. PICK routed \in BOOLEAN : routed = (w \in routes)
    <3>1. (w \in routes) \in BOOLEAN
      OBVIOUS
    <3> QED BY <3>1, Zenon
  <2>7. cq # <<>> /\ InLine(w, mq, cq, ch, k, h, routed) /\ Recalled(k, h)
    BY <1>1, <2>1, <2>2, <2>3, <2>4, <2>5, <2>6, LineOf
  <2>8. /\ InLine(w, Append(mq, m), Tail(cq), ch, k, h, routed)
        /\ InLine(w, mq, Tail(cq), ch, k, h, routed)
    <3>1. /\ InLine(w, Append(mq, Head(cq)), Tail(cq), ch, k, h, routed)
          /\ InLine(w, mq, Tail(cq), ch, k, h, routed)
      BY <2>7, ForwardInLine
    <3>2. m = Head(cq)
      BY <2>2
    <3> HIDE DEF m
    <3> QED BY <3>1, <3>2
  <2>9. compositor_q'[p] = Tail(cq) /\ taken'[w] = h /\ channel'[p] = ch
    BY <1>1, <2>2, <2>3, <2>5 DEF IInv, TypeOK
  <2>10. main_q'[p] = mq \/ main_q'[p] = Append(mq, m)
    BY <1>1, <2>1 DEF IInv, TypeOK
  <2> HIDE DEF m
  <2> QED BY <2>4, <2>6, <2>7, <2>8, <2>9, <2>10
<1>3. \A r \in Procs \ {p} : /\ main_q'[r] = main_q[r] /\ channel'[r] = channel[r]
                             /\ compositor_q'[r] = compositor_q[r]
  BY <1>1 DEF IInv, TypeOK
<1>4. \A w \in Widgets : taken'[w] = taken[w]
  BY <1>1
<1> QED BY <1>1, <1>2, <1>3, <1>4, LinesChange

LEMMA HandleLine ==
  ASSUME BarrierAssumption, IInv, EventsInLine, NEW p \in Procs, OnHandleInputEvent(p)
  PROVE  EventsInLine'
<1> DEFINE m == Head(main_q[p])
<1>1. /\ main_q[p] # <<>> /\ main_q' = [main_q EXCEPT ![p] = Tail(@)]
      /\ \/ taken' = taken
         \/ /\ m.type = "HandleInputEvent"
            /\ taken' = [taken EXCEPT ![m.ticket.w] = Append(@, m.event)]
      /\ UNCHANGED <<issued, routes, compositor_q, channel>>
  BY DEF OnHandleInputEvent, browserVars
<1>5. m \in Messages /\ Host(m.ticket) = p
  BY <1>1, TailType, TailSound DEF IInv, TypeOK, QueuesSound, SoundMessage
<1>6. m.type = "HandleInputEvent" => m.event \in Events
  BY <1>5 DEF Messages
<1>2. \A w \in Widgets : ProcOf[w] = p =>
        /\ Recalled(issued, taken'[w])
        /\ InLine(w, main_q'[p], compositor_q'[p], channel'[p], issued, taken'[w],
                  w \in routes)
  <2> SUFFICES ASSUME NEW w \in Widgets, ProcOf[w] = p
               PROVE  /\ Recalled(issued, taken'[w])
                      /\ InLine(w, main_q'[p], compositor_q'[p], channel'[p], issued,
                                taken'[w], w \in routes)
    OBVIOUS
  <2>1. PICK mq \in Seq(Messages) : mq = main_q[p]
    BY LineOf
  <2>2. PICK cq \in Seq(Messages) : cq = compositor_q[p]
    BY LineOf
  <2>3. PICK ch \in Seq(Messages) : ch = channel[p]
    BY LineOf
  <2>4. PICK k \in Nat : k = issued
    BY LineOf
  <2>5. PICK h \in Seq(Events) : h = taken[w]
    BY LineOf
  <2>6. PICK routed \in BOOLEAN : routed = (w \in routes)
    <3>1. (w \in routes) \in BOOLEAN
      OBVIOUS
    <3> QED BY <3>1, Zenon
  <2>7. mq # <<>> /\ InLine(w, mq, cq, ch, k, h, routed) /\ Recalled(k, h)
    BY <1>1, <2>1, <2>2, <2>3, <2>4, <2>5, <2>6, LineOf
  <2>8. /\ InLine(w, Tail(mq), cq, ch, k, h, routed)
        /\ EventOf(w, m) /\ m.event \in Events
             => /\ InLine(w, Tail(mq), cq, ch, k, Append(h, m.event), routed)
                /\ Recalled(k, Append(h, m.event))
    BY <2>1, <2>7, HandleInLine, SMTT(30)
  <2>9. main_q'[p] = Tail(mq) /\ compositor_q'[p] = cq /\ channel'[p] = ch
    BY <1>1, <2>1, <2>2, <2>3 DEF IInv, TypeOK
  <2> HIDE DEF m
  <2>10. taken'[w] = h \/ (EventOf(w, m) /\ taken'[w] = Append(h, m.event))
    BY <1>1, <2>5 DEF IInv, TypeOK, EventOf
  <2> QED BY <1>6, <2>4, <2>6, <2>7, <2>8, <2>9, <2>10 DEF EventOf
<1>3. \A r \in Procs \ {p} : /\ main_q'[r] = main_q[r] /\ channel'[r] = channel[r]
                             /\ compositor_q'[r] = compositor_q[r]
  BY <1>1 DEF IInv, TypeOK
<1>4. \A w \in Widgets : ProcOf[w] # p => taken'[w] = taken[w]
  <2> SUFFICES ASSUME NEW w \in Widgets, ProcOf[w] # p PROVE taken'[w] = taken[w]
    OBVIOUS
  <2>1. m.ticket.w # w
    BY <1>5 DEF Host
  <2> HIDE DEF m
  <2> QED BY <1>1, <2>1 DEF IInv, TypeOK
<1> QED BY <1>1, <1>2, <1>3, <1>4, LinesChange

\* Both answers to a copy request send one message that is no event.
LEMMA AnswerLine ==
  ASSUME BarrierAssumption, IInv, EventsInLine, NEW p \in Procs, NEW c \in Messages,
         c.type # "HandleInputEvent", SendTo(p, <<c>>),
         UNCHANGED <<issued, routes, taken, main_q, compositor_q>>
  PROVE  EventsInLine'
<1>1. /\ channel' = channel \/ channel' = [channel EXCEPT ![p] = Append(@, c)]
      /\ UNCHANGED <<issued, routes, taken, main_q, compositor_q>>
  <2>1. channel[p] \in Seq(Messages)
    BY DEF IInv, TypeOK
  <2>2. channel[p] \o <<c>> = Append(channel[p], c)
    BY <2>1
  <2> QED BY <2>2 DEF SendTo
<1>2. \A w \in Widgets : ProcOf[w] = p =>
        /\ Recalled(issued, taken'[w])
        /\ InLine(w, main_q'[p], compositor_q'[p], channel'[p], issued, taken'[w],
                  w \in routes)
  <2> SUFFICES ASSUME NEW w \in Widgets, ProcOf[w] = p
               PROVE  /\ Recalled(issued, taken'[w])
                      /\ InLine(w, main_q'[p], compositor_q'[p], channel'[p], issued,
                                taken'[w], w \in routes)
    OBVIOUS
  <2>1. PICK mq \in Seq(Messages) : mq = main_q[p]
    BY LineOf
  <2>2. PICK cq \in Seq(Messages) : cq = compositor_q[p]
    BY LineOf
  <2>3. PICK ch \in Seq(Messages) : ch = channel[p]
    BY LineOf
  <2>4. PICK k \in Nat : k = issued
    BY LineOf
  <2>5. PICK h \in Seq(Events) : h = taken[w]
    BY LineOf
  <2>6. PICK routed \in BOOLEAN : routed = (w \in routes)
    <3>1. (w \in routes) \in BOOLEAN
      OBVIOUS
    <3> QED BY <3>1, Zenon
  <2>7. InLine(w, mq, cq, ch, k, h, routed) /\ Recalled(k, h)
    BY <2>1, <2>2, <2>3, <2>4, <2>5, <2>6, LineOf
  <2>8. InLine(w, mq, cq, Append(ch, c), k, h, routed)
    BY <2>7, OtherSent DEF EventOf
  <2>9. channel'[p] = ch \/ channel'[p] = Append(ch, c)
    BY <1>1, <2>3 DEF IInv, TypeOK
  <2> QED BY <1>1, <2>1, <2>2, <2>4, <2>5, <2>6, <2>7, <2>8, <2>9
<1>3. \A r \in Procs \ {p} : /\ main_q'[r] = main_q[r] /\ channel'[r] = channel[r]
                             /\ compositor_q'[r] = compositor_q[r]
  BY <1>1 DEF IInv, TypeOK
<1> QED BY <1>1, <1>2, <1>3, LinesChange

LEMMA IssueLine ==
  ASSUME BarrierAssumption, IInv, EventsInLine,
         NEW v \in Widgets, NEW d \in Decisions, NEW sync \in BOOLEAN,
         HandleInputEvent(v, d, sync)
  PROVE  EventsInLine'
<1> DEFINE t == Ticket(v)
           e == [ticket |-> t, shot |-> d.shot, kind |-> d.kind, n |-> issued]
           p == ProcOf[v]
<1>1. t \in Tickets /\ t.w = v
  BY TicketType DEF IInv, Ticket
<1>2. e \in Events /\ e.n = issued
  BY <1>1 DEF IInv, TypeOK, Events, BarrierAssumption, DecisionSet
<1>3. PICK m \in Messages : /\ m = Input(e) /\ m.event.n = issued
                            /\ \A w : EventOf(w, m) <=> w = v
  <2>1. e.ticket = t
    OBVIOUS
  <2> HIDE DEF e, t
  <2>2. Input(e) \in Messages
    BY <1>1, <1>2, <2>1 DEF Input, Messages
  <2>3. Input(e).event.n = issued /\ \A w : EventOf(w, Input(e)) <=> w = v
    BY <1>1, <1>2, <2>1 DEF Input, EventOf
  <2> QED BY <2>2, <2>3
<1>4. PICK c \in Messages : c = Captured(t) /\ \A w : ~ EventOf(w, c)
  <2> HIDE DEF t
  <2>1. Captured(t) \in Messages
    BY <1>1 DEF Captured, Messages
  <2>2. \A w : ~ EventOf(w, Captured(t))
    BY DEF Captured, EventOf
  <2> QED BY <2>1, <2>2
<1>5. /\ channel' = [channel EXCEPT ![p] = @ \o (IF sync THEN <<c, m>> ELSE <<m>>)]
      /\ issued' = issued + 1
      /\ UNCHANGED <<routes, taken, main_q, compositor_q>>
  BY <1>3, <1>4 DEF HandleInputEvent, SendTo, historyVars
<1> HIDE DEF t, e
<1> SUFFICES ASSUME NEW w \in Widgets
             PROVE  /\ Recalled(issued', taken'[w])
                    /\ InLine(w, main_q'[ProcOf[w]], compositor_q'[ProcOf[w]],
                              channel'[ProcOf[w]], issued', taken'[w], w \in routes')
  BY DEF EventsInLine, InLine, Queued, Sorted, Before, Below, After, None, Recalled, EventOf
<1>11. PICK mq \in Seq(Messages) : mq = main_q[ProcOf[w]]
  BY LineOf
<1>12. PICK cq \in Seq(Messages) : cq = compositor_q[ProcOf[w]]
  BY LineOf
<1>13. PICK ch \in Seq(Messages) : ch = channel[ProcOf[w]]
  BY LineOf
<1>14. PICK k \in Nat : k = issued
  BY LineOf
<1>25. PICK n \in Nat : n = k + 1
  OBVIOUS
<1>15. PICK h \in Seq(Events) : h = taken[w]
  BY LineOf
<1>16. PICK routed \in BOOLEAN : routed = (w \in routes)
  <2>1. (w \in routes) \in BOOLEAN
    OBVIOUS
  <2> QED BY <2>1, Zenon
<1> HIDE DEF p
<1>17. InLine(w, mq, cq, ch, k, h, routed) /\ Recalled(k, h)
  BY <1>11, <1>12, <1>13, <1>14, <1>15, <1>16, LineOf
<1>19. /\ main_q'[ProcOf[w]] = mq /\ compositor_q'[ProcOf[w]] = cq /\ taken'[w] = h
       /\ issued' = n /\ routed = (w \in routes')
  BY <1>5, <1>11, <1>12, <1>14, <1>15, <1>16, <1>25
<1>20. channel'[ProcOf[w]] \in {ch, Append(ch, m), Append(Append(ch, c), m)}
       /\ (channel'[ProcOf[w]] = ch => w # v)
  <2>1. CASE ProcOf[w] # p
    <3>1. channel'[ProcOf[w]] = channel[ProcOf[w]]
      BY <1>5, <2>1, LineOf DEF IInv, TypeOK
    <3>2. w # v
      BY <2>1 DEF p
    <3> QED BY <1>13, <3>1, <3>2
  <2>2. CASE ProcOf[w] = p /\ sync
    <3>1. channel'[ProcOf[w]] = ch \o <<c, m>>
      BY <1>5, <1>13, <2>2, LineOf DEF IInv, TypeOK
    <3>2. ch \o <<c, m>> = Append(Append(ch, c), m) /\ ch \o <<c, m>> # ch
      OBVIOUS
    <3> QED BY <3>1, <3>2
  <2>3. CASE ProcOf[w] = p /\ ~ sync
    <3>1. channel'[ProcOf[w]] = ch \o <<m>>
      BY <1>5, <1>13, <2>3, LineOf DEF IInv, TypeOK
    <3>2. ch \o <<m>> = Append(ch, m) /\ ch \o <<m>> # ch
      OBVIOUS
    <3> QED BY <3>1, <3>2
  <2> QED BY <2>1, <2>2, <2>3
<1>21. ~ EventOf(w, c) /\ (EventOf(w, m) => w = v /\ m.event.n = k)
  BY <1>3, <1>4, <1>14
<1>26. k < n
  BY <1>25
<1>22. /\ InLine(w, mq, cq, Append(ch, m), n, h, routed)
       /\ InLine(w, mq, cq, Append(Append(ch, c), m), n, h, routed)
       /\ InLine(w, mq, cq, ch, n, h, routed) /\ Recalled(n, h)
  BY <1>17, <1>21, <1>26, IssueInLine, SMTT(60)
<1> QED BY <1>19, <1>20, <1>22
\* The end of a renderer empties its queues and forgets its routes.
LEMMA ExitLine ==
  ASSUME BarrierAssumption, IInv, EventsInLine, NEW p \in Procs, RendererExited(p)
  PROVE  EventsInLine'
<1>1. /\ channel' = [channel EXCEPT ![p] = <<>>]
      /\ compositor_q' = [compositor_q EXCEPT ![p] = <<>>]
      /\ main_q' = [main_q EXCEPT ![p] = <<>>]
      /\ routes' = {w \in routes : ProcOf[w] # p}
      /\ UNCHANGED <<issued, taken>>
  BY DEF RendererExited, historyVars
<1> SUFFICES ASSUME NEW w \in Widgets
             PROVE  /\ Recalled(issued', taken'[w])
                    /\ InLine(w, main_q'[ProcOf[w]], compositor_q'[ProcOf[w]],
                              channel'[ProcOf[w]], issued', taken'[w], w \in routes')
  BY DEF EventsInLine, InLine, Queued, Sorted, Before, Below, After, None, Recalled, EventOf
<1>2. CASE ProcOf[w] = p
  <2>1. /\ main_q'[ProcOf[w]] = <<>> /\ compositor_q'[ProcOf[w]] = <<>>
        /\ channel'[ProcOf[w]] = <<>>
    BY <1>1, <1>2 DEF IInv, TypeOK
  <2>2. InLine(w, <<>>, <<>>, <<>>, issued, taken[w], w \in routes')
    BY DEF InLine, Queued, Sorted, Before, Below, After, None
  <2> QED BY <1>1, <2>1, <2>2, LineOf
<1>3. CASE ProcOf[w] # p
  <2>1. /\ main_q'[ProcOf[w]] = main_q[ProcOf[w]] /\ channel'[ProcOf[w]] = channel[ProcOf[w]]
        /\ compositor_q'[ProcOf[w]] = compositor_q[ProcOf[w]]
        /\ (w \in routes' <=> w \in routes)
    BY <1>1, <1>3, LineOf DEF IInv, TypeOK
  <2> QED BY <1>1, <2>1, LineOf DEF InLine
<1> QED BY <1>2, <1>3

\* Steps that leave the queues, the routes and the history alone.
LEMMA QuietLine ==
  ASSUME EventsInLine, UNCHANGED <<issued, routes, taken, main_q, compositor_q, channel>>
  PROVE  EventsInLine'
<1> SUFFICES ASSUME NEW w \in Widgets
             PROVE  /\ Recalled(issued', taken'[w])
                    /\ InLine(w, main_q'[ProcOf[w]], compositor_q'[ProcOf[w]],
                              channel'[ProcOf[w]], issued', taken'[w], w \in routes')
  BY DEF EventsInLine, InLine, Queued, Sorted, Before, Below, After, None, Recalled, EventOf
<1> QED BY DEF EventsInLine

LEMMA LineInit ==
  ASSUME BarrierAssumption, Init PROVE LineWhileRoutesStable
<1>1. \A w, r : InLine(w, <<>>, <<>>, <<>>, 0, <<>>, r) /\ Recalled(0, <<>>)
  BY DEF InLine, Queued, Sorted, Before, Below, After, None, Recalled
<1>2. ASSUME NEW w \in Widgets
      PROVE  /\ main_q[ProcOf[w]] = <<>> /\ compositor_q[ProcOf[w]] = <<>>
             /\ channel[ProcOf[w]] = <<>> /\ taken[w] = <<>> /\ issued = 0
  BY DEF Init, BarrierAssumption
<1> QED BY <1>1, <1>2 DEF LineWhileRoutesStable, EventsInLine

\* A change of routes is counted, and ends the claim; no other step touches
\* the count.
LEMMA LineStep ==
  ASSUME BarrierAssumption, IInv, LineWhileRoutesStable, [Next]_vars
  PROVE  LineWhileRoutesStable'
<1> SUFFICES ASSUME route_changes' = 0 PROVE EventsInLine'
  BY DEF LineWhileRoutesStable
<1>1. CASE UNCHANGED vars
  BY <1>1, QuietLine DEF vars, LineWhileRoutesStable
<1>2. ASSUME NEW w \in Widgets, NEW d \in Decisions, NEW sync \in BOOLEAN,
             HandleInputEvent(w, d, sync)
      PROVE  EventsInLine'
  <2>1. EventsInLine
    BY <1>2 DEF HandleInputEvent, boundVars, LineWhileRoutesStable
  <2> QED BY <1>2, <2>1, IssueLine
<1>3. ASSUME NEW t \in requests, SendScreenshotAck(t) \/ ScreenshotCaptured(t)
      PROVE  EventsInLine'
  <2>1. /\ EventsInLine /\ SendTo(Host(t), <<Captured(t)>>)
        /\ UNCHANGED <<issued, routes, taken, main_q, compositor_q>>
    BY <1>3 DEF SendScreenshotAck, ScreenshotCaptured, browserVars, historyVars, boundVars,
                LineWhileRoutesStable
  <2>2. /\ Host(t) \in Procs /\ Captured(t) \in Messages
        /\ Captured(t).type # "HandleInputEvent"
    BY DEF IInv, TypeOK, Host, Tickets, BarrierAssumption, Captured, Messages
  <2> QED BY <2>1, <2>2, AnswerLine
<1>4. ASSUME NEW p \in Procs, RendererExited(p)
      PROVE  EventsInLine'
  <2>1. EventsInLine
    BY <1>4 DEF RendererExited, LineWhileRoutesStable
  <2> QED BY <1>4, <2>1, ExitLine
<1>5. ASSUME NEW p \in Procs, Relaunch(p)
      PROVE  EventsInLine'
  BY <1>5, QuietLine DEF Relaunch, browserVars, rendererVars, historyVars, boundVars,
                         LineWhileRoutesStable
<1>6. ASSUME NEW p \in Procs, OnMessageReceived(p)
      PROVE  EventsInLine'
  <2>1. EventsInLine
    BY <1>6 DEF OnMessageReceived, boundVars, LineWhileRoutesStable
  <2> QED BY <1>6, <2>1, ReceiveLine
<1>7. ASSUME NEW p \in Procs, ForwardToHandler(p)
      PROVE  EventsInLine'
  <2>1. EventsInLine
    BY <1>7 DEF ForwardToHandler, boundVars, LineWhileRoutesStable
  <2> QED BY <1>7, <2>1, ForwardLine
<1>8. ASSUME NEW p \in Procs, OnHandleInputEvent(p)
      PROVE  EventsInLine'
  <2>1. EventsInLine
    BY <1>8 DEF OnHandleInputEvent, boundVars, LineWhileRoutesStable
  <2> QED BY <1>8, <2>1, HandleLine
<1>9. ASSUME NEW w \in Widgets, DidAddInputHandler(w) \/ DidRemoveInputHandler(w)
      PROVE  EventsInLine'
  BY <1>9 DEF DidAddInputHandler, DidRemoveInputHandler, IInv, TypeOK
<1> QED BY <1>1, <1>2, <1>3, <1>4, <1>5, <1>6, <1>7, <1>8, <1>9 DEF Next

\* With any number of widgets in a process, with crashes, late screenshots and
\* wheel events that the compositor thread keeps for itself: while no input
\* handler comes or goes (InputEventFilter::DidAddInputHandler,
\* DidRemoveInputHandler) the main thread handles a widget's events in order.
THEOREM InOrder == Spec => []InOrderWhileRoutesStable
<1>1. Init => IInv /\ LineWhileRoutesStable
  BY InitInv, LineInit, BarrierAssumption
<1>2. IInv /\ LineWhileRoutesStable /\ [Next]_vars => (IInv /\ LineWhileRoutesStable)'
  BY IInvStep, LineStep, BarrierAssumption
<1>3. LineWhileRoutesStable => InOrderWhileRoutesStable
  BY DEF LineWhileRoutesStable, EventsInLine, Recalled, InOrderWhileRoutesStable
<1> QED BY <1>1, <1>2, <1>3, PTL DEF Spec

=============================================================================
