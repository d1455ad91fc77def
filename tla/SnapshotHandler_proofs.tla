----------------------- MODULE SnapshotHandler_proofs -----------------------
(***************************************************************************)
(* Proofs about SnapshotHandler, for any keys, URLs, switches and bounds:  *)
(* the types, and that ids tie screenshots, buffer and messages together.  *)
(***************************************************************************)
EXTENDS SnapshotHandler, TLAPS

\* Ids in a buffer are different and below the next one.
BufferSound(b, next) ==
  \A i \in DOMAIN b :
    /\ b[i].snapshot_id < next
    /\ \A j \in DOMAIN b : b[i].snapshot_id = b[j].snapshot_id => i = j

\* An open request has an entry that was not answered, and an id of its own.
RequestsSound(requests, b) ==
  \A req \in requests :
    /\ \E i \in DOMAIN b : /\ b[i].snapshot_id = req.id
                           /\ b[i].event = req.event
                           /\ ~ b[i].screenshot_received
    /\ \A other \in requests : other.id = req.id => other = req

Requests == [id : Nat, event : Nat]

IInv ==
  /\ TypeOK
  /\ BufferSound(input_event_buffer, next_snapshot_id)
  /\ RequestsSound(pending, input_event_buffer)

-----------------------------------------------------------------------------
(* The buffer.                                                             *)

LEMMA FunctionIsSeq ==
  ASSUME NEW S, NEW n \in Nat, NEW f \in [1 .. n -> S]
  PROVE  f \in Seq(S) /\ DOMAIN f = 1 .. n
  OBVIOUS

\* Appending an argument keeps what was there and puts it last.
LEMMA AppendElement ==
  ASSUME NEW S, NEW q \in Seq(S), NEW e \in S
  PROVE  /\ Append(q, e) \in Seq(S)
         /\ DOMAIN Append(q, e) = DOMAIN q \cup {Len(q) + 1}
         /\ Len(q) + 1 \notin DOMAIN q
         /\ Append(q, e)[Len(q) + 1] = e
         /\ \A i \in DOMAIN q : Append(q, e)[i] = q[i]
  OBVIOUS

\* Marking touches entries of the given id alone and no id or event.
LEMMA MarkProperties ==
  ASSUME NEW b \in Seq(ArgType), NEW id
  PROVE  /\ MarkReceived(b, id) \in Seq(ArgType)
         /\ DOMAIN MarkReceived(b, id) = DOMAIN b
         /\ \A i \in DOMAIN b :
              /\ MarkReceived(b, id)[i].snapshot_id = b[i].snapshot_id
              /\ MarkReceived(b, id)[i].event = b[i].event
              /\ b[i].snapshot_id # id => MarkReceived(b, id)[i] = b[i]
<1> DEFINE found == FindInputEvent(b, id)
           mark(a) == [a EXCEPT !.screenshot_received = TRUE]
           f == [i \in DOMAIN b |-> IF i \in found THEN mark(b[i]) ELSE b[i]]
<1>1. f = MarkReceived(b, id)
  BY DEF MarkReceived
<1>2. \A a \in ArgType : /\ mark(a) \in ArgType
                         /\ mark(a).snapshot_id = a.snapshot_id
                         /\ mark(a).event = a.event
  BY DEF ArgType
<1>3. \A i \in DOMAIN b : b[i] \in ArgType /\ (i \in found => b[i].snapshot_id = id)
  BY DEF FindInputEvent
<1>4. Len(b) \in Nat /\ DOMAIN b = 1 .. Len(b)
  OBVIOUS
<1> HIDE DEF found, mark
<1>5. f \in [1 .. Len(b) -> ArgType]
  BY <1>2, <1>3, <1>4
<1>6. f \in Seq(ArgType) /\ DOMAIN f = DOMAIN b
  BY <1>4, <1>5, FunctionIsSeq
<1>7. \A i \in DOMAIN b : f[i] = IF i \in found THEN mark(b[i]) ELSE b[i]
  OBVIOUS
<1> HIDE DEF f
<1>8. \A i \in DOMAIN b : /\ f[i].snapshot_id = b[i].snapshot_id
                          /\ f[i].event = b[i].event
                          /\ b[i].snapshot_id # id => f[i] = b[i]
  <2> SUFFICES ASSUME NEW i \in DOMAIN b
               PROVE  /\ f[i].snapshot_id = b[i].snapshot_id
                      /\ f[i].event = b[i].event
                      /\ b[i].snapshot_id # id => f[i] = b[i]
    OBVIOUS
  <2>1. CASE i \in found
    BY <1>2, <1>3, <1>7, <2>1
  <2>2. CASE i \notin found
    BY <1>7, <2>2
  <2> QED BY <2>1, <2>2
<1> QED BY <1>1, <1>6, <1>8

\* An entry with the next id joins; the requests keep their entries.
LEMMA BufferGrows ==
  ASSUME NEW b \in Seq(ArgType), NEW next \in Nat, BufferSound(b, next),
         NEW arg \in ArgType, arg.snapshot_id = next
  PROVE  BufferSound(Append(b, arg), next + 1)
<1>1. \A i \in DOMAIN b : b[i].snapshot_id \in Nat /\ b[i].snapshot_id < next
  <2>1. \A i \in DOMAIN b : b[i] \in ArgType
    OBVIOUS
  <2>2. \A a \in ArgType : a.snapshot_id \in Nat
    BY DEF ArgType
  <2> QED BY <2>1, <2>2 DEF BufferSound
<1> DEFINE c == Append(b, arg)
<1>2. /\ DOMAIN c = DOMAIN b \cup {Len(b) + 1} /\ c[Len(b) + 1] = arg
      /\ \A i \in DOMAIN b : c[i] = b[i]
  BY AppendElement
<1> HIDE DEF c
<1>3. \A i \in DOMAIN c : /\ c[i].snapshot_id \in Nat
                          /\ i \in DOMAIN b => c[i].snapshot_id < next
                          /\ i \notin DOMAIN b => i = Len(b) + 1 /\ c[i].snapshot_id = next
  BY <1>1, <1>2
<1>4. \A i, j \in DOMAIN c : c[i].snapshot_id = c[j].snapshot_id => i = j
  BY <1>2, <1>3 DEF BufferSound
<1>5. \A i \in DOMAIN c : c[i].snapshot_id < next + 1
  BY <1>3
<1>6. BufferSound(c, next + 1)
  BY <1>4, <1>5 DEF BufferSound
<1> QED BY <1>6 DEF c

LEMMA RequestsKept ==
  ASSUME NEW b \in Seq(ArgType), NEW P \in SUBSET Requests, RequestsSound(P, b),
         NEW arg \in ArgType
  PROVE  RequestsSound(P, Append(b, arg))
  BY AppendElement DEF RequestsSound

\* A request for the new entry joins.
LEMMA RequestJoins ==
  ASSUME NEW b \in Seq(ArgType), NEW next \in Nat, BufferSound(b, next),
         NEW P \in SUBSET Requests, RequestsSound(P, b),
         NEW arg \in ArgType, arg.snapshot_id = next, ~ arg.screenshot_received
  PROVE  RequestsSound(P \cup {[id |-> next, event |-> arg.event]}, Append(b, arg))
<1> DEFINE new == [id |-> next, event |-> arg.event]
           c   == Append(b, arg)
<1>1. new.id = next /\ new.event = arg.event
  OBVIOUS
<1>2. \A req \in P : req.id # next
  BY DEF RequestsSound, BufferSound
<1>3. RequestsSound(P, c)
  BY RequestsKept
<1>4. Len(b) + 1 \in DOMAIN c /\ c[Len(b) + 1] = arg
  BY AppendElement
<1> HIDE DEF new, c
<1>5. RequestsSound(P \cup {new}, c)
  BY <1>1, <1>2, <1>3, <1>4 DEF RequestsSound
<1> QED BY <1>5 DEF new, c

\* Marking an entry disturbs neither the ids nor the requests of other ids.
LEMMA BufferMarked ==
  ASSUME NEW b \in Seq(ArgType), NEW next, BufferSound(b, next), NEW id
  PROVE  BufferSound(MarkReceived(b, id), next)
  BY MarkProperties DEF BufferSound

LEMMA RequestsMarked ==
  ASSUME NEW b \in Seq(ArgType), NEW P \in SUBSET Requests, RequestsSound(P, b),
         NEW id, \A req \in P : req.id # id
  PROVE  RequestsSound(P, MarkReceived(b, id))
<1> DEFINE c == MarkReceived(b, id)
<1>1. /\ DOMAIN c = DOMAIN b
      /\ \A i \in DOMAIN b : b[i].snapshot_id # id => c[i] = b[i]
  BY MarkProperties
<1> HIDE DEF c
<1>2. RequestsSound(P, c)
  BY <1>1 DEF RequestsSound
<1> QED BY <1>2 DEF c

-----------------------------------------------------------------------------
(* Types.                                                                  *)

LEMMA InitInv ==
  ASSUME HandlerAssumption, Init
  PROVE  IInv
<1>1. take_random_snapshot \in BOOLEAN
  BY DEF Init
<1>2. flags \in SwitchSet
  BY DEF Init, HandlerAssumption
<1>3. <<>> \in Seq(ArgType) /\ <<>> \in Seq(CapturedMsgs \cup InputMsgs)
  OBVIOUS
<1>4. TypeOK
  BY <1>1, <1>2, <1>3 DEF Init, TypeOK, PlainKeys, Unset
<1>5. /\ BufferSound(input_event_buffer, next_snapshot_id)
      /\ RequestsSound(pending, input_event_buffer)
  BY DEF Init, BufferSound, RequestsSound
<1> QED BY <1>4, <1>5 DEF IInv

\* What UpdateLastInputs, UpdatePage and the coin assign has its type.
LEMMA MemoryTypes ==
  ASSUME TypeOK, HandlerAssumption,
         NEW type \in Types, NEW key \in PlainKeys, NEW found \in BOOLEAN,
         NEW coin \in BOOLEAN, NEW worthy \in BOOLEAN, NEW changed \in BOOLEAN,
         NEW wc \in {-1, 1},
         take_random_snapshot' = RandomizeSnapshot(changed, coin),
         UpdateLastInputs(type, key, changed),
         UpdatePage(worthy, wc, changed)
  PROVE  /\ take_random_snapshot' \in BOOLEAN
         /\ last_key_press' \in PlainKeys
         /\ last_key_press_time' \in Nat \cup {Unset}
         /\ last_mouse_move_time' \in Nat \cup {Unset}
         /\ web_contents' \in {-1, 0, 1}
         /\ url_id' \in Int
         /\ last_url' \in Urls \cup {Unset}
<1>1. take_random_snapshot' \in BOOLEAN
  BY DEF TypeOK, RandomizeSnapshot
<1>2. /\ last_key_press' \in PlainKeys
      /\ last_key_press_time' \in Nat \cup {Unset}
      /\ last_mouse_move_time' \in Nat \cup {Unset}
  BY DEF TypeOK, UpdateLastInputs, PlainKeys
<1>3. /\ web_contents' \in {-1, 0, 1} /\ url_id' \in Int
      /\ last_url' \in Urls \cup {Unset}
  BY DEF TypeOK, UpdatePage
<1> QED BY <1>1, <1>2, <1>3

\* The message a handler sends has its type.
LEMMA MessageType ==
  ASSUME TypeOK, url_id' \in Int,
         NEW type \in Types, NEW key \in PlainKeys, NEW worthy \in BOOLEAN,
         NEW shot \in BOOLEAN, NEW dom \in BOOLEAN, NEW wc \in {-1, 1}
  PROVE  InputMsg(next_snapshot_id, type, key, worthy, shot, dom, wc) \in InputMsgs
  BY DEF TypeOK, InputMsg, InputMsgs, MessageId

LEMMA ArgIsTyped ==
  ASSUME NEW id \in Nat, NEW n \in Nat, NEW shot \in BOOLEAN, NEW dom \in BOOLEAN
  PROVE  InputEventArg(id, n, shot, dom) \in ArgType
  BY DEF InputEventArg, ArgType

-----------------------------------------------------------------------------
(* The steps of the handler.                                               *)

\* Deliver keeps the buffer, the requests and the messages sound.
LEMMA DeliverStep ==
  ASSUME IInv, url_id' \in Int, NEW n \in Nat,
         NEW type \in Types, NEW key \in PlainKeys, NEW worthy \in BOOLEAN,
         NEW shot \in BOOLEAN, NEW dom \in BOOLEAN, NEW wc \in {-1, 1},
         NEW sync \in BOOLEAN,
         Deliver(n, type, key, worthy, shot, dom, wc, sync)
  PROVE  /\ next_snapshot_id' \in Nat \ {0}
         /\ input_event_buffer' \in Seq(ArgType)
         /\ pending' \subseteq Requests
         /\ out' \in Seq(CapturedMsgs \cup InputMsgs)
         /\ BufferSound(input_event_buffer', next_snapshot_id')
         /\ RequestsSound(pending', input_event_buffer')
<1> DEFINE id     == next_snapshot_id
           buffer == input_event_buffer
           arg    == InputEventArg(id, n, shot, dom)
           msg    == InputMsg(id, type, key, worthy, shot, dom, wc)
           longer == Append(buffer, arg)
           new    == [id |-> id, event |-> arg.event]
           S      == CapturedMsgs \cup InputMsgs
<1>1. /\ id \in Nat \ {0} /\ buffer \in Seq(ArgType)
      /\ out \in Seq(S) /\ pending \in SUBSET Requests
      /\ BufferSound(buffer, id) /\ RequestsSound(pending, buffer)
  BY DEF IInv, TypeOK, Requests
<1>2. /\ arg \in ArgType /\ arg.snapshot_id = id /\ arg.event = n
      /\ ~ arg.screenshot_received
  BY <1>1, ArgIsTyped DEF InputEventArg
<1>3. msg \in S /\ CapturedMsg(id) \in S
  BY <1>1, MessageType DEF IInv, CapturedMsg, CapturedMsgs
<1>4. new \in Requests
  BY <1>1, <1>2 DEF Requests
<1>5. \A req \in pending : req.id # id
  BY <1>1 DEF BufferSound, RequestsSound
<1>6. /\ next_snapshot_id' = (IF shot \/ dom THEN id + 1 ELSE id)
      /\ input_event_buffer' =
           IF shot /\ sync THEN MarkReceived(IF shot \/ dom THEN longer ELSE buffer, id)
           ELSE IF shot \/ dom THEN longer ELSE buffer
      /\ pending' = IF shot /\ ~ sync THEN pending \cup {new} ELSE pending
      /\ out' = IF shot /\ sync THEN out \o <<CapturedMsg(id), msg>>
                ELSE Append(out, msg)
  BY <1>2 DEF Deliver, NextId
<1> HIDE DEF id, buffer, arg, msg, new, S
<1>7. /\ longer \in Seq(ArgType) /\ BufferSound(longer, id + 1)
      /\ RequestsSound(pending, longer)
  BY <1>1, <1>2, AppendElement, BufferGrows, RequestsKept
<1>8. RequestsSound(pending \cup {new}, longer)
  BY <1>1, <1>2, RequestJoins DEF new
<1> HIDE DEF longer
<1>9. out' \in Seq(S)
  <2> DEFINE m == CapturedMsg(id)
  <2>1. m \in S
    BY <1>3
  <2> HIDE DEF m
  <2>2. out \o <<m, msg>> \in Seq(S) /\ Append(out, msg) \in Seq(S)
    BY <1>1, <1>3, <2>1
  <2> QED BY <1>6, <2>2 DEF m
<1>10. CASE ~ (shot \/ dom)
  <2>1. next_snapshot_id' = id /\ input_event_buffer' = buffer /\ pending' = pending
    BY <1>6, <1>10
  <2> QED BY <1>1, <1>9, <2>1 DEF S
<1>11. CASE shot /\ ~ sync
  <2>1. /\ next_snapshot_id' = id + 1 /\ input_event_buffer' = longer
        /\ pending' = pending \cup {new}
    BY <1>6, <1>11
  <2> QED BY <1>1, <1>4, <1>7, <1>8, <1>9, <2>1 DEF S
<1>12. CASE dom /\ ~ shot
  <2>1. next_snapshot_id' = id + 1 /\ input_event_buffer' = longer /\ pending' = pending
    BY <1>6, <1>12
  <2> QED BY <1>1, <1>7, <1>9, <2>1 DEF S
<1>13. CASE shot /\ sync
  <2> DEFINE marked == MarkReceived(longer, id)
  <2>1. /\ next_snapshot_id' = id + 1 /\ input_event_buffer' = marked
        /\ pending' = pending
    BY <1>6, <1>13
  <2>2. /\ marked \in Seq(ArgType) /\ BufferSound(marked, id + 1)
        /\ RequestsSound(pending, marked)
    BY <1>1, <1>5, <1>7, MarkProperties, BufferMarked, RequestsMarked
  <2> HIDE DEF marked
  <2> QED BY <1>1, <1>9, <2>1, <2>2 DEF S
<1> QED BY <1>10, <1>11, <1>12, <1>13

\* Values of the coin, the view and the decisions about one event.
LEMMA DecisionTypes ==
  ASSUME TypeOK, NEW type, NEW key, NEW found \in BOOLEAN, NEW worthy \in BOOLEAN,
         NEW take, NEW mode
  PROVE  /\ LookUpView(found) \in {-1, 1}
         /\ SnapshotWorthy(type, key) \in BOOLEAN
         /\ PageChanged(worthy, LookUpView(found)) \in BOOLEAN
         /\ (worthy /\ take /\ Wanted(mode, type, key)) \in BOOLEAN
<1>1. LookUpView(found) \in {-1, 1}
  BY DEF TypeOK, LookUpView
<1>2. SnapshotWorthy(type, key) \in BOOLEAN
  BY DEF SnapshotWorthy
<1>3. PageChanged(worthy, LookUpView(found)) \in BOOLEAN
  BY DEF PageChanged
<1> QED BY <1>1, <1>2, <1>3

LEMMA HandleInputEventStep ==
  ASSUME HandlerAssumption, IInv,
         NEW type \in Types, NEW key \in PlainKeys, NEW found \in BOOLEAN,
         NEW coin \in BOOLEAN, NEW sync \in BOOLEAN,
         HandleInputEvent(type, key, found, coin, sync)
  PROVE  IInv'
<1> DEFINE n       == Len(out) + 1
           wc      == LookUpView(found)
           worthy  == SnapshotWorthy(type, key)
           changed == PageChanged(worthy, wc)
           take    == RandomizeSnapshot(changed, coin)
           shot    == worthy /\ take /\ Wanted(flags.shot, type, key)
           dom     == worthy /\ take /\ Wanted(flags.dom, type, key) /\ wc = 1
<1>1. /\ take_random_snapshot' = take
      /\ UpdateLastInputs(type, key, changed)
      /\ UpdatePage(worthy, wc, changed)
      /\ Deliver(n, type, key, worthy, shot, dom, wc, sync)
      /\ UNCHANGED <<switchVars, envVars>>
  BY DEF HandleInputEvent
<1>2. TypeOK /\ n \in Nat
  BY DEF IInv, TypeOK
<1>3. /\ wc \in {-1, 1} /\ worthy \in BOOLEAN /\ changed \in BOOLEAN
      /\ shot \in BOOLEAN /\ dom \in BOOLEAN
  BY <1>2, DecisionTypes
<1> HIDE DEF n, wc, worthy, changed, shot, dom
<1>4. /\ take_random_snapshot' \in BOOLEAN
      /\ last_key_press' \in PlainKeys
      /\ last_key_press_time' \in Nat \cup {Unset}
      /\ last_mouse_move_time' \in Nat \cup {Unset}
      /\ web_contents' \in {-1, 0, 1}
      /\ url_id' \in Int
      /\ last_url' \in Urls \cup {Unset}
  BY <1>1, <1>2, <1>3, MemoryTypes
<1>5. /\ next_snapshot_id' \in Nat \ {0}
      /\ input_event_buffer' \in Seq(ArgType)
      /\ pending' \subseteq Requests
      /\ out' \in Seq(CapturedMsgs \cup InputMsgs)
      /\ BufferSound(input_event_buffer', next_snapshot_id')
      /\ RequestsSound(pending', input_event_buffer')
  BY <1>1, <1>2, <1>3, <1>4, DeliverStep, SMTT(30)
<1>6. TypeOK'
  BY <1>1, <1>2, <1>4, <1>5 DEF TypeOK, Requests, switchVars, envVars
<1> QED BY <1>5, <1>6 DEF IInv

LEMMA ScreenshotCapturedStep ==
  ASSUME IInv, NEW req \in pending, ScreenshotCaptured(req)
  PROVE  IInv'
<1> DEFINE b == input_event_buffer
           m == CapturedMsg(req.id)
           P == pending \ {req}
           S == CapturedMsgs \cup InputMsgs
<1>1. /\ b \in Seq(ArgType) /\ pending \in SUBSET Requests /\ out \in Seq(S)
      /\ BufferSound(b, next_snapshot_id) /\ RequestsSound(pending, b)
  BY DEF IInv, TypeOK, Requests
<1>2. m \in S
  BY <1>1 DEF CapturedMsg, CapturedMsgs, Requests
<1>3. P \in SUBSET Requests /\ RequestsSound(P, b) /\ \A r \in P : r.id # req.id
  BY <1>1 DEF RequestsSound
<1>4. /\ pending' = P /\ input_event_buffer' = MarkReceived(b, req.id)
      /\ out' = Append(out, m)
      /\ UNCHANGED <<next_snapshot_id, switchVars, keyVars, pageVars, envVars>>
  BY DEF ScreenshotCaptured
<1> HIDE DEF b, m, P
<1>5. /\ input_event_buffer' \in Seq(ArgType)
      /\ BufferSound(input_event_buffer', next_snapshot_id)
      /\ RequestsSound(pending', input_event_buffer')
  BY <1>1, <1>3, <1>4, MarkProperties, BufferMarked, RequestsMarked
<1>6. out' \in Seq(S)
  BY <1>1, <1>2, <1>4
<1>7. TypeOK'
  BY <1>3, <1>4, <1>5, <1>6
     DEF IInv, TypeOK, Requests, switchVars, keyVars, pageVars, envVars
<1> QED BY <1>4, <1>5, <1>7 DEF IInv

LEMMA NextInv ==
  ASSUME HandlerAssumption, IInv, [Next]_vars
  PROVE  IInv'
<1>1. CASE SomeInput
  <2>1. PICK type \in Types :
          \E key \in (IF type \in KeyTypes THEN Keys ELSE {Unset}),
             found, coin, sync \in BOOLEAN :
            HandleInputEvent(type, key, found, coin, sync)
    BY <1>1 DEF SomeInput
  <2>2. PICK key \in (IF type \in KeyTypes THEN Keys ELSE {Unset}),
             found, coin, sync \in BOOLEAN :
            HandleInputEvent(type, key, found, coin, sync)
    BY <2>1
  <2>3. key \in PlainKeys
    BY DEF PlainKeys
  <2> QED BY <2>2, <2>3, HandleInputEventStep
<1>2. CASE \E req \in pending : ScreenshotCaptured(req)
  BY <1>2, ScreenshotCapturedStep
<1>3. CASE Tick
  BY <1>3 DEF Tick, IInv, TypeOK, switchVars, keyVars, pageVars
<1>4. CASE Navigate
  BY <1>4 DEF Navigate, IInv, TypeOK, switchVars, keyVars, pageVars
<1>5. CASE UNCHANGED vars
  BY <1>5 DEF vars, IInv, TypeOK
<1> QED BY <1>1, <1>2, <1>3, <1>4, <1>5 DEF Next

LEMMA AlwaysInv == Spec => []IInv
<1>1. Init => IInv
  BY InitInv, HandlerAssumption
<1>2. IInv /\ [Next]_vars => IInv'
  BY NextInv, HandlerAssumption
<1> QED BY <1>1, <1>2, PTL DEF Spec

-----------------------------------------------------------------------------
(* What follows.                                                           *)

\* The types hold in every behaviour of the handler.
THEOREM TypeCorrect == Spec => []TypeOK
<1>1. IInv => TypeOK
  BY DEF IInv
<1> QED BY <1>1, AlwaysInv, PTL

\* The entry of an id is where FindInputEvent finds it.
LEMMA EntryIsFound ==
  ASSUME NEW b \in Seq(ArgType), NEW next, BufferSound(b, next), NEW i \in DOMAIN b
  PROVE  i \in FindInputEvent(b, b[i].snapshot_id)
<1>1. \A j \in 1 .. i - 1 : b[j].snapshot_id # b[i].snapshot_id
  <2> SUFFICES ASSUME NEW j \in 1 .. i - 1
               PROVE  b[j].snapshot_id # b[i].snapshot_id
    OBVIOUS
  <2>1. j \in DOMAIN b /\ j # i
    OBVIOUS
  <2> QED BY <2>1 DEF BufferSound
<1> QED BY <1>1 DEF FindInputEvent

\* Whenever the screenshot callback may run (snapshot_handler.cc, the
\* callback's lambda dereferences FindInputEvent's result), the entry with its
\* id is there, is that of its event, and has not been answered before.
THEOREM CallbackIsSafe == Spec => []CallbackFindsItsEvent
<1>1. IInv => CallbackFindsItsEvent
  <2> SUFFICES ASSUME IInv, NEW req \in pending
               PROVE  \E i \in FindInputEvent(input_event_buffer, req.id) :
                        /\ input_event_buffer[i].event = req.event
                        /\ ~ input_event_buffer[i].screenshot_received
    BY DEF CallbackFindsItsEvent
  <2>1. PICK i \in DOMAIN input_event_buffer :
          /\ input_event_buffer[i].snapshot_id = req.id
          /\ input_event_buffer[i].event = req.event
          /\ ~ input_event_buffer[i].screenshot_received
    BY DEF IInv, RequestsSound
  <2>2. i \in FindInputEvent(input_event_buffer, req.id)
    BY <2>1, EntryIsFound DEF IInv, TypeOK
  <2> QED BY <2>1, <2>2
<1> QED BY <1>1, AlwaysInv, PTL

\* A message that makes the renderer wait can be answered, told of any
\* message sequence and any set of requests.
Answerable(msgs, requests) ==
  \A k \in DOMAIN msgs :
    msgs[k].kind = "HandleInputEvent" /\ msgs[k].shot =>
      \/ \E j \in DOMAIN msgs : msgs[j] = CapturedMsg(msgs[k].id)
      \/ \E req \in requests : req.id = msgs[k].id

\* More messages and requests: what could be answered still can.
LEMMA AnswerableGrows ==
  ASSUME NEW S, NEW msgs \in Seq(S), NEW P, NEW Q, P \subseteq Q,
         Answerable(msgs, P), NEW m \in S,
         m.kind = "HandleInputEvent" /\ m.shot =>
           \/ \E j \in DOMAIN msgs : msgs[j] = CapturedMsg(m.id)
           \/ \E req \in Q : req.id = m.id
  PROVE  Answerable(Append(msgs, m), Q)
<1> DEFINE c == Append(msgs, m)
<1>1. /\ DOMAIN c = DOMAIN msgs \cup {Len(msgs) + 1} /\ c[Len(msgs) + 1] = m
      /\ \A i \in DOMAIN msgs : c[i] = msgs[i]
  BY AppendElement
<1> HIDE DEF c
<1>2. Answerable(c, Q)
  BY <1>1 DEF Answerable
<1> QED BY <1>2 DEF c

\* The answer itself is sent: its request need not be open any more.
LEMMA AnswerSent ==
  ASSUME NEW S, NEW msgs \in Seq(S), NEW P, Answerable(msgs, P), NEW id,
         CapturedMsg(id) \in S
  PROVE  Answerable(Append(msgs, CapturedMsg(id)), {req \in P : req.id # id})
<1> DEFINE m == CapturedMsg(id)
           c == Append(msgs, m)
<1>1. m.kind # "HandleInputEvent"
  BY DEF CapturedMsg
<1>2. m \in S
  OBVIOUS
<1>3. m = CapturedMsg(id)
  OBVIOUS
<1> HIDE DEF m
<1>4. /\ DOMAIN c = DOMAIN msgs \cup {Len(msgs) + 1} /\ c[Len(msgs) + 1] = m
      /\ \A i \in DOMAIN msgs : c[i] = msgs[i]
  BY <1>2, AppendElement
<1> HIDE DEF c
<1>5. Answerable(c, {req \in P : req.id # id})
  BY <1>1, <1>3, <1>4 DEF Answerable
<1> QED BY <1>5 DEF c, m

LEMMA DeliverAnswerable ==
  ASSUME IInv, Answerable(out, pending), url_id' \in Int, NEW n \in Nat,
         NEW type \in Types, NEW key \in PlainKeys, NEW worthy \in BOOLEAN,
         NEW shot \in BOOLEAN, NEW dom \in BOOLEAN, NEW wc \in {-1, 1},
         NEW sync \in BOOLEAN,
         Deliver(n, type, key, worthy, shot, dom, wc, sync)
  PROVE  Answerable(out', pending')
<1> DEFINE id  == next_snapshot_id
           msg == InputMsg(id, type, key, worthy, shot, dom, wc)
           cap == CapturedMsg(id)
           S   == CapturedMsgs \cup InputMsgs
<1>1. out \in Seq(S) /\ id \in Nat
  BY DEF IInv, TypeOK
<1>2. msg \in S /\ cap \in S /\ msg.id = id /\ (msg.shot <=> shot)
  BY <1>1, MessageType, ZenonT(30) DEF IInv, CapturedMsg, CapturedMsgs, InputMsg, MessageId
<1>3. cap.kind # "HandleInputEvent"
  BY DEF CapturedMsg
<1>4. cap = CapturedMsg(id)
  OBVIOUS
<1>5. /\ pending' = (IF shot /\ ~ sync THEN pending \cup {[id |-> id, event |-> n]}
                     ELSE pending)
      /\ out' = IF shot /\ sync THEN out \o <<cap, msg>> ELSE Append(out, msg)
  BY DEF Deliver
<1> HIDE DEF id, msg, cap, S
<1>6. CASE shot /\ sync
  <2> DEFINE longer == Append(out, cap)
  <2>1. Answerable(longer, pending) /\ longer \in Seq(S)
    BY <1>1, <1>2, <1>3, AnswerableGrows, AppendElement, ZenonT(30)
  <2>2. Len(out) + 1 \in DOMAIN longer /\ longer[Len(out) + 1] = cap
    BY <1>1, <1>2, AppendElement
  <2>3. out \o <<cap, msg>> = Append(longer, msg)
    BY <1>1, <1>2
  <2> HIDE DEF longer
  <2>4. \E j \in DOMAIN longer : longer[j] = CapturedMsg(msg.id)
    BY <1>2, <1>4, <2>2
  <2>5. Answerable(Append(longer, msg), pending)
    BY <1>2, <2>1, <2>4, AnswerableGrows
  <2> QED BY <1>5, <1>6, <2>3, <2>5
<1>7. CASE shot /\ ~ sync
  <2>1. \E req \in pending' : req.id = msg.id
    <3> DEFINE new == [id |-> id, event |-> n]
    <3>1. new \in pending' /\ new.id = msg.id
      BY <1>2, <1>5, <1>7
    <3> HIDE DEF new
    <3> QED BY <3>1
  <2>2. pending \subseteq pending' /\ out' = Append(out, msg)
    BY <1>5, <1>7
  <2> QED BY <1>1, <1>2, <2>1, <2>2, AnswerableGrows
<1>8. CASE ~ shot
  <2>1. pending' = pending /\ out' = Append(out, msg)
    BY <1>5, <1>8
  <2> QED BY <1>1, <1>2, <1>8, <2>1, AnswerableGrows
<1> QED BY <1>6, <1>7, <1>8

LEMMA NextAnswerable ==
  ASSUME HandlerAssumption, IInv, Answerable(out, pending), [Next]_vars
  PROVE  Answerable(out', pending')
<1>1. ASSUME NEW type \in Types, NEW key \in PlainKeys, NEW found \in BOOLEAN,
             NEW coin \in BOOLEAN, NEW sync \in BOOLEAN,
             HandleInputEvent(type, key, found, coin, sync)
      PROVE  Answerable(out', pending')
  <2> DEFINE n       == Len(out) + 1
             wc      == LookUpView(found)
             worthy  == SnapshotWorthy(type, key)
             changed == PageChanged(worthy, wc)
             take    == RandomizeSnapshot(changed, coin)
             shot    == worthy /\ take /\ Wanted(flags.shot, type, key)
             dom     == worthy /\ take /\ Wanted(flags.dom, type, key) /\ wc = 1
  <2>1. UpdatePage(worthy, wc, changed) /\ Deliver(n, type, key, worthy, shot, dom, wc, sync)
    BY <1>1 DEF HandleInputEvent
  <2>2. TypeOK /\ n \in Nat
    BY DEF IInv, TypeOK
  <2>3. /\ wc \in {-1, 1} /\ worthy \in BOOLEAN /\ changed \in BOOLEAN
        /\ shot \in BOOLEAN /\ dom \in BOOLEAN
    BY <2>2, DecisionTypes
  <2> HIDE DEF n, wc, worthy, changed, shot, dom
  <2>4. url_id' \in Int
    BY <2>1, <2>2 DEF UpdatePage, TypeOK
  <2> QED BY <2>1, <2>2, <2>3, <2>4, DeliverAnswerable
<1>2. CASE SomeInput
  <2>1. PICK type \in Types, key \in PlainKeys, found, coin, sync \in BOOLEAN :
            HandleInputEvent(type, key, found, coin, sync)
    BY <1>2 DEF SomeInput, PlainKeys
  <2> QED BY <1>1, <2>1
<1>3. ASSUME NEW req \in pending, ScreenshotCaptured(req)
      PROVE  Answerable(out', pending')
  <2> DEFINE S == CapturedMsgs \cup InputMsgs
  <2>1. /\ out \in Seq(S) /\ pending \subseteq Requests
        /\ RequestsSound(pending, input_event_buffer)
    BY DEF IInv, TypeOK, Requests
  <2>2. CapturedMsg(req.id) \in S
    BY <2>1 DEF CapturedMsg, CapturedMsgs, Requests
  <2> HIDE DEF S
  <2>3. Answerable(Append(out, CapturedMsg(req.id)), {r \in pending : r.id # req.id})
    BY <2>1, <2>2, AnswerSent
  <2>4. {r \in pending : r.id # req.id} = pending \ {req}
    BY <2>1 DEF RequestsSound
  <2>5. pending' = pending \ {req} /\ out' = Append(out, CapturedMsg(req.id))
    BY <1>3 DEF ScreenshotCaptured
  <2> QED BY <2>3, <2>4, <2>5
<1>4. CASE UNCHANGED <<pending, out>>
  BY <1>4
<1> QED BY <1>2, <1>3, <1>4 DEF Next, Tick, Navigate, vars

\* No message of the handler makes the renderer wait for ever: the
\* ScreenshotCaptured with its id was sent, or the compositor still owes the
\* callback that sends it.
THEOREM WaitsAreAnswerable == Spec => []WaitIsAnswerable
<1>1. Init => Answerable(out, pending)
  BY DEF Init, Answerable
<1>2. IInv /\ Answerable(out, pending) /\ [Next]_vars => Answerable(out, pending)'
  BY NextAnswerable, HandlerAssumption
<1>3. Answerable(out, pending) => WaitIsAnswerable
  BY DEF Answerable, WaitIsAnswerable
<1> QED BY <1>1, <1>2, <1>3, AlwaysInv, PTL DEF Spec
-----------------------------------------------------------------------------
(* What is recorded.                                                       *)

\* The messages of a step: m, the last, and before it at most one that is no input event.
Sent(new, old, n, m) ==
  /\ n \in Nat /\ Len(old) < n /\ DOMAIN new = 1 .. n /\ new[n] = m
  /\ \A i \in DOMAIN old : i \in DOMAIN new /\ new[i] = old[i]
  /\ \A i \in DOMAIN new : i \in DOMAIN old \/ i = n \/ new[i].kind # "HandleInputEvent"

LEMMA OneSent ==
  ASSUME NEW S, NEW q \in Seq(S), NEW m \in S
  PROVE  Sent(Append(q, m), q, Len(q) + 1, m)
<1> DEFINE c == Append(q, m)
<1>1. /\ DOMAIN c = DOMAIN q \cup {Len(q) + 1} /\ c[Len(q) + 1] = m
      /\ \A i \in DOMAIN q : c[i] = q[i]
  BY AppendElement
<1>2. DOMAIN c = 1 .. Len(q) + 1 /\ Len(q) \in Nat
  OBVIOUS
<1> HIDE DEF c
<1>3. Sent(c, q, Len(q) + 1, m)
  BY <1>1, <1>2 DEF Sent
<1> QED BY <1>3 DEF c

LEMMA TwoSent ==
  ASSUME NEW S, NEW q \in Seq(S), NEW a \in S, NEW m \in S, a.kind # "HandleInputEvent"
  PROVE  Sent(q \o <<a, m>>, q, Len(q) + 2, m)
<1> DEFINE b == Append(q, a)
           c == Append(b, m)
<1>1. /\ b \in Seq(S) /\ DOMAIN b = DOMAIN q \cup {Len(q) + 1} /\ b[Len(q) + 1] = a
      /\ \A i \in DOMAIN q : b[i] = q[i]
  BY AppendElement
<1>2. Len(q) \in Nat /\ Len(b) = Len(q) + 1 /\ q \o <<a, m>> = c
  OBVIOUS
<1> HIDE DEF b
<1>3. /\ DOMAIN c = DOMAIN b \cup {Len(b) + 1} /\ c[Len(b) + 1] = m
      /\ \A i \in DOMAIN b : c[i] = b[i]
  BY <1>1, AppendElement
<1>4. DOMAIN c = 1 .. Len(b) + 1
  BY <1>1
<1> HIDE DEF c
<1>5. DOMAIN c = 1 .. Len(q) + 2 /\ c[Len(q) + 2] = m
  BY <1>2, <1>3, <1>4
<1>6. \A i \in DOMAIN c : i \in DOMAIN q \/ i = Len(q) + 2 \/ c[i].kind # "HandleInputEvent"
  BY <1>1, <1>2, <1>3
<1>7. Sent(c, q, Len(q) + 2, m)
  BY <1>1, <1>2, <1>3, <1>5, <1>6 DEF Sent
<1> QED BY <1>2, <1>7

\* The pointer events of the page that is there were recorded as the coin fell, and those
\* of earlier pages have smaller numbers.
PageDecided ==
  \A i \in DOMAIN out : Pointer(i) =>
    /\ out[i].url_id <= url_id
    /\ web_contents # 0
    /\ out[i].url_id = url_id =>
         /\ out[i].shot = (take_random_snapshot /\ flags.shot # "disable")
         /\ out[i].dom = (take_random_snapshot /\ flags.dom # "disable" /\ web_contents = 1)

\* The handler remembers the last key pressed on the page that is there.
KeyRemembered ==
  \A i \in DOMAIN out :
    /\ Down(i)
    /\ \A k \in DOMAIN out : k > i => ~ Down(k)
    /\ \A k \in DOMAIN out : k >= i => ~ NewPageAt(k)
    => last_key_press = out[i].key /\ last_key_press_time = out[i].time

Decided == PageDecided /\ KeyRemembered /\ OneDecisionPerPage /\ KeyCaptureHasAReason

\* An input event and what the handler makes of it.
Handled(m, changed, take, wc) ==
  /\ m.kind = "HandleInputEvent" /\ m.type \in Types /\ m.key \in PlainKeys
  /\ m.time = now /\ m.url_before = url_id /\ m.url_id = url_id'
  /\ m.worthy = SnapshotWorthy(m.type, m.key)
  /\ m.shot = (m.worthy /\ take /\ Wanted(flags.shot, m.type, m.key))
  /\ m.dom = (m.worthy /\ take /\ Wanted(flags.dom, m.type, m.key) /\ wc = 1)
  /\ changed = PageChanged(m.worthy, wc)
  /\ take_random_snapshot' = take /\ (~ changed => take = take_random_snapshot)
  /\ UpdateLastInputs(m.type, m.key, changed) /\ UpdatePage(m.worthy, wc, changed)
  /\ wc \in {-1, 1} /\ (web_contents # 0 => wc = web_contents)
  /\ flags' = flags

LEMMA EventIsHandled ==
  ASSUME HandlerAssumption, IInv,
         NEW type \in Types, NEW key \in PlainKeys, NEW found \in BOOLEAN,
         NEW coin \in BOOLEAN, NEW sync \in BOOLEAN,
         HandleInputEvent(type, key, found, coin, sync)
  PROVE  \E m, changed, take, wc, n : Handled(m, changed, take, wc) /\ Sent(out', out, n, m)
<1> DEFINE wc      == LookUpView(found)
           worthy  == SnapshotWorthy(type, key)
           changed == PageChanged(worthy, wc)
           take    == RandomizeSnapshot(changed, coin)
           shot    == worthy /\ take /\ Wanted(flags.shot, type, key)
           dom     == worthy /\ take /\ Wanted(flags.dom, type, key) /\ wc = 1
           id      == next_snapshot_id
           msg     == InputMsg(id, type, key, worthy, shot, dom, wc)
           S       == CapturedMsgs \cup InputMsgs
<1>1. /\ take_random_snapshot' = take
      /\ UpdateLastInputs(type, key, changed)
      /\ UpdatePage(worthy, wc, changed)
      /\ Deliver(Len(out) + 1, type, key, worthy, shot, dom, wc, sync)
      /\ UNCHANGED <<switchVars, envVars>>
  BY DEF HandleInputEvent
<1>2. TypeOK /\ out \in Seq(S) /\ id \in Nat
  BY DEF IInv, TypeOK
<1>3. /\ wc \in {-1, 1} /\ worthy \in BOOLEAN /\ changed \in BOOLEAN
      /\ shot \in BOOLEAN /\ dom \in BOOLEAN
  BY <1>2, DecisionTypes
<1>4. (web_contents # 0 => wc = web_contents) /\ (~ changed => take = take_random_snapshot)
  BY DEF LookUpView, RandomizeSnapshot
<1>5. flags' = flags
  BY <1>1 DEF switchVars
<1>6. url_id' \in Int
  <2> HIDE DEF wc, worthy, changed, take, shot, dom
  <2> QED BY <1>1, <1>2 DEF UpdatePage, TypeOK
<1>7. msg \in S /\ CapturedMsg(id) \in S /\ CapturedMsg(id).kind # "HandleInputEvent"
  <2>1. CapturedMsg(id) \in S /\ CapturedMsg(id).kind # "HandleInputEvent"
    BY <1>2 DEF CapturedMsg, CapturedMsgs
  <2> HIDE DEF wc, worthy, changed, take, shot, dom, id
  <2>2. msg \in InputMsgs
    BY <1>2, <1>3, <1>6, MessageType DEF id
  <2> QED BY <2>1, <2>2
<1>8. out' = IF shot /\ sync THEN out \o <<CapturedMsg(id), msg>> ELSE Append(out, msg)
  <2> HIDE DEF wc, worthy, changed, take, shot, dom
  <2> QED BY <1>1 DEF Deliver
<1>9. /\ msg.kind = "HandleInputEvent" /\ msg.type = type /\ msg.key = key
      /\ msg.time = now /\ msg.url_before = url_id /\ msg.url_id = url_id'
      /\ msg.worthy = worthy /\ msg.shot = shot /\ msg.dom = dom
  <2> HIDE DEF wc, worthy, changed, take, shot, dom, id
  <2> QED BY DEF InputMsg
<1>10. \E n : Sent(out', out, n, msg)
  <2> DEFINE cap == CapturedMsg(id)
  <2>1. cap \in S /\ cap.kind # "HandleInputEvent"
    BY <1>7
  <2> HIDE DEF msg, S, cap, shot
  <2>2. CASE shot /\ sync
    <3>1. out' = out \o <<cap, msg>>
      BY <1>8, <2>2 DEF cap
    <3> QED BY <1>2, <1>7, <2>1, <3>1, TwoSent
  <2>3. CASE ~ (shot /\ sync)
    <3>1. out' = Append(out, msg)
      BY <1>8, <2>3
    <3> QED BY <1>2, <1>7, <3>1, OneSent
  <2> QED BY <2>2, <2>3
<1>11. Handled(msg, changed, take, wc)
  <2>1. msg.shot = (worthy /\ take /\ Wanted(flags.shot, type, key))
    BY <1>9
  <2>2. msg.dom = (worthy /\ take /\ Wanted(flags.dom, type, key) /\ wc = 1)
    BY <1>9
  <2> HIDE DEF msg, take, wc
  <2> QED BY <1>1, <1>3, <1>4, <1>5, <1>9, <2>1, <2>2 DEF Handled
<1> QED BY <1>10, <1>11
\* The page's number only grows, with the page; the coin is tossed only then.
LEMMA PageMoves ==
  ASSUME TypeOK, NEW m, NEW changed, NEW take, NEW wc, Handled(m, changed, take, wc)
  PROVE  /\ url_id' \in Int /\ url_id <= url_id' /\ web_contents' = wc
         /\ changed <=> url_id \notin {Unset, url_id'}
         /\ url_id' = url_id => take_random_snapshot' = take_random_snapshot
<1>1. /\ url_id \in Int /\ (url_id = Unset \/ url_id >= 1 \/ url_id < 1)
      /\ changed = (m.worthy /\ wc = 1 /\ url_id # Unset /\ url # last_url)
      /\ web_contents' = wc
      /\ url_id' = IF ~ (m.worthy /\ wc = 1) THEN url_id
                   ELSE IF url_id = Unset THEN 1
                   ELSE IF changed THEN url_id + 1 ELSE url_id
      /\ take_random_snapshot' = take /\ (~ changed => take = take_random_snapshot)
  BY DEF TypeOK, Handled, PageChanged, UpdatePage
<1>2. CASE ~ (m.worthy /\ wc = 1)
  <2>1. ~ changed /\ url_id' = url_id
    BY <1>1, <1>2
  <2> QED BY <1>1, <2>1
<1>3. CASE m.worthy /\ wc = 1 /\ url_id = Unset
  <2>1. ~ changed /\ url_id' = 1 /\ url_id = -1
    BY <1>1, <1>3 DEF Unset
  <2> QED BY <1>1, <1>3, <2>1
<1>4. CASE m.worthy /\ wc = 1 /\ url_id # Unset /\ changed
  <2>1. url_id' = url_id + 1
    BY <1>1, <1>4
  <2>2. url_id' \in Int /\ url_id <= url_id' /\ url_id' # url_id
    BY <1>1, <2>1
  <2> QED BY <1>1, <1>4, <2>2
<1>5. CASE m.worthy /\ wc = 1 /\ url_id # Unset /\ ~ changed
  <2>1. url_id' = url_id
    BY <1>1, <1>5
  <2> QED BY <1>1, <1>5, <2>1
<1> QED BY <1>2, <1>3, <1>4, <1>5

\* A pointer event worth a snapshot is recorded as the coin says.
LEMMA PointerIsRecorded ==
  ASSUME TypeOK, NEW m, NEW changed, NEW take, NEW wc, Handled(m, changed, take, wc),
         m.worthy, m.type \in PressTypes \cup MoveTypes
  PROVE  /\ m.shot = (take_random_snapshot' /\ flags'.shot # "disable")
         /\ m.dom = (take_random_snapshot' /\ flags'.dom # "disable" /\ wc = 1)
<1>1. ~ Muted(m.type, m.key)
  BY DEF Muted, KeyTypes, PressTypes, MoveTypes
<1>2. \A mode : Wanted(mode, m.type, m.key) <=> mode # "disable"
  BY <1>1 DEF Wanted
<1> QED BY <1>2 DEF Handled

LEMMA PageDecidedStep ==
  ASSUME TypeOK, PageDecided, OneDecisionPerPage, NEW m, NEW changed, NEW take, NEW wc,
         NEW n, Handled(m, changed, take, wc), Sent(out', out, n, m)
  PROVE  PageDecided' /\ OneDecisionPerPage'
<1>1. /\ url_id' \in Int /\ url_id <= url_id' /\ web_contents' = wc
      /\ url_id' = url_id => take_random_snapshot' = take_random_snapshot
  BY PageMoves
<1>2. \A i \in DOMAIN out' : Pointer(i)' =>
        \/ i \in DOMAIN out /\ out'[i] = out[i] /\ Pointer(i)
        \/ i = n /\ out'[i] = m /\ m.worthy /\ m.type \in PressTypes \cup MoveTypes
  <2> SUFFICES ASSUME NEW i \in DOMAIN out', Pointer(i)'
               PROVE  \/ i \in DOMAIN out /\ out'[i] = out[i] /\ Pointer(i)
                      \/ i = n /\ out'[i] = m /\ m.worthy /\ m.type \in PressTypes \cup MoveTypes
    OBVIOUS
  <2>1. /\ out'[i].kind = "HandleInputEvent" /\ out'[i].worthy
        /\ out'[i].type \in PressTypes \cup MoveTypes
    BY DEF Pointer, Event
  <2>2. i \in DOMAIN out \/ i = n
    BY <2>1 DEF Sent
  <2>3. CASE i \in DOMAIN out
    <3>1. out'[i] = out[i]
      BY <2>3 DEF Sent
    <3> QED BY <2>1, <2>3, <3>1 DEF Pointer, Event
  <2>4. CASE i = n
    <3>1. out'[i] = m
      BY <2>4 DEF Sent
    <3> QED BY <2>1, <2>4, <3>1
  <2> QED BY <2>2, <2>3, <2>4
<1>3. m.url_id = url_id' /\ flags' = flags /\ wc \in {-1, 1} /\ (web_contents # 0 => wc = web_contents)
  BY DEF Handled
<1>4. /\ out \in Seq(CapturedMsgs \cup InputMsgs)
      /\ \A i \in DOMAIN out : Pointer(i) => out[i].url_id \in Int
  <2>1. out \in Seq(CapturedMsgs \cup InputMsgs)
    BY DEF TypeOK
  <2>2. \A i \in DOMAIN out : out[i] \in CapturedMsgs \/ out[i] \in InputMsgs
    BY <2>1
  <2>3. \A x \in CapturedMsgs : x.kind # "HandleInputEvent"
    BY DEF CapturedMsgs
  <2>4. \A x \in InputMsgs : x.url_id \in Int
    BY DEF InputMsgs
  <2> QED BY <2>1, <2>2, <2>3, <2>4 DEF Pointer, Event
<1>5. PageDecided'
  <2> SUFFICES ASSUME NEW i \in DOMAIN out', Pointer(i)'
               PROVE  /\ out'[i].url_id <= url_id'
                      /\ web_contents' # 0
                      /\ out'[i].url_id = url_id' =>
                           /\ out'[i].shot = (take_random_snapshot' /\ flags'.shot # "disable")
                           /\ out'[i].dom = (take_random_snapshot' /\ flags'.dom # "disable" /\ web_contents' = 1)
    BY DEF PageDecided
  <2>1. CASE i \in DOMAIN out /\ out'[i] = out[i] /\ Pointer(i)
    <3>1. /\ out[i].url_id <= url_id /\ web_contents # 0 /\ out[i].url_id \in Int
          /\ out[i].url_id = url_id =>
               /\ out[i].shot = (take_random_snapshot /\ flags.shot # "disable")
               /\ out[i].dom = (take_random_snapshot /\ flags.dom # "disable" /\ web_contents = 1)
      BY <1>4, <2>1 DEF PageDecided
    <3>2. web_contents' = web_contents /\ url_id \in Int
      BY <1>1, <1>3, <3>1 DEF TypeOK
    <3>3. out[i].url_id <= url_id' /\ (out[i].url_id = url_id' => url_id' = url_id)
      BY <1>1, <3>1, <3>2
    <3> QED BY <1>1, <1>3, <2>1, <3>1, <3>2, <3>3
  <2>2. CASE i = n /\ out'[i] = m /\ m.worthy /\ m.type \in PressTypes \cup MoveTypes
    <3>1. /\ m.shot = (take_random_snapshot' /\ flags'.shot # "disable")
          /\ m.dom = (take_random_snapshot' /\ flags'.dom # "disable" /\ wc = 1)
      BY <2>2, PointerIsRecorded
    <3> QED BY <1>1, <1>3, <2>2, <3>1
  <2> QED BY <1>2, <2>1, <2>2
<1>6. OneDecisionPerPage'
  <2> SUFFICES ASSUME NEW i \in DOMAIN out', NEW j \in DOMAIN out', Pointer(i)', Pointer(j)',
                      out'[i].url_id = out'[j].url_id
               PROVE  out'[i].shot = out'[j].shot /\ out'[i].dom = out'[j].dom
    BY DEF OneDecisionPerPage
  <2>1. CASE i \in DOMAIN out /\ out'[i] = out[i] /\ Pointer(i) /\ j \in DOMAIN out /\ out'[j] = out[j] /\ Pointer(j)
    BY <2>1 DEF OneDecisionPerPage
  <2>2. CASE out'[i] = m \/ out'[j] = m
    <3>1. out'[i].url_id = url_id' /\ out'[j].url_id = url_id'
      BY <1>3, <2>2
    <3> QED BY <1>5, <3>1 DEF PageDecided
  <2> QED BY <1>2, <2>1, <2>2
<1> QED BY <1>5, <1>6

LEMMA KeyStep ==
  ASSUME HandlerAssumption, TypeOK, KeyRemembered, KeyCaptureHasAReason,
         NEW m, NEW changed, NEW take, NEW wc,
         NEW n, Handled(m, changed, take, wc), Sent(out', out, n, m)
  PROVE  KeyRemembered' /\ KeyCaptureHasAReason'
<1>1. /\ out \in Seq(CapturedMsgs \cup InputMsgs) /\ Len(out) \in Nat /\ DOMAIN out = 1 .. Len(out)
      /\ n \in Nat /\ Len(out) < n /\ DOMAIN out' = 1 .. n /\ out'[n] = m
      /\ \A i \in DOMAIN out : i \in DOMAIN out' /\ out'[i] = out[i]
      /\ \A i \in DOMAIN out' : i \in DOMAIN out \/ i = n \/ out'[i].kind # "HandleInputEvent"
  BY DEF TypeOK, Sent
<1>2. /\ \A i \in DOMAIN out : (Down(i)' <=> Down(i)) /\ (NewPageAt(i)' <=> NewPageAt(i)) /\ i < n /\ i # n
      /\ \A i \in DOMAIN out' \ DOMAIN out : Down(i)' \/ NewPageAt(i)' => i = n
  BY <1>1 DEF Down, NewPageAt, Event
<1>3. /\ Down(n)' <=> m.type = "RawKeyDown"
      /\ NewPageAt(n)' <=> changed
  <2>1. m.kind = "HandleInputEvent" /\ m.url_before = url_id /\ m.url_id = url_id'
    BY DEF Handled
  <2>2. changed <=> url_id \notin {Unset, url_id'}
    BY PageMoves
  <2> QED BY <1>1, <2>1, <2>2 DEF Down, NewPageAt, Event
<1>4. /\ ~ changed /\ m.type = "RawKeyDown" => last_key_press' = m.key /\ last_key_press_time' = m.time
      /\ ~ changed /\ m.type # "RawKeyDown" => UNCHANGED <<last_key_press, last_key_press_time>>
  BY DEF Handled, UpdateLastInputs
<1>5. KeyRemembered'
  <2> SUFFICES ASSUME NEW i \in DOMAIN out', Down(i)',
                      \A k \in DOMAIN out' : k > i => ~ Down(k)',
                      \A k \in DOMAIN out' : k >= i => ~ NewPageAt(k)'
               PROVE  last_key_press' = out'[i].key /\ last_key_press_time' = out'[i].time
    BY DEF KeyRemembered
  <2>1. i \in DOMAIN out \/ i = n
    BY <1>2
  <2>2. n \in DOMAIN out' /\ n >= i
    BY <1>1
  <2>3. ~ changed
    BY <1>3, <2>2
  <2>4. CASE i \in DOMAIN out
    <3>1. n > i
      BY <1>2, <2>4
    <3>2. m.type # "RawKeyDown"
      BY <1>3, <2>2, <3>1
    <3>3. last_key_press = out[i].key /\ last_key_press_time = out[i].time
      <4>1. Down(i)
        BY <1>2, <2>4
      <4>2. \A k \in DOMAIN out : k > i => ~ Down(k)
        BY <1>1, <1>2
      <4>3. \A k \in DOMAIN out : k >= i => ~ NewPageAt(k)
        BY <1>1, <1>2
      <4> QED BY <2>4, <4>1, <4>2, <4>3 DEF KeyRemembered
    <3> QED BY <1>1, <1>4, <2>3, <2>4, <3>2, <3>3
  <2>5. CASE i = n
    BY <1>1, <1>3, <1>4, <2>3, <2>5
  <2> QED BY <2>1, <2>4, <2>5
<1>6. KeyCaptureHasAReason'
  <2> SUFFICES ASSUME NEW i \in DOMAIN out', NEW j \in DOMAIN out', i < j, Down(i)', Down(j)',
                      out'[j].shot, flags'.shot = "default",
                      \A k \in i + 1 .. j - 1 : ~ Down(k)',
                      \A k \in i .. j - 1 : ~ NewPageAt(k)'
               PROVE  \/ out'[j].time - out'[i].time > Interval
                      \/ /\ out'[i].key # out'[j].key
                         /\ {out'[i].key, out'[j].key} \cap SelectKeys # {}
    BY DEF KeyCaptureHasAReason
  <2>1. (i \in DOMAIN out \/ i = n) /\ (j \in DOMAIN out \/ j = n) /\ flags' = flags
    BY <1>2 DEF Handled
  <2>2. i \in DOMAIN out /\ i \in Nat
    BY <1>1, <1>2, <2>1
  <2>3. CASE j \in DOMAIN out
    <3>1. \A k \in i .. j : k \in DOMAIN out
      BY <1>1, <2>2, <2>3
    <3>2. Down(i) /\ Down(j) /\ out'[i] = out[i] /\ out'[j] = out[j]
      BY <1>1, <1>2, <2>2, <2>3
    <3>3. \A k \in i + 1 .. j - 1 : ~ Down(k)
      <4>1. \A k \in i + 1 .. j - 1 : k \in i .. j
        BY <1>1, <2>2, <2>3
      <4> QED BY <1>2, <3>1, <4>1
    <3>4. \A k \in i .. j - 1 : ~ NewPageAt(k)
      <4>1. \A k \in i .. j - 1 : k \in i .. j
        BY <1>1, <2>2, <2>3
      <4> QED BY <1>2, <3>1, <4>1
    <3> QED BY <2>1, <2>2, <2>3, <3>2, <3>3, <3>4 DEF KeyCaptureHasAReason
  <2>4. CASE j = n
    <3>1. m.type = "RawKeyDown" /\ m.shot /\ flags.shot = "default" /\ out'[j] = m /\ out'[i] = out[i]
      BY <1>1, <1>3, <2>1, <2>2, <2>4
    <3>2. last_key_press = out[i].key /\ last_key_press_time = out[i].time
      <4>1. Down(i)
        BY <1>2, <2>2
      <4>2. \A k \in DOMAIN out : k > i => k \in i + 1 .. j - 1 /\ ~ Down(k)
        BY <1>1, <1>2, <2>2, <2>4
      <4>3. \A k \in DOMAIN out : k >= i => k \in i .. j - 1 /\ ~ NewPageAt(k)
        BY <1>1, <1>2, <2>2, <2>4
      <4> QED BY <2>2, <4>1, <4>2, <4>3 DEF KeyRemembered
    <3>3. out[i].time \in Nat /\ now \in Nat
      <4>1. out[i] \in CapturedMsgs \/ out[i] \in InputMsgs
        BY <1>1, <2>2
      <4>2. out[i].kind = "HandleInputEvent"
        BY <1>2, <2>2 DEF Down, Event
      <4>3. out[i] \in InputMsgs
        BY <4>1, <4>2 DEF CapturedMsgs
      <4> QED BY <4>3 DEF InputMsgs, TypeOK
    <3>4. m.worthy /\ SnapshotWorthy(m.type, m.key) /\ Wanted("default", m.type, m.key) /\ m.time = now
      BY <3>1 DEF Handled
    <3>5. CASE FreshKey(m.type)
      <4>1. now - out[i].time > Interval
        BY <3>2, <3>3, <3>5 DEF FreshKey, IdleSince, Unset
      <4> QED BY <3>1, <3>4, <4>1
    <3>6. CASE ~ FreshKey(m.type)
      <4>1. ~ Muted(m.type, m.key) /\ m.key # last_key_press
        BY <3>1, <3>4, <3>6 DEF Wanted, SnapshotWorthy, PressTypes, MoveTypes
      <4>2. m.key \in SelectKeys \/ last_key_press \in SelectKeys
        BY <3>1, <4>1 DEF Muted, KeyTypes
      <4> QED BY <3>1, <3>2, <4>1, <4>2
    <3> QED BY <3>5, <3>6
  <2> QED BY <2>1, <2>3, <2>4
<1> QED BY <1>5, <1>6

\* Any other message changes nothing of this.
LEMMA DecidedKept ==
  ASSUME TypeOK, Decided, UNCHANGED <<flags, take_random_snapshot, keyVars, web_contents, url_id>>,
         \/ out' = out
         \/ \E n, m : Sent(out', out, n, m) /\ m.kind # "HandleInputEvent"
  PROVE  Decided'
<1>1. /\ out \in Seq(CapturedMsgs \cup InputMsgs) /\ Len(out) \in Nat /\ DOMAIN out = 1 .. Len(out)
  BY DEF TypeOK
<1>2. /\ \A i \in DOMAIN out : i \in DOMAIN out' /\ out'[i] = out[i]
      /\ \A i \in DOMAIN out' : i \in Nat /\ (i \in DOMAIN out \/ out'[i].kind # "HandleInputEvent")
  BY <1>1 DEF Sent
<1>3. \A i \in DOMAIN out' : /\ Pointer(i)' <=> i \in DOMAIN out /\ Pointer(i)
                             /\ Down(i)' <=> i \in DOMAIN out /\ Down(i)
                             /\ NewPageAt(i)' <=> i \in DOMAIN out /\ NewPageAt(i)
  BY <1>2 DEF Pointer, Down, NewPageAt, Event
<1>4. PageDecided' /\ OneDecisionPerPage'
  BY <1>2, <1>3 DEF Decided, PageDecided, OneDecisionPerPage
<1>5. KeyRemembered'
  BY <1>2, <1>3 DEF Decided, KeyRemembered, keyVars
<1>6. KeyCaptureHasAReason'
  <2> SUFFICES ASSUME NEW i \in DOMAIN out', NEW j \in DOMAIN out', i < j, Down(i)', Down(j)',
                      out'[j].shot, flags'.shot = "default",
                      \A k \in i + 1 .. j - 1 : ~ Down(k)',
                      \A k \in i .. j - 1 : ~ NewPageAt(k)'
               PROVE  \/ out'[j].time - out'[i].time > Interval
                      \/ /\ out'[i].key # out'[j].key
                         /\ {out'[i].key, out'[j].key} \cap SelectKeys # {}
    BY DEF KeyCaptureHasAReason
  <2>1. i \in DOMAIN out /\ j \in DOMAIN out /\ Down(i) /\ Down(j) /\ out'[i] = out[i] /\ out'[j] = out[j]
    BY <1>2, <1>3
  <2>2. \A k \in i .. j : k \in DOMAIN out /\ k \in DOMAIN out'
    BY <1>1, <1>2, <2>1
  <2>3. (\A k \in i + 1 .. j - 1 : k \in i .. j) /\ (\A k \in i .. j - 1 : k \in i .. j)
    BY <1>1, <2>1
  <2>4. (\A k \in i + 1 .. j - 1 : ~ Down(k)) /\ (\A k \in i .. j - 1 : ~ NewPageAt(k))
    BY <1>3, <2>2, <2>3
  <2> QED BY <2>1, <2>4 DEF Decided, KeyCaptureHasAReason
<1> QED BY <1>4, <1>5, <1>6 DEF Decided

LEMMA DecidedNext ==
  ASSUME HandlerAssumption, IInv, Decided, [Next]_vars
  PROVE  Decided'
<1>1. TypeOK
  BY DEF IInv
<1>2. CASE SomeInput
  <2>1. PICK type \in Types, key \in PlainKeys, found, coin, sync \in BOOLEAN :
            HandleInputEvent(type, key, found, coin, sync)
    BY <1>2 DEF SomeInput, PlainKeys
  <2>2. PICK m, changed, take, wc, n : Handled(m, changed, take, wc) /\ Sent(out', out, n, m)
    BY <2>1, EventIsHandled
  <2> QED BY <1>1, <2>2, PageDecidedStep, KeyStep DEF Decided
<1>3. ASSUME NEW req \in pending, ScreenshotCaptured(req) PROVE Decided'
  <2> DEFINE S == CapturedMsgs \cup InputMsgs
             cap == CapturedMsg(req.id)
  <2>1. out \in Seq(S) /\ cap \in S /\ cap.kind # "HandleInputEvent"
    BY <1>1 DEF TypeOK, CapturedMsg, CapturedMsgs
  <2>2. /\ out' = Append(out, cap)
        /\ UNCHANGED <<flags, take_random_snapshot, keyVars, web_contents, url_id>>
    BY <1>3 DEF ScreenshotCaptured, switchVars, pageVars
  <2> HIDE DEF S, cap
  <2>3. Sent(out', out, Len(out) + 1, cap)
    BY <2>1, <2>2, OneSent
  <2> QED BY <1>1, <2>1, <2>2, <2>3, DecidedKept
<1>4. CASE Tick \/ Navigate \/ UNCHANGED vars
  BY <1>1, <1>4, DecidedKept DEF Tick, Navigate, vars, switchVars, keyVars, pageVars
<1> QED BY <1>2, <1>3, <1>4 DEF Next

\* What is recorded is decided by the rules of the mode alone, over any sequence of keys,
\* moves, pages and captures: one coin per page, and no typed text
\* (HandleInputEvent, snapshot_handler.cc:312-470).
THEOREM RecordedByTheRules == Spec => []CaptureIsDecided
<1>1. Init => Decided
  BY DEF Init, Decided, PageDecided, KeyRemembered, OneDecisionPerPage, KeyCaptureHasAReason
<1>2. IInv /\ Decided /\ [Next]_vars => Decided'
  BY DecidedNext, HandlerAssumption
<1>3. Decided => CaptureIsDecided
  BY DEF Decided, CaptureIsDecided
<1> QED BY <1>1, <1>2, <1>3, AlwaysInv, PTL DEF Spec

=============================================================================
