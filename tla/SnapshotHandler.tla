--------------------------- MODULE SnapshotHandler ---------------------------
(***************************************************************************)
(* The browser side of ChromePic: one SnapshotHandler sits in every        *)
(* InputRouterImpl and sees each input event just before it is sent to the *)
(* renderer.  It decides whether the event is worth a screenshot and a DOM *)
(* snapshot, gives the pair an id, asks the compositor for the screenshot  *)
(* and sends the event with the flags that make the renderer wait.         *)
(*                                                                         *)
(* src/src/content/browser/renderer_host/snapshot/snapshot_handler.cc and  *)
(* input_event_arg.cc.  Everything here runs on the browser's UI thread,   *)
(* so a handler is one step; the screenshot callback is another, unless    *)
(* the copy fails at once and runs it inside the request.                  *)
(***************************************************************************)
EXTENDS Integers, Sequences

CONSTANTS
  Keys,         \* Windows key codes the user may press
  SelectKeys,   \* select_input_set: BACK, SPACE, TAB, RETURN, ESCAPE, DELETE
  Urls,         \* URLs the page may commit (numbers stand for them)
  Types,        \* input event types offered by the environment
  Switches,     \* combinations of command line switches of this browser
  Interval,     \* key_press_interval, in ticks of the clock
  MaxTime,      \* bound: the clock stops here
  MaxEvents,    \* bound: input events offered to the handler
  MaxVisits     \* bound: committed navigations

PressTypes == {"MouseDown", "GestureTapDown"}
MoveTypes  == {"MouseMove", "MouseWheel"}
KeyTypes   == {"RawKeyDown", "KeyUp", "Char"}
OtherTypes == {"MouseUp", "TouchStart", "GestureScrollUpdate"}
SwitchSet  == [shot : {"default", "disable", "all"},
               dom : {"default", "disable", "all"}, random : BOOLEAN]

ASSUME HandlerAssumption ==
  /\ Keys \subseteq Nat /\ Urls \subseteq Nat
  /\ Types \subseteq PressTypes \cup MoveTypes \cup KeyTypes \cup OtherTypes
  /\ Switches \subseteq SwitchSet
  /\ Interval \in Nat
  /\ MaxTime \in Nat /\ MaxEvents \in Nat /\ MaxVisits \in Nat

\* The -1 of last_key_press, last_key_press_time, last_mouse_move_time, url_id.
Unset == -1

VARIABLES
  next_snapshot_id,
  flags,                 \* the switches this process was started with
  take_random_snapshot,
  last_key_press, last_key_press_time, last_mouse_move_time,
  web_contents,          \* 0 not looked up yet, 1 a view was found, -1 none
  url_id, last_url,
  input_event_buffer,    \* oldest first: the deque seen from rbegin()
  \* the environment
  now, url, visit,       \* clock, last committed URL, number of navigations
  pending,               \* screenshot callbacks the compositor still owes
  out                    \* every message given to sender_, in order

switchVars == <<flags>>
keyVars    == <<last_key_press, last_key_press_time, last_mouse_move_time>>
pageVars   == <<web_contents, url_id, last_url, take_random_snapshot>>
envVars    == <<now, url, visit>>
vars == <<next_snapshot_id, flags, take_random_snapshot, last_key_press,
          last_key_press_time, last_mouse_move_time, web_contents, url_id,
          last_url, input_event_buffer, now, url, visit, pending, out>>

-----------------------------------------------------------------------------
(* Deciding about one event.                                               *)

IdleSince(t) == t = Unset \/ now - t > Interval

\* Keyboard events other than the select inputs are muted, except the first
\* different key after a select input.
Muted(type, key) ==
  /\ type \in KeyTypes
  /\ key \notin SelectKeys
  /\ ~ (last_key_press \in SelectKeys /\ last_key_press # key)

BugFreshKey(type) == type = "RawKeyDown"
FreshKey(type) == type = "RawKeyDown" /\ IdleSince(last_key_press_time)

SnapshotWorthy(type, key) ==
  \/ type \in PressTypes
  \/ type \in MoveTypes /\ IdleSince(last_mouse_move_time)
  \/ type = "RawKeyDown" /\ (key # last_key_press \/ FreshKey(type))

\* screenshot_active and dom_snapshot_active share this rule.
Wanted(mode, type, key) ==
  /\ mode # "disable"
  /\ mode = "all" \/ ~ Muted(type, key) \/ FreshKey(type)

\* GetRVH runs on the first event only and its answer is kept for ever.
LookUpView(found) ==
  IF web_contents # 0 THEN web_contents ELSE IF found THEN 1 ELSE -1

PageChanged(worthy, wc) ==
  worthy /\ wc = 1 /\ url_id # Unset /\ url # last_url

RandomizeSnapshot(changed, coin) ==
  IF changed /\ flags.random THEN coin ELSE take_random_snapshot

-----------------------------------------------------------------------------
(* The buffer of events that wait for their snapshots.                     *)

BugStatus(arg) ==
  IF arg.screenshot_received /\ arg.dom_snapshot_received
    THEN "Ready" ELSE "Wait"
Status(arg) ==
  IF /\ arg.screenshot_received \/ ~ arg.screenshot_enabled
     /\ arg.dom_snapshot_received \/ ~ arg.dom_snapshot_enabled
    THEN "Ready" ELSE "Wait"

\* The InputEventArg put into the buffer for a snapshot event.
InputEventArg(id, n, shot, dom) ==
  [snapshot_id |-> id, event |-> n,
   screenshot_enabled |-> shot, screenshot_received |-> FALSE,
   dom_snapshot_enabled |-> dom, dom_snapshot_received |-> FALSE]

\* Where FindInputEvent finds the id (the oldest entry); {} is its NULL.
FindInputEvent(buffer, id) ==
  {i \in DOMAIN buffer : /\ buffer[i].snapshot_id = id
                         /\ \A j \in 1 .. i - 1 : buffer[j].snapshot_id # id}

BugMarkReceived(buffer, id) ==
  [i \in DOMAIN buffer |->
     IF i \in FindInputEvent(buffer, id)
       THEN [buffer[i] EXCEPT !.screenshot_received = TRUE,
                              !.dom_snapshot_received = TRUE]
       ELSE buffer[i]]
MarkReceived(buffer, id) ==
  [i \in DOMAIN buffer |->
     IF i \in FindInputEvent(buffer, id)
       THEN [buffer[i] EXCEPT !.screenshot_received = TRUE] ELSE buffer[i]]

\* next_snapshot_id_ moves on once the event is in the buffer.
BugNextId(id, shot, dom) == IF dom THEN id + 1 ELSE id
NextId(id, shot, dom) == IF shot \/ dom THEN id + 1 ELSE id

CapturedMsg(id) == [kind |-> "ScreenshotCaptured", id |-> id]

\* The id in MHTML_Params is read before next_snapshot_id_ moves on.
BugMessageId(id, shot, dom) == NextId(id, shot, dom)
MessageId(id, shot, dom) == id

InputMsg(id, type, key, worthy, shot, dom, wc) ==
  [kind |-> "HandleInputEvent", id |-> MessageId(id, shot, dom), type |-> type, key |-> key,
   worthy |-> worthy, shot |-> shot, dom |-> dom, time |-> now,
   url_before |-> url_id, url_id |-> url_id', visit |-> visit, view |-> wc]

Inputs(msgs) == SelectSeq(msgs, LAMBDA m : m.kind = "HandleInputEvent")

-----------------------------------------------------------------------------
Init ==
  /\ next_snapshot_id = 1
  /\ flags \in Switches
  /\ take_random_snapshot \in (IF flags.random THEN BOOLEAN ELSE {TRUE})
  /\ last_key_press = Unset /\ last_key_press_time = Unset
  /\ last_mouse_move_time = Unset
  /\ web_contents = 0 /\ url_id = Unset /\ last_url = Unset
  /\ input_event_buffer = <<>>
  /\ now = 0 /\ url \in Urls /\ visit = 0
  /\ pending = {} /\ out = <<>>

UpdateLastInputs(type, key, changed) ==
  /\ last_key_press' = IF changed THEN Unset
                       ELSE IF type = "RawKeyDown" THEN key ELSE last_key_press
  /\ last_key_press_time' = IF changed THEN Unset
                            ELSE IF type = "RawKeyDown" THEN now
                            ELSE last_key_press_time
  /\ last_mouse_move_time' = IF changed THEN Unset
                             ELSE IF type \in MoveTypes THEN now
                             ELSE last_mouse_move_time

UpdatePage(worthy, wc, changed) ==
  /\ web_contents' = wc
  /\ url_id' = IF ~ (worthy /\ wc = 1) THEN url_id
               ELSE IF url_id = Unset THEN 1
               ELSE IF changed THEN url_id + 1 ELSE url_id
  /\ last_url' = IF worthy /\ wc = 1 THEN url ELSE last_url

\* The buffer push, the screenshot request and the input message, in this
\* order.  When the copy fails at once (`sync`) its callback runs inside the
\* request: the entry is marked and ScreenshotCaptured is sent first.
Deliver(n, type, key, worthy, shot, dom, wc, sync) ==
  LET id  == next_snapshot_id
      arg == InputEventArg(id, n, shot, dom)
      msg == InputMsg(id, type, key, worthy, shot, dom, wc)
      buffer == IF shot \/ dom THEN Append(input_event_buffer, arg)
                ELSE input_event_buffer
  IN  /\ next_snapshot_id' = NextId(id, shot, dom)
      /\ input_event_buffer' =
           IF shot /\ sync THEN MarkReceived(buffer, id) ELSE buffer
      /\ pending' = IF shot /\ ~ sync
                      THEN pending \cup {[id |-> id, event |-> n]} ELSE pending
      /\ out' = IF shot /\ sync THEN out \o <<CapturedMsg(id), msg>>
                ELSE Append(out, msg)

\* An event is known by the length of `out` before it.
HandleInputEvent(type, key, found, coin, sync) ==
  LET n       == Len(out) + 1
      wc      == LookUpView(found)
      worthy  == SnapshotWorthy(type, key)
      changed == PageChanged(worthy, wc)
      take    == RandomizeSnapshot(changed, coin)
      shot    == worthy /\ take /\ Wanted(flags.shot, type, key)
      dom     == worthy /\ take /\ Wanted(flags.dom, type, key) /\ wc = 1
  IN  /\ take_random_snapshot' = take
      /\ UpdateLastInputs(type, key, changed)
      /\ UpdatePage(worthy, wc, changed)
      /\ Deliver(n, type, key, worthy, shot, dom, wc, sync)
      /\ UNCHANGED <<switchVars, envVars>>

\* The readback answers later.  FindInputEvent's result is dereferenced
\* before it is tested, so with no entry the browser would stop here.
ScreenshotCaptured(req) ==
  /\ req \in pending
  /\ FindInputEvent(input_event_buffer, req.id) # {}
  /\ pending' = pending \ {req}
  /\ input_event_buffer' = MarkReceived(input_event_buffer, req.id)
  /\ out' = Append(out, CapturedMsg(req.id))
  /\ UNCHANGED <<next_snapshot_id, switchVars, keyVars, pageVars, envVars>>

\* The user offers an event, the clock moves, or the page commits a URL.
SomeInput ==
  /\ Len(Inputs(out)) < MaxEvents
  /\ \E type \in Types :
       \E key \in (IF type \in KeyTypes THEN Keys ELSE {Unset}),
          found, coin, sync \in BOOLEAN :
         HandleInputEvent(type, key, found, coin, sync)

Tick ==
  /\ now < MaxTime
  /\ now' = now + 1
  /\ UNCHANGED <<next_snapshot_id, switchVars, keyVars, pageVars, url, visit,
                 input_event_buffer, pending, out>>

Navigate ==
  /\ visit < MaxVisits
  /\ visit' = visit + 1
  /\ url' \in Urls \ {url}
  /\ UNCHANGED <<next_snapshot_id, switchVars, keyVars, pageVars, now,
                 input_event_buffer, pending, out>>

Next ==
  \/ SomeInput
  \/ \E req \in pending : ScreenshotCaptured(req)
  \/ Tick
  \/ Navigate

Spec == Init /\ [][Next]_vars

\* The compositor answers every copy request: CopyOutputRequest sends an empty
\* result from its destructor if nobody did.
FairSpec == Spec /\ WF_vars(\E req \in pending : ScreenshotCaptured(req))

-----------------------------------------------------------------------------
(* What the handler is for.                                                *)

ArgType == [snapshot_id : Nat, event : Nat,
            screenshot_enabled : BOOLEAN, screenshot_received : BOOLEAN,
            dom_snapshot_enabled : BOOLEAN, dom_snapshot_received : {FALSE}]
PlainKeys == Keys \cup {Unset}
CapturedMsgs == [kind : {"ScreenshotCaptured"}, id : Nat]
InputMsgs ==
  [kind : {"HandleInputEvent"}, id : Nat, type : Types, key : PlainKeys,
   worthy : BOOLEAN, shot : BOOLEAN, dom : BOOLEAN, time : Nat,
   url_before : Int, url_id : Int, visit : Nat, view : {-1, 1}]

\* The variables stay in their types.
TypeOK ==
  /\ next_snapshot_id \in Nat \ {0}
  /\ flags \in SwitchSet
  /\ take_random_snapshot \in BOOLEAN
  /\ last_key_press \in PlainKeys
  /\ last_key_press_time \in Nat \cup {Unset}
  /\ last_mouse_move_time \in Nat \cup {Unset}
  /\ web_contents \in {-1, 0, 1}
  /\ url_id \in Int /\ last_url \in Urls \cup {Unset}
  /\ input_event_buffer \in Seq(ArgType)
  /\ now \in Nat /\ url \in Urls /\ visit \in Nat
  /\ pending \subseteq [id : Nat, event : Nat]
  /\ out \in Seq(CapturedMsgs \cup InputMsgs)

\* The screenshot callback carries only an id: whenever it may run, the first
\* buffer entry with this id is the very event the screenshot was taken for.
\* (The callback dereferences what it finds without a test.)
CallbackFindsItsEvent ==
  \A req \in pending :
    \E i \in FindInputEvent(input_event_buffer, req.id) :
      /\ input_event_buffer[i].event = req.event
      /\ ~ input_event_buffer[i].screenshot_received

\* The renderer stops its main thread for an event sent with screenshot_active
\* until ScreenshotCaptured with the id of the message arrives: that message
\* is already on its way or the compositor still owes the callback for it.
WaitIsAnswerable ==
  \A k \in DOMAIN out :
    out[k].kind = "HandleInputEvent" /\ out[k].shot =>
      \/ \E j \in DOMAIN out : out[j] = CapturedMsg(out[k].id)
      \/ \E req \in pending : req.id = out[k].id

\* The k-th message: an input event, one of a pointer worth a snapshot, a key press, the
\* first worthy event after the page changed.
Event(k)     == out[k].kind = "HandleInputEvent"
Pointer(k)   == Event(k) /\ out[k].worthy /\ out[k].type \in PressTypes \cup MoveTypes
Down(k)      == Event(k) /\ out[k].type = "RawKeyDown"
NewPageAt(k) == Event(k) /\ out[k].url_before \notin {Unset, out[k].url_id}

\* The coin of the randomized mode is tossed once per page: of the pointer
\* events worth a snapshot on one page either all are recorded or none is.
OneDecisionPerPage ==
  \A i, j \in DOMAIN out :
    Pointer(i) /\ Pointer(j) /\ out[i].url_id = out[j].url_id
      => out[i].shot = out[j].shot /\ out[i].dom = out[j].dom

\* Selective mode does not record typed text: a key press is recorded only if
\* no key was pressed on this page before, or after an idle interval, or if it
\* differs from the key before it and one of the two is a select input.
KeyCaptureHasAReason ==
  \A i, j \in DOMAIN out :
    /\ i < j /\ Down(i) /\ Down(j)
    /\ out[j].shot /\ flags.shot = "default"
    /\ \A k \in i + 1 .. j - 1 : ~ Down(k)
    => \/ \E k \in i .. j - 1 : NewPageAt(k)
       \/ out[j].time - out[i].time > Interval
       \/ /\ out[i].key # out[j].key
          /\ {out[i].key, out[j].key} \cap SelectKeys # {}

\* What is recorded is decided by the rules of the mode, over any sequence of keys and
\* moves: one coin per page, and no typed text (HandleInputEvent, snapshot_handler.cc:312-470).
CaptureIsDecided == OneDecisionPerPage /\ KeyCaptureHasAReason

\* An event that waits for a screenshot alone is Ready in the end.
ScreenshotOnly(id) ==
  \E i \in FindInputEvent(input_event_buffer, id) :
    ~ input_event_buffer[i].dom_snapshot_enabled
ReadyEntry(id) ==
  \E i \in FindInputEvent(input_event_buffer, id) :
    Status(input_event_buffer[i]) = "Ready"
ScreenshotOnlyBecomesReady ==
  \A id \in 1 .. MaxEvents : ScreenshotOnly(id) ~> ReadyEntry(id)

=============================================================================
