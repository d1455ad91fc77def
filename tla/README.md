# Verification of ChromePic

ChromePic is a modified Chromium browser that records user input together with
a screenshot and a DOM snapshot of the page, taken just before each recorded
event takes effect. This directory holds TLA+ models of the parts of that
program which decide, order, wait and answer, the TLC runs that check them on
small instances, and TLAPS proofs of what holds on every instance. Source paths
below are relative to `src/src/`; the commit contains only the files the project
changed or added, so callers that live in other Chromium files are modelled by
what the present files need of them, and are marked external in `PROJECT.json`.

## 1. The system

### Threads and processes

```
 browser process                                   renderer process
 ---------------                                   ----------------
 UI thread                                         IO thread
   RenderWidgetHostImpl  <------ IPC channel ----->  InputEventFilter
     InputRouterImpl                                 | (posts)
       SnapshotHandler                             compositor thread
   MHTMLGenerationManager                            InputEventFilter::ForwardToHandler
   DelegatedFrameHost / Android view                 | (posts)
 compositor (GLRenderer, read-back)                main thread
                                                     RenderWidget, RenderFrameImpl
```

An input event goes view -> `RenderWidgetHostImpl` -> `InputRouterImpl` ->
`SnapshotHandler` -> IPC -> `InputEventFilter` -> `RenderWidget`. The handler
asks the view for a copy of the surface; the answer comes back to the handler
and from there, as `InputMsg_ScreenshotCaptured`, to the renderer, whose main
thread spins until it knows the id of the event it was given. The answer (ack)
of the event goes back to `InputRouterImpl`, which may then release a held one.

### Inventory

For each component: the state it keeps, what it does, with whom, what is hard
about it and what makes it correct.

**Snapshot handler** (`content/browser/renderer_host/snapshot/snapshot_handler.*`,
`input_event_arg.*`). State: the next id, the buffer of events that wait for
their pictures, the last key, last key and mouse times, last URL and its number,
the coin of the randomized mode. Operations: judge an event, number and buffer it,
request the copy, send the event; the screenshot callback. It talks to
`InputRouterImpl` (its owner and sender) and to the view's copy request. Hard: the
callback carries only an id and may run inside the request; the page change is
noticed in the middle of handling an event; rules about sequences of keys. Correct
when each callback finds its event, each wait can be answered, and what is recorded
follows the rules of the mode.

**Screenshot barrier in the renderer** (`content/renderer/input/input_event_filter.*`,
`screenshot_status.*`, `OnHandleInputEvent` of `content/renderer/render_widget.cc`).
State: routes, the process-wide set of captured ids, the task queues of three
threads. Operations: receive, bounce over the compositor thread, record an id, offer
to the compositor's input handler, wait. Hard: the waiting thread does not run its
queue; routes come and go between messages; ids are counted per widget but collected
per process; crashes. Correct when an event is handled only after its screenshot,
in order, and always in the end.

**Input router** (`content/browser/renderer_host/input/input_router_impl.*`). State:
for moves, wheels, gestures, selections and carets a pending flag and what is held
behind it; the unanswered keys; the number of flings; an open flush request.
Operations: send or hold each class, coalesce, acks, flush. Hard: an ack may run
inside the send that caused it; classes are answered independently; acks name only
a type. Correct when nothing is lost, reordered, stuck or matched with the wrong key.

**RenderWidgetHost** (`render_widget_host_impl.*`). State: in-flight count, hang
monitor, hidden flag, ignore flag; size and screen rectangle sent last with three
"ack pending" flags; which characters to suppress, the scroll it is in, synthetic
gestures; mouse lock, pending browser snapshots, the timer for new content, automatic
resizing. Operations: forward input, hide/show, resize, move, repaint, acks, lock and
unlock, renderer gone. Hard: everything must be forgotten with a renderer and be rebuilt
for the next; hidden widgets change without telling; timeouts; answers that come after
the view or the question is gone. Correct when the monitor blames only those who owe, the
renderer always learns its size and place, and each request is answered once.

**RenderWidget** (`content/renderer/render_widget.*`). State: size and physical
backing, flags for the next paint, device emulation, hidden, closing and swapped-out
flags, the text input states not yet acknowledged, pending input ack. Operations:
resize, repaint, hide/show, emulate, swap completion, input, commands of an input
method, close. Hard: acks travel with whatever frame is swapped next; both sides may
close; commands are made for states that are old when they arrive. Correct when each
requested ack is sent once, each widget is counted once, and no command changes another
text than it was made for.

**MHTML generation** (`content/browser/download/mhtml_generation_manager.cc`,
`OnSerializeAsMHTML` of `content/renderer/render_frame_impl.cc`). State: jobs with
their queue of frames, the busy frame, the digests of written resources, the file.
Operations: start, request, response, process exit, process host destruction. Hard:
frames vanish and processes die between requests; frames share one file. Correct
when success means a whole page and every job ends.

**RenderFrame** (rest of `render_frame_impl.cc`). State: the request a navigation
serves, the current and provisional data source, the view's place in session history,
swapped-out flag, proxy, selection. Operations: navigate, commit, fail, swap out, delete,
detach, edit commands. Hard: the parameters of a request wait for a data source that Blink
makes later; commits, detachments and messages cross. Correct when commits name their
request, both sides hold the same frame tree and every swap-out is answered.

**Copy requests and read-back** (`cc/output/copy_output_request.*`,
`content/common/gpu/client/gl_helper.cc`, and the stages in the four components below).
State: requests on each stage, the queue of read-backs. Hard: a request can be destroyed
on every stage; the GPU answers in any order; a callback may destroy the helper it runs
in. Correct when each request is answered exactly once, into memory that is there.

**Delegated frame host** (`content/browser/compositor/delegated_frame_host.cc`). State:
the frame shown, acks that wait for a commit or a draw, resources to return, the resize
lock, evicted frames. Hard: locks and timeouts, hidden views, lost contexts, renderers
that begin a new output surface. Correct when each frame is acknowledged once and under its
output, and no resource of an old output goes back under a newer one (the other direction
fails: see section 3).

**GL renderer** (`cc/output/gl_renderer.*`,
`content/browser/compositor/browser_compositor_output_surface.*`). State: a copy of the
GL context's state, a batch of quads, queries, overlays, swap rectangle, read-backs.
Hard: Skia uses the context in the middle of a frame; fences of reused queries; partial
swaps. Correct when everything is drawn with the state it was asked with and resources are
kept while they are read.

**Layers** (`cc/layers/layer.*`). State: the tree, counts of dependents and drawable
descendants, scroll and clip links, property tree nodes, copy requests. Hard: counts kept
incrementally over any sequence of calls; setters that trust a commit someone else asked
for. Correct when they are what a recount gives and a commit finds every change (all but
one setter's: see section 3).

**Layer tree host, impl side** (`cc/trees/layer_tree_host_impl.*`). State: three trees,
output surface, visibility, memory policy, UI resources, the gesture, animations, scroll
deltas. Hard: every change of what "can draw" depends on must be told; both threads scroll
the same layers. Correct when the scheduler knows whether it may draw and every scroll is
counted once.

**Android view and compositor** (`render_widget_host_view_android.cc`,
`compositor_impl_android.cc`): the Android twin of the delegated frame host, and the
browser's end of text input.

**Latency tracker** (`render_widget_host_latency_tracker.cc`,
`cc/output/latency_info_swap_promise.*`). State: component ids of the latency
records the snapshot handler reads its process and view ids from.

**Serializer** (`third_party/WebKit/.../FrameSerializer.cpp`,
`WebFrameSerializer.cpp`). Walks a frame tree and writes text.

**Logger and screenshot writer, idle user detector, plumbing, tests**: formatting
and writing of files, two forwarding lines, start-up code. Not modelled.

`PROJECT.json` lists all of them with their status, and the hazards found in them
with the source line where each bites.

## 2. Modules

Observation, from the browser's UI thread to the renderer's main thread:

| module | models |
|---|---|
| `SnapshotHandler` | one handler: decide, number, buffer, request, send, callback |
| `WitnessedInput` | abstract promise: events in order, each after its own screenshot |
| `ScreenshotBarrier` | events and screenshots from the UI thread to the main thread |
| `InputRouter` | pending flags, coalescing, acks, flush, in-flight count, hang monitor |
| `WidgetSize` | sizes, screen rectangles and repaints with their acks |
| `MhtmlGeneration` | manager, jobs, the answering frames and the shared file |

The page, instantiated together by `MCPage`:

| module | models |
|---|---|
| `FrameNavigation` | requests, data sources, commits and session history of a main frame |
| `TextInput` | a field, the input method's copy of it, their messages, the selection |
| `WidgetLife` | making, showing, hiding, swapping and closing widgets, with the counts |
| `WidgetInput` | keys and their characters, plugin scrolls, emulated touches, synthetic gestures |
| `WidgetRequests` | mouse lock, pictures the browser asks for, the timer for new content |

Answers that are owed, instantiated together by `MCAnswers`:

| module | models |
|---|---|
| `AnswerOnce` | abstract promise: each request is answered, and once |
| `FrameLife` | frames and proxies of one tree node, swaps, deletions, detachments |
| `DelegatedFrameHost` | a renderer's frames in the browser's compositor, acks, resources, resize locks |
| `CopyOutput` | a copy request from the view to the callback, through every stage |
| `ReadbackQueue` | the GL helper's transfers and their callbacks |

The compositor, instantiated together by `MCCompositor`:

| module | models |
|---|---|
| `LayerTree` | the layers of the main thread and what a commit pushes |
| `GLState` | the cached GL state, batches, stencil, scissor, filters |
| `FrameResources` | queries and fences, overlays, partial swaps, the back buffer |
| `ImplFrames` | when the host may draw, its trees, surface, memory and UI resources |
| `Scrolling` | gestures, scroll animations and the deltas shared with the main thread |

Proofs: `SnapshotHandler_proofs`, `ScreenshotBarrier_proofs`, `InputRouter_proofs`,
`WidgetSize_proofs`, `MhtmlGeneration_proofs`, and `Page_proofs`, `Answers_proofs` and
`Compositor_proofs` for the parts of `MCPage`, `MCAnswers` and `MCCompositor`. The remaining `MC...` modules are the small instances TLC runs.

**How they compose.** `ScreenshotBarrier` composes the handler's protocol (id, request,
event) with the renderer's threads and keeps of the handler only what the wait depends on;
what the handler decides is `Decisions` there, and is worked out in `SnapshotHandler`. What
`ScreenshotBarrier` assumes of the answer to a request, `CopyOutput` shows: its
`EveryCopyIsAnswered` is the refinement of `AnswerOnce`, over the stages that
`DelegatedFrameHost`, `LayerTree`, `ImplFrames` and the GL renderer own. `ReadbackQueue`
refines the same abstract module one stage further in. `InputRouter` and `WidgetSize` share
the life of a renderer (`life`: "up", "dying" once the connection is lost, "down" once
`RendererExited` ran and the view is gone) but no variable.

`MCPage`, `MCAnswers` and `MCCompositor` each instantiate several modules that share no
variable in the code either. A behaviour follows one of them, named by the variable `part`,
which never changes; the others rest in one initial state. Nothing is lost by this: a step
of one cannot enable, disable or change anything of another, so the states of the product
would be all pairs of the states explored here. Where a name of a module is taken by
another (`host`, `frames`, `sent`), the instance renames the variable.

Names beginning with `Bug` are plausible mistakes kept beside the operator they
change. No specification uses them: they show that each property notices the error
it is about.

### SnapshotHandler

Variables carry the names of the members (`next_snapshot_id`, `last_key_press`,
`last_mouse_move_time`, `url_id`, `take_random_snapshot`, `input_event_buffer`).
`out` is every message given to the sender. `HandleInputEvent` is the whole method:
`SnapshotWorthy` and `Wanted` are the predicates with `Muted` and `FreshKey` for the
key rules; `LookUpView` is the single attempt to find the view; `UpdatePage`,
`RandomizeSnapshot` and `UpdateLastInputs` are the page change; `Deliver` is the push,
the request and the message, in the source's order, with `sync` for a copy that fails
inside the request and so runs the callback first. `ScreenshotCaptured(req)` is the
callback. `Tick` and `Navigate` are the environment. File names, log lines and the
pixels are left out; modifier keys play no role in the decisions.

### ScreenshotBarrier and WitnessedInput

A *ticket* is (widget, handler, id): the code has only the id, the model carries the
rest so that properties can tell screenshots apart. `SendScreenshotAck` is the early
ack of `GLRenderer`, `ScreenshotCaptured` the final one: the renderer hears twice.
`OnMessageReceived`, `ForwardToHandler`, `OnHandleInputEvent` are one step each of the
IO, compositor and main thread; a waiting main thread is one whose step is not enabled
(`Released`). `RendererExited` empties the process and replaces the handlers, whose
ids start again at 1. `DidAddInputHandler` and `DidRemoveInputHandler` change `routes`.
Left out: overscroll bundling and the acks (they are `InputRouter`'s).

`WitnessedInput` has three variables: what is offered, what was witnessed, what took
effect. `WitnessPromise` maps `offered` to the input events in the main queue, the
compositor queue and the channel, in that order, and `witnessed` to `answered`.

### InputRouter

`lane[l]` is [pending, held] for the five classes that hold events back: they share
one shape and differ in `Hold`, how an event joins the held ones. The source recurses
(ack, send, client consumes, ack, ...) where the model takes one step, `Drain`:
of the queue, the first `k` events end in the browser, the next goes to the renderer,
the rest stays. `k` ranges over what `FilterInputEvent` may do. `widget` is the
host's count, monitor and hidden flag. `seen` and `offered` are histories; an event's
number is its place in `seen`, and `of` lists the user events a coalesced one
stands for. `latest`, a history too, is the number of user events there were when
an event was let go last: each that leaves cancels the held mouse move, and `Mark` keeps
it with every action. Left out: the touch queue, touch actions and tap suppression (external
code); the gesture queue is taken as a plain FIFO; the view consumes no flings or
keys; the renderer answers each class in order but the classes independently.

### WidgetSize

`host` holds the flags of `RenderWidgetHostImpl` (`resize_ack_pending_`,
`repaint_ack_pending_`, `waiting_for_screen_rects_ack_`, `old_resize_params_` as
`old`, `last_rect`), `rw` those of `RenderWidget` (`next_paint_flags_` as two
Booleans, the emulator's original size). A browser operation works on a *step*, the
host with the messages sent so far, so that one that calls another (`WasShown` ->
`SendScreenRects`, `WasResized`) is one action with its messages in order.
`Draw` and `ContentChanges` are the external compositor; `CreateRenderView` is the
external caller that gives a new renderer its first size. Left out: automatic
resizing, plugin windows, the synchronous mode of layout tests; closing is in
`WidgetLife`.

### MhtmlGeneration

`id_to_job[j]` is the live job; `AfterSend`, `IsLast`, `IsDone`, `CloseFile`,
`MergeDigests` are its methods. `OnSerializeAsMHTMLResponse` has one disjunct per
way out: unknown job, failed response, wrong frame, next frame or end.
`OnSerializeAsMHTML` writes header, parts and footer; each write may fail and
ends the sequence. The detach of a frame reaches the browser after the responses it
sent. `astray` records that a request was sent to nobody.

### FrameNavigation

`frame` is one record: the members of `RenderFrameImpl` (`pending_navigation_params_` as
`pending`, `is_swapped_out_`) and those of its view (`history_list_offset_`, `history_list_length_`,
`page_id_`, `suppress_dialogs_until_swap_out_`), the document with its data
source, and the provisional one. Blink calls back before a request returns, so a handler is
a chain of operators on this record and a step is one entry into the frame: a browser's
request, a load of the page, a redirect, a failure, a commit, a stop, a swap-out. `said` has
the messages of the step about session history. `browserSide` is the command-line switch
`IsBrowserSideNavigationEnabled`, fixed for a behaviour. The browser's list of entries and
its inbox are external.

### TextInput

`page` holds the field, its selection, the states not yet acknowledged
(`text_input_info_history_`), and the guards; `ime` is the browser's copy. Of a text only the
length is kept. Each `ImeCommandArrives` is one IPC handler, guarded by
`ShouldHandleImeEvent`; `EditCommandArrives` is `OnCut` ... `OnReplaceMisspelling`;
`AckArrives` is `OnImeEventAck`. `astray` records what first kept the two copies apart for a
reason outside the guards (a state that comes back, an edit nobody reported).

### WidgetLife

`rw[w]` is the renderer's object and `rwh[w]` the browser's, for a view, a popup the
renderer makes itself and the widget of a frame. `thread` has the three counts of
`RenderThreadImpl` and `RenderProcess`, `visible` that of `RenderProcessHost`. `leaks` records
what is known to stay counted: a host destroyed while visible, a move asked for when swapped
out, a widget that asked to close while swapped out, a popup whose creation failed.

### WidgetInput

`ForwardKeyboardEvent` is one action over the raw key, the character and the release, with
the listeners asked in turn; `ForwardGestureEvent` wraps an update that a plugin sends
back into a scroll of its own; touches keep who made them. Requests for synthetic gestures
and their news cross two channels. What a dropped or crossed event leads to is kept as
history.

### WidgetRequests

`lock`, `waiting`, `load` are members of `RenderWidgetHostImpl`; the page's belief about the
mouse, the questions put to the user, the frames on their way to the screen and the pictures
being taken are external. `Granted` and `Answered` are the two places where an answer has to
find what it was asked for.

### FrameLife

One node of the frame tree in one process: `frames` and `proxies` by routing id, `slot` the
object Blink's tree has for the node, `widgets` the frames whose widget is open. The browser's
part (`host`) is external: what it shows, what it prepares, whom it told to leave. Channels
keep their order. `lost` marks a behaviour in which a frame was deleted by the page just after
it took the place of its proxy, which the browser cannot know.

### DelegatedFrameHost

`d` is the host object (`can_lock_compositor_`, `pending_delegated_ack_count_`,
`skipped_frames_`, `skipped_latency_info_list_`, `resize_lock_`, `surface_returned_resources_`,
...); `ui` the compositor and view, `rd` the renderer, `wire` the frames between. Both modes,
with surfaces and without, are initial states. Frames are told apart by output surface and size.

### CopyOutput, ReadbackQueue and AnswerOnce

`CopyOutput` has one variable per stage a request can be in (`copy_requests`, `pending`,
`active`, `reads`, `tasks`, `helper`) and one step for what moves or destroys requests
there: a commit, an activation, a draw that succeeds or is aborted, a read-back, a task, the
loss of the output surface, the destruction of the host. `acked` are the early
`SendScreenshotAck`s. `ReadbackQueue` is the helper's `request_queue_` and
`FinishRequestHelper`; a video frame makes three requests of which only the last carries the
callback. `AnswerOnce` has the two variables `asked` and `answer`.

### LayerTree

`layer[l]` has the members of a `Layer` object; `Features` chooses which of transforms,
drawing, scroll links and clip links a behaviour uses, since each has a setter and a count of
its own. `behind` are the layers the impl thread has an old version of, `committed` the tree
it was given, `nodes` the transform nodes of the property trees: what the counts and flags
have to agree with. `SetProperty` stands for the setters that end in `SetNeedsCommit`.
`SetIsContainerForFixedPositionLayers` does not always, so it has a definition and a feature
of its own. `NothingIsLeftBehind`, and with it `LayersAgree`, speaks of every change but those
of that flag for which no push is asked. Values that animations set
(layer.cc:1749-1802) and flags that come with a transform are not modelled.

### GLState

`cached` are the `*_shadow_` members, `context` the state of the GL context, `batch` the
texture quad cache. Every operator takes and gives the record of all of them, so that a draw
is one step that performs its calls in order. `wrong` collects how a quad differed from what
was asked when it was finally drawn.

### FrameResources

`queries` is `pending_sync_queries_`, `available_sync_queries_` and `current_sync_query_`;
`fence[f]` the query by which the resources of frame `f` are released. `display` and
`finished` are the external display and GPU.

### ImplFrames

`h` is the `LayerTreeHostImpl` with its three trees; `announced` is what the scheduler was
told last by `OnCanDrawStateChanged`. Handlers are operators on `h`, for they call each other
(`ReleaseOutputSurface` from `InitializeRenderer`, `EvictAllUIResources` from `SetVisible`).

### Scrolling

`sync[l]` is the external `SyncedProperty`, with the offsets as both threads know them; `total`
is what was ever scrolled. A gesture, its updates, wheel animations, page scale animations, the
main frame (sent, applied, changed by a script, aborted or committed) and the activation
are one action each. `AnimatePageScale` is one tick: any tick scrolls the viewport, but only the
last one asks for a commit. So `DeltasAreSent` - what the main thread does not know is on its way
or a commit is asked for - excuses a page scale animation while it runs; once it is over, what its
ticks scrolled has to be asked for like anything else. `input.moved` holds the layers that a gesture has moved since it last chose
one: it is emptied by a pinch, which takes the viewport, and by a page of a wheel that goes on to
another layer (`ScrollVerticallyByPage` sets `CurrentlyScrollingLayer` on its way, locked or not).

## 3. Runs

Passing runs. A property named after a promise is the conjunction of the invariants its module
lists above it; each is stated there by itself.

| run | instance | properties, and what each would catch |
|---|---|---|
| `snapshot_handler` | 3 events of 3 types, a select and a plain key, 2 URLs, one navigation, one tick, 2 sets of switches | `CallbackFindsItsEvent` (a shared or wrong id), `WaitIsAnswerable` (a renderer that waits for a number nobody reports), `CaptureIsDecided` (coin tossed for each event, typed text recorded), `ScreenshotOnlyBecomesReady` (an entry that waits for a part nobody asked for) |
| `barrier_shared` | 2 widgets in 1 process, 2 events, a crash, a route change | `ReleasedByItsId`, `InOrderWhileRoutesStable`, `NoHangWhileRouted` |
| `barrier_promise` | 2 widgets in their own processes, no crash, no route change | `ReleasedByItsOwnScreenshot`, refinement `WitnessPromise` |
| `input_router` | 2 events out of 9 in 7 classes, 3 of one class or of moves, gestures and keys, 4 moves and gestures; crashes and reloads | `LanesAreSound` (pending without flight, lost events), `UserIsObeyed` (order, keys and their answers), `DebtIsKnown` (in-flight count, flings, blame without debt), `HangMonitorWatches`, `DidFlushMeansIdle`, `HeldEventsLeave` |
| `widget_size` | an empty view, one without backing, two drawable ones; 2 places; at most 2 waiting messages when the user acts | `SizeKnown`, `RectsKnown`, `AcksAreOwed`, `SizeArrives`; deadlock |
| `mhtml` | 2 jobs, a main frame, a child in its process, a child in another; 2 resources; writes succeed or fail | `FileIsThePage` (success without a frame, a resource twice), `OneHonestWriter` (two frames write, an honest renderer is killed), `JobEnds` |
| `page` | 3 loads over 2 session entries, both navigation modes; 4 edits on 2 letters; 3 widgets with 5 acts; 1 touch, 2 gestures, 1 listener; 2 requests for the mouse, 2 pictures, 3 pages | `HistoryIsTrue`, `TextIsShared`, `WidgetsAreCounted`, `InputIsInOrder`, `RequestsAreKept` |
| `answers` | 6 routing ids; 2 sizes, 2 output surfaces, 3 unasked events; 2 copy requests; 3 read-backs | `TreesAgree`, `SwapOutIsAnswered`, `FramesGoHome`, `FramesGoOn`, `CopiesHaveOnePlace`, `MemoryIsSafe`, refinements `EachRequestIsAnswered` |
| `compositor` | 3 layers, 5 calls; 2 rectangles, batches of 2, 2 quads; 2 queries, 2 regions, 5 frames; 1 UI resource, 5 events; 1 scrolled layer in the two of the viewport, 4 moves | `LayersAgree`, `DrawnAsAsked`, `FramesKeepTheirResources`, `HostIsReady`, `ScrollsAreCounted` |

Each passing run also checks its module's `TypeOK`, by itself or in one of the conjunctions
(for `barrier_promise` and `barrier_shared` it is proved instead). Deadlock is not checked where
the system may rest: when the events of the bound are used up, or, in `ScreenshotBarrier`, when
a main thread waits for a screenshot that was lost with its route.

Three properties say less than one might ask for, because the code does less:

* `FramesGoHome` has `OldResourcesKeepTheirName`: resources of an old output do not go back under a
  newer one, which is what the code takes pains for (delegated_frame_host.cc:417-428). The other
  direction fails in the model and the code, though "resource ids are scoped by the output surface"
  (404): a frame of output 1 still waits for its acknowledgement, the renderer begins output 2, a
  frame of it arrives and its resources are given up, and the late acknowledgement of output 1 takes
  them along (`SendDelegatedFrameAck`, 539-548). TLC finds this with `back.to = o` in that invariant.
* `LayersAgree` does not count the container flag where its setter asks for no push. A layer made
  the container of fixed layers while a commit is already asked for is not marked, and neither that
  commit nor a later one is sure to push the flag (layer.cc:1167); nor is it when its first fixed
  descendant comes only afterwards (1171). The model takes these steps; an invariant that compares
  the flag of both threads is violated by them.
* `ScrollsAreCounted` excuses deltas the main thread was not told of while a page scale animation
  runs: only its last tick asks for a commit (layer_tree_host_impl.cc:3288-3297).

Runs that find a disagreement between the code and what it says of itself:

| run | what TLC shows |
|---|---|
| `shared_process` | Ids are counted per widget and collected per process, so the screenshot of one widget releases the event of another. |
| `emulated_ack` | The device emulator works out for itself whether a resize ack is due, and drops a requested one when only the physical backing is new. The host then sends no size any more. |
| `widget_leak` | A popup whose creation the browser refuses is destroyed with its WebWidget, against the assertion of its destructor. |

Met while modelling, kept in the models, and not runs of their own:

* the first mouse move on a page is judged with the time of the last move on the page before;
* a wheel event consumed on the compositor thread does not wait for its screenshot;
* the ack of a key, a selection or a caret does not signal a flush that waits only for it, which
  stays open until a pointer event is acked (`DidFlushMeansIdle` states the direction that holds);
* an entry of the snapshot handler with a DOM snapshot waits for ever, since nothing sets
  `dom_snapshot_received` (`ScreenshotOnlyBecomesReady` speaks of the others);
* a resize may be acked by the swap of a frame drawn before it;
* a command of an input method may be applied to another state than it was made for, if the
  field returned to one the browser had acknowledged before (`CommandsFitTheState` excludes
  only this);
* the newest place of the mouse may never be told: a gesture the user made before it, held
  back until then, cancels the held mouse move when it leaves (`UserIsObeyed` states which
  moves may be dropped; no three events reach this, four do);
* a view told to move within itself while the browser moves it may stand on an entry
  it does not count (`raced` in `FrameNavigation`);
* an aborted draw gives the copy requests it carried an empty answer.

### Bounds and why they are enough

* *Three input events.* The decisions of the handler look at the previous key, move
  and page only: an event, one between, and one judged. In the router (`FewEvents`) any two
  classes meet, and three events of one class give one unanswered, one held and one that joins,
  replaces or overtakes it; every rule of `Hold` and every ack with a held successor is reached.
  The rules that look at another class are those of moves, gestures and keys, so three events may
  be of these. A fourth, of moves and gestures only, lets a move and a gesture be held at the same
  time, each behind its own. The proofs remove this bound for all four invariants of the router.
* *Two events in the barrier.* A confusion needs one screenshot and one event that is
  not its own; a reordering needs two events. The proofs remove this bound for the
  properties they cover.
* *One crash, one route change, one navigation.* Each is reached between any two steps;
  a second one finds the state the first left. `input_router` and `widget_size` have
  no bound on crashes and reloads at all.
* *`Interval` 0 and one tick* make "within the interval" and "after it" both happen.
* *`MaxChannel` 2* limits only when the user acts, not what handlers send; channels
  grow longer from acks.
* *Three frames in two processes* give a last frame, a middle one and one whose process
  dies alone.
* *Three loads, two session entries*: one load commits, one is pending and one overtakes it;
  with two entries the list is full and forgets ahead of the place.
* *Five acts on three widgets*: make, show, hide, close from one side, close from the other.
* *Six routing ids*: a node, its proxy, and two navigations that come and go.
* *The size of a frame* is only compared, so the renderer of `answers` starts with one of the two.
* *Three read-backs*: one finished behind one that is not, and one made by a callback.
* *Three layers*: a chain of two below the root is what a count has to climb; five calls
  cut it and put it together again between two commits.
* *Two queries, five frames*: the limit is reached and the first query serves a third frame.
* *Four moves*: one under way, one behind the main frame, one by script, one after an abort. Every
  tick of an animation but its last costs a move too, so a page scale animation has up to three
  ticks on its way, before and behind a main frame.

The bound of every counter is a guard on an action of the environment, never on a
handler.

Five constants leave a kind of environment out of the runs, since with it a property named
here fails at once; the branches are in the models and can be turned on:

* `MayDrop` FALSE: no embedder suppresses an error page. With one, the parameters of the failed
  request serve the next load (`HistoryIsTrue`; the source says of the branch that it should
  not exist).
* `EmptyFrames` FALSE: renderers send no empty frame; its ack would wait for a surface that
  never draws (`FramesGoHome`).
* `MasksDraw` FALSE: masks and replicas draw nothing. `SetMaskLayer` does not count their
  drawable content, while `SetIsDrawable` on them does (`LayersAgree`).
* `SkiaTouches` leaves out `scissorRect` and `equation`: `RestoreGLState` sets neither the scissor
  rectangle (unless the test is on) nor the blend equation again, so a Skia that changes them would
  clip or blend the quads after a filter (`DrawnAsAsked`).
* `AnimationHosts` {TRUE}: without an animation host each layer animates by itself, and an
  animation that ends takes the layer from a gesture that has begun since (`ScrollsAreCounted`).

### Fairness

* `SnapshotHandler`: weak fairness of the screenshot callbacks together.
  `CopyOutputRequest` sends an empty result from its destructor, so every request is
  answered; `CopyOutput` checks this.
* `ScreenshotBarrier`: the same, and weak fairness of each thread of each process. The
  message loops run; a main thread that waits has no enabled step and is owed none.
* `InputRouter`: the renderer answers and the browser reads. `HeldEventsLeave` speaks
  of a connection that lasts. Nothing makes the hang monitor fire.
* `WidgetSize`: both message loops run, a visible renderer draws what is damaged, a
  swap completes. Nothing makes the user act, a process crash or emulation change;
  `SizeArrives` assumes that the view settles and that the widget stays visible.
* `MhtmlGeneration`: messages are delivered and live frames answer. `JobEnds` assumes
  that no request went astray: the code ignores the result of `Send`, and a frame
  removed before it is asked never answers, so such a job hangs (see `hazards`).
* `MCAnswers`: for the behaviours that follow a part, the fairness of that part.
  `FrameLife`: both ends take what reaches them. `DelegatedFrameHost`: message loops run, the
  compositor commits and draws while attached and not locked, locks time out, and a renderer
  with something to paint paints. `CopyOutput`: commits, activations and draws
  that were asked for happen, and tasks run; draws may be aborted for ever. `ReadbackQueue`:
  the GPU signals every query or the helper goes. Nothing makes a user, a page or a lost
  context act.

`MCPage` and `MCCompositor` state safety only, and no fairness.

## 4. Proofs

All hold for every value of the constants that satisfies the named assumption of the
module (`HandlerAssumption`, `BarrierAssumption`, `RouterAssumption`, `SizeAssumption`,
`MhtmlAssumption`; for the parts of `MCPage`, `MCAnswers` and `MCCompositor`, `PageAssumption`,
`AnswersAssumption` and `CompositorAssumption`). The assumptions give
the constants their types; beyond that `RouterAssumption` says that only a gesture is a
fling, `MhtmlAssumption` that no frame is twice in the page, `CopyAssumption` that "no answer"
is not an answer, and `GLAssumption` that "no program" is not a program. `MaxEvents` and the like are any numbers.

No property below is inductive as it stands. What has to be added is said with each.

**`SnapshotHandler_proofs`**
* `TypeCorrect`: `Spec => []TypeOK`.
* `CallbackIsSafe`: `Spec => []CallbackFindsItsEvent`. Inductive with `BufferSound`
  (ids in the buffer are different and below `next_snapshot_id`: so the id of the next
  entry is new) and `RequestsSound` (each open request has an unanswered entry and an id
  no other open request has: so marking one entry spares the others). The lemmas on the
  buffer are stated for any sequence and cited by both steps, sending and callback.
* `WaitsAreAnswerable`: `Spec => []WaitIsAnswerable`. `Answerable` is inductive by itself
  once requests have ids of their own.
* `RecordedByTheRules`: `Spec => []CaptureIsDecided`. The property compares two messages that
  may lie far apart, the handler has only its members. `PageDecided` says that the coin in
  `take_random_snapshot` is the one by which every pointer event of this page was recorded,
  `KeyRemembered` that `last_key_press` and its time are those of the last key message, as long as
  the page is the same; a step sends one event message at the end (`Sent`), which is compared
  with the members instead of with the history.

**`ScreenshotBarrier_proofs`**
* `TypeCorrect`: `Spec => []TypeOK`.
* `ReleaseIsEarned`: `Spec => []ReleasedByItsId`. The property is not inductive: an
  event is released by the set of captured ids, which was filled from queues, which
  were filled from the channel. `IInv` adds `QueuesSound` (every `ScreenshotCaptured`
  under way is of an answered ticket of this process, every message is in the queue of
  the process that hosts its widget) and `CapturedSound` (every captured id is that of
  an answered ticket of the process). A crash keeps it, because it only empties queues,
  and a new handler only makes new tickets.
* `OwnScreenshotWhenUnshared`: if no two widgets share a process and there is no crash,
  `ReleasedByItsOwnScreenshot`. It adds that every ticket is of the first handler: then
  widget and id determine the ticket. `shared_process` shows that the first
  hypothesis is needed.
* `InOrder`: `Spec => []InOrderWhileRoutesStable`. `EventsInLine` says that the events of a widget
  ascend along taken, main queue, compositor queue, channel, and that a widget without a route
  has nothing in the compositor queue. The last is the point: only a change of routes opens a
  second way past events that wait.

**`InputRouter_proofs`**
* `MonitorIsOn`: `Spec => []HangMonitorWatches`. `Watched(w)` is stated for any record, one lemma
  shows that each operation on the widget keeps it, and the step of each action cites those.
* `NoLaneIsStuck`: `Spec => []LanesAreSound`. `Ledger` joins types, `Flight` (per class the pending
  flag is the number of unanswered events, and the in-flight count is the sum over the counted
  classes), `Calm` (without a debt no monitor and no blame) and `FlingsKnown`. Which events
  `Drain` lets go is described by one lemma, so that the ways into it share the argument.
* `BooksAreRight`: `Spec => []DebtIsKnown`. For flings, a balance alone is not inductive: a stop
  could find the count at zero. `Chain` says that the answers under way, taken one by
  one, lead from the browser's count to the renderer's without passing below zero. For keys, `Keys`
  says that the unanswered keys, first those on their way back and then those on their way to the
  renderer, ascend and are those of the queue: then the head of each is the least of one set.
* `FlushIsHonest`: `Spec => DidFlushMeansIdle`. With `Ledger`, nothing pending (`Pending`) means that
  nothing is held, unanswered or flinging.
* `NothingIsLost`: `Spec => []UserIsObeyed`. `Line` adds, for every class, that what is held may still
  follow what was let go (`Follows`), that of the selections that wait the last is the last the
  user made (`Selects`), and `Kept`: every user event was let go, is held or was replaced. Lemmas
  follow the three things that happen to a line: an event joins it, some leave it, and an event
  of another class passes it.

**`WidgetSize_proofs`**
* `SizeIsKnown`, `RectsAreKnown`: `Spec => []SizeKnown`, `Spec => []RectsKnown`. The
  inductive invariant `Known` has the types of host, view and place and
  `life = "down" => host.hidden`. The host decides by what it sent last and by its
  pending flags, so nothing about the channels is needed. The last conjunct
  is: a reload starts hidden, and the show that follows sends the size again.
* `AcksAreBooked`: `Spec => []AcksAreOwed`. Here the channels matter. `Books` counts each kind of ack
  over both channels and the widget, and `Told` follows the size the renderer will have been
  given after each message under way: the emulator acks by comparing sizes, and acks nothing
  unasked only because a new drawable size always comes with a request for an ack.

**`MhtmlGeneration_proofs`**
* `WritersTakeTurns`: `Spec => []OneHonestWriter`. `Protocol` adds that a live job is busy with one
  frame and has told nobody anything (`JobsRun`), and that whoever has or had a request of the job
  is that frame, in a live process the job observes (`WritersAreAsked`).
* `SavedFileIsThePage`: `Spec => []FileIsThePage`. `Pages` adds that every frame the page still has
  was written, is being written or is queued (`Covered`), that the request carries what the job has
  collected (`Asked`), and how far the file is before and after the answer (`Waiting`, `Answered`).
  A failed or detached frame ends the job without success, so `Answered` asks for nothing there.

**`Page_proofs`**, for any behaviour of `MCPage`
* `RequestsAreAnswered`: `Spec => []RequestsAreKept`. That the browser and the page agree about the
  mouse when nothing is under way says nothing of a step in between. `MouseKept` says where they are
  heading: the host holds the mouse exactly if the last word on its way to the page (`WillHold`) says
  so, and a page that asks has its question in the channel, with the user, or answered by a word
  under way, and only one of these (`Agreed`); a renderer that is gone has no view and nothing under
  way. `PicturesKept` adds that an id not yet given out has no answer, so that the next picture is new.
  `TimerKept` adds that while
  the timer is believed, commits and paints are at most one apart. The lemmas say what appending, delivering
  and dropping a word does to `WillHold` and to the number of messages of a kind.
* `InputInOrder`: `Spec => []InputIsInOrder`. Each of the four members has its own step lemma, and
  the others rest meanwhile. `KeysKept` adds that while the last key is the browser's, its characters
  are being suppressed: so no character goes to the page between the key and its own. `GesturesKept`
  adds `Underway`, that the gestures queued in the page and those waiting for the browser are all
  different and none of them is counted as lost: so a view that goes with its queue loses exactly as
  many as were in it. Until then the callbacks are in the order of the gestures.
* `HistoryStaysTrue`: if `MayDrop` is FALSE, `Spec => []HistoryIsTrue`. A handler passes one frame
  record through several operators, so each operator has a lemma about any frame that is `Sound`: its
  data source carries the request that caused it (`Serves`), what it said so far is true (`AllTrue`)
  and the entry it shows is the one its page id names. Two facts about the browser's side are needed:
  `Remembers`, that it keeps only entries the frame has numbered, and `Stands`, that a move under way
  which nothing has overtaken has no new entry in its way and will find its own. The hypothesis is
  about the embedder. The attempt also corrected the model: `raced`, which excuses
  a view the page moved while the browser moved it, was cleared by any later request, even by a script
  that left the overtaken move under way. TLC needs three entries and four loads to see it; the proof
  stopped at the step.
* `WidgetsStayCounted`: `Spec => []WidgetsAreCounted`. Between a step of the browser and its word's
  arrival the counts of the two sides differ, and a count says nothing of a widget that is about to
  be made or closed. So `LifeKept` says for each widget what the words under way will make of it: the
  first word to it is the one that makes it (`MadeFirst`), and nothing is said by it or of its moves
  before; a widget that is there or will be (`Live`) is as hidden and as swapped out as its host says once
  the last such word has arrived (`Agrees`, with `Says` for the last word), is swapped out and in by turns
  (`ByTurns`, so that `AddRefProcess` and `ReleaseProcess` alternate), and is told to close if its
  host is gone (`Grown`); each pending move is a request, an acknowledgement or one nobody heard (`Owes`). A word
  to a widget does not touch what is said of another (`OthersHear`), so a step is proved for the one
  widget it is about (`Steps`) and the counts change by that widget alone.

**`Answers_proofs`**, for any behaviour of `MCAnswers`
* `ReadbackMemoryIsSafe`: `Spec => []MemoryIsSafe`. `Reads` adds `LastTells` (nothing of a job is
  queued behind the request that tells it), `TellsOnce` and `Untold` (what is queued, and what is
  about to tell, is of jobs that were not told). Since requests are popped from the front only,
  every copy for a job is made before its callback.
* `ReadbackTellsOnce`: every step of `ReadbackQueue` is a step of `AnswerOnce` or changes nothing of
  it, by the same invariant.
* `CopiesHaveOneOwner`: `Spec => []CopiesHaveOnePlace`. `Copies` says that the six stages share no
  request, that none holds one twice, and that together they hold exactly the unanswered ones. Each
  step moves some requests from one stage to the next or answers them.
* `CopiesAnswerOnce`: every step of `CopyOutput` is a step of `AnswerOnce` or changes nothing of it.
* `FramesAreSafe`: if no frame is empty, `Spec => []FramesGoHome`. A step of the host is a chain of
  helpers, each from state to state, and in the middle of a step a frame is owed an answer for which
  nothing stands yet. So the invariant is stated of any such state: `Books` says what is owed
  (`Accounts`, with the debt that nothing stands for), what may go back under which output
  (`Ordered`: no callback is of a newer output than the last one, nothing unused or still in use of
  an older one; a callback of an older output may still come, and takes what is newer with it), and each helper has a lemma that says how it changes the debt. Between steps the
  debt is the frames on the wire, which arrive in the order of their outputs (`Travels`); that is why
  the last output only grows, and all that is collected after it is of that output or a newer one. `Locks` and `Asks` follow the
  resize lock: only `MaybeCreateResizeLock` can break `Asks`, and every caller tells the renderer the
  size before or after it. An empty frame would be counted with no callback to answer it.

**`Compositor_proofs`**, for any behaviour of `MCCompositor`
* `ResourcesAreKept`: `Spec => []FramesKeepTheirResources`. `Resources` says where a query is: begun
  for the frame that is drawn, ended and waiting in the order of the frames, or available, with room
  for the one begun even at the limit. The query of a frame is begun again only when the GPU has
  passed its fence; the overlays of the last two swaps are kept; and damage lies in the next swap
  rectangle or the next frame draws everything.
* `QuadsAreDrawnAsAsked`: if Skia leaves the scissor rectangle and the blend equation alone,
  `Spec => []DrawnAsAsked`. The invariant `DrawnSoFar` says that within a frame the copy is true
  wherever it says something (`Copies`); that the copy of the scissor rectangle is true unless it was
  reset, and was not reset while the test is on (`RectKnown`); that the target of the pass is bound;
  and that every quad that waits in the batch is exactly what the context would draw now, with the
  program and blending of the batch (`Batched`). A filter by Skia keeps all that (`SkiaFilters`), for
  it puts back what the copy says, and so each quad is drawn with what it asked for (`Painted`). The
  hypothesis is about Skia, not about this code: `RestoreGLState` sets neither of the two again.
* `ScrollsStayCounted`: if there is an animation host, `Spec => []ScrollsAreCounted`. `Books` is the
  ledger of each layer: what the main thread shows, with what was not yet sent and without what it
  has applied of the frame under way, is all that was ever scrolled; the offset of the last commit
  (`Base`) is what the main thread shows until it applies a frame; and a delta that was not sent has
  a commit asked for or a page scale animation running (`Zooms`), so that the ticks of one keep it
  and its last tick, which ends it, asks for the commit. `Gestures` says that a scroll ends
  every animation, of which there is one, and that what a gesture without propagation has moved is
  the layer it is locked to. A delta goes through a chain of any length: `Reached` says how far it may
  have come, each layer keeps it (`ApplyReaches`), and `DistributedAlong` shows by the least layer
  that breaks it that the whole way does. How far a layer can scroll is as in the
  instance; the proof uses only that it is a natural number. The attempt corrected the model: with five moves a
  wheel's pages hand a locked scroll to another layer (`layer_tree_host_impl.cc:3021-3055`), which the
  run, with four, did not reach; `OneLayerAtATime` now speaks of the time between such choices.

**Induction over data.** What a recursive definition computes cannot be proved with the library's
induction theorems, since they take an operator. Where it had to be known (the queue of frames of
a new MHTML job), the proof takes the set of the numbers for which the claim holds, shows
that it contains 0 and every successor, and uses the least element of its complement, which exists
by the library's theorem that `<` is well-founded on the natural numbers. Sequences that grow at one end and shrink at the
other need no induction: the invariants speak of places.

**Checked by TLC only:**
* liveness (`NoHangWhileRouted`, `HeldEventsLeave`, `SizeArrives`, `JobEnds`,
  `SwapOutIsAnswered`, `FramesGoOn`, `ScreenshotOnlyBecomesReady`, the second half of
  `AnswerOnce`), since fairness and ENABLED are out of reach of the installed provers;
* the refinement `WitnessPromise`, whose mapping joins filtered queues: its steps need lemmas about
  `SelectSeq` that rest on induction over sequences;
* `TreesAgree`; of `MCPage`, `TextIsShared`; of
  `MCCompositor`, `LayersAgree` and `HostIsReady`.

## 5. Not modelled, and why

* Memory growth of `input_event_buffer` and `captured_screenshots`: no operation ever
  removes an entry, so there is no bound to state.
* The width of the microsecond clock: a run would restate the overflow.
* The hang monitor while the renderer waits for a screenshot: time has no length in the models, so a
  slow screenshot and a hang cannot be told apart.
* The null view in `WindowSnapshotReachedScreen`: whether a frame can be drawn after its view is
  gone is decided outside this tree.
* `render_frame_impl.cc`: plugins, media, permissions, scripting, accessibility, and the many
  callbacks that pass one message on and keep nothing.
* `gl_renderer.cc`: anti-aliasing, shader programs, matrices. `layer.cc`: paint properties,
  serialisation. `layer_tree_host_impl.cc`: tile priorities and raster, top controls.
* `render_widget_host_view_android.cc` and `compositor_impl_android.cc` beyond text input: the
  frames follow the protocol of `DelegatedFrameHost`, the rest is touch handles and effects.
* Captures of a frame subscriber when the host uses surfaces: the request then goes straight to the
  surface (delegated_frame_host.cc:345-352), whose owner is outside this tree. `CopyOutput` has the
  way through the layer.
* The serializer keeps no state between calls and interleaves with nothing; what the MHTML
  manager relies on (one part per frame, no resource twice) is in `MhtmlGeneration`.
* The logger, file names, pixels, JSON, latency records: formatting, I/O and measurement.

## 6. Plan

Done, in this order: `SnapshotHandler`; `ScreenshotBarrier` with `WitnessedInput`;
`MhtmlGeneration`; `InputRouter`; `WidgetSize`; proofs of the handler's ids, the barrier,
the monitor, sizes and rectangles; the page (`FrameNavigation`, `TextInput`, `WidgetLife`,
`WidgetInput`, `WidgetRequests`); the answers (`FrameLife`, `DelegatedFrameHost`,
`CopyOutput`, `ReadbackQueue`, `AnswerOnce`); the compositor (`LayerTree`, `GLState`,
`FrameResources`, `ImplFrames`, `Scrolling`).

Proved since: the handler's decisions, the order of events behind the barrier, the acks of
sizes, all invariants of the router, MHTML generation, the safety of copy requests and
read-backs with their refinement of `AnswerOnce`, the resources of the GL renderer's frames, and its
quads, the requests of `WidgetRequests`, the input of `WidgetInput`, the history of
`FrameNavigation`, the counts of `WidgetLife`, the frames, resources and locks of `DelegatedFrameHost`, and the offsets and gestures of `Scrolling`.

Next theorems, most important first:

* `FrameLife`: `OneObjectPerNode`, then the whole of
  `TreesAgree`. `TextInput`: `TextIsShared`.
* `ImplFrames`: `CanDrawIsKnown`, whose inductive invariant is the property itself with the
  types.
* `ScreenshotBarrier`: the step lemmas of `WitnessPromise`.

Left to model: automatic resizing in `WidgetSize`; the Android compositor's surface and its
eviction of hidden views; latency components as operators over small inputs.
