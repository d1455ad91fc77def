--------------------------- MODULE FrameNavigation ---------------------------
(***************************************************************************)
(* Navigations of a main frame in the renderer: RenderFrameImpl carries    *)
(* the parameters of a browser's request over to the data source Blink     *)
(* makes for it, decides who handles a load the page starts, keeps the     *)
(* view's place in session history and tells the browser what committed.   *)
(*                                                                         *)
(* src/src/content/renderer/render_frame_impl.cc.  Everything runs on the  *)
(* renderer's main thread, and Blink calls back into the frame before a    *)
(* request returns, so a handler is a chain of operators on one record and *)
(* a step of the specification is one entry into the frame.  Blink's       *)
(* loader, the history controller and the browser's list of entries are    *)
(* external.  Frames that are swapped for proxies are in FrameLife.        *)
(***************************************************************************)
EXTENDS Integers, Sequences, FiniteSets, Functions

CONSTANTS
  kMaxSessionHistoryEntries,
  MaxLoads,          \* bound: loads, of the browser and of the page, and swaps
  Restored,          \* numbers of entries a tab may have before its process starts
  BrowserSideModes,  \* values of IsBrowserSideNavigationEnabled to look at
  MayDrop            \* does the embedder suppress some error pages?

NavigationAssumption ==
  /\ kMaxSessionHistoryEntries \in Nat \ {0}
  /\ MaxLoads \in Nat
  /\ Restored \subseteq 0 .. kMaxSessionHistoryEntries
  /\ BrowserSideModes \subseteq BOOLEAN
  /\ MayDrop \in BOOLEAN

VARIABLES
  frame,        \* the frame and the part of its view it uses; see Init
  browserSide,  \* IsBrowserSideNavigationEnabled, fixed for the process
  said,         \* messages of the last step about session history
  \* external
  browser,      \* [entries, last, inbox]: session history as the browser
                \* knows it and the commits it has not heard of
  \* bookkeeping
  loads,        \* loads so far
  raced         \* the frame's place in history was set while it moved elsewhere

vars == <<frame, browserSide, said, browser, loads, raced>>

-----------------------------------------------------------------------------
(* Requests, data sources and messages.  A request's id stands for the     *)
(* entry it names (nav_entry_id).                                          *)

NoRequest == [id |-> 0]
NoSource  == [cause |-> -1]

\* What Blink is asked to load.  cause is the request it serves, 0 for the page's
\* own loads; doc tells documents apart, 0 for one yet to be numbered.
Wanted(cause, url, ctype, doc) ==
  [cause |-> cause, url |-> url, ctype |-> ctype, doc |-> doc,
   of |-> NoRequest, samePage |-> FALSE]

\* What passes the filter of a frame that is swapped out.
CanSendWhileSwappedOut == {"SwapOut_ACK", "BeforeUnload_ACK", "OpenURL", "DidAssignPageId"}

Send(f, m) ==
  IF f.swappedOut /\ m.type \notin CanSendWhileSwappedOut THEN f
  ELSE [f EXCEPT !.said = Append(@, m)]
Say(f, type) == Send(f, [type |-> type])

IsBrowserInitiated(pending) == pending.id # 0 /\ pending.url # "javascript:"

NavigationStateOf(pending) == IF IsBrowserInitiated(pending) THEN pending ELSE NoRequest

\* The browser's parameters go to the first source that asks, and only to it.
BugUpdateNavigationState(f) == f
UpdateNavigationState(f) == [f EXCEPT !.pending = NoRequest]

\* The entry being left is reported under the page id it has in the view, or,
\* where the frame keeps its own entry, without one.
SendUpdateState(f) ==
  IF f.current = 0 THEN f
  ELSE Send(f, [type |-> "UpdateState", page |-> IF browserSide THEN f.current ELSE f.page,
                item |-> f.current])

-----------------------------------------------------------------------------
(* Commits.                                                                *)

\* Session history counts a new entry at most once, and forgets what was ahead.
Advance(f, src) ==
  IF src.url = "swappedout:" \/ (src.of.id # 0 /\ src.of.replace) THEN f
  ELSE LET o == IF f.offset + 1 >= kMaxSessionHistoryEntries
                  THEN kMaxSessionHistoryEntries - 1 ELSE f.offset + 1
       IN [f EXCEPT !.offset = o, !.length = o + 1]

\* The view's page id and place in history for what commits.
MoveInHistory(f, src) ==
  IF src.ctype = "Standard"
    THEN Advance([f EXCEPT !.page = f.nextPage, !.nextPage = @ + 1], src)
  ELSE IF src.of.id # 0 /\ ~ src.of.newEntry
    THEN [f EXCEPT !.page = src.of.page, !.offset = src.of.offset]
  ELSE f

\* HistoryController::UpdateForCommit, and current_history_item_: the item of the
\* document that is now current, named by the page id it is first given.
ItemFor(f, src) ==
  IF src.ctype = "Standard" THEN f.nextPage
  ELSE IF src.of.id # 0 /\ ~ src.of.newEntry THEN src.of.page
  ELSE f.current

SendDidCommitProvisionalLoad(f, src) ==
  Send(f, [type |-> "DidCommitProvisionalLoad", cause |-> src.cause, request |-> src.of.id,
           page |-> f.page, url |-> src.url, doc |-> src.doc,
           new |-> src.ctype = "Standard",
           replace |-> src.of.id # 0 /\ src.of.replace])

\* The entry being left is told before anything about the new one is set.
Leave(f, src) ==
  [SendUpdateState(f) EXCEPT !.current = ItemFor(f, src)]

didCommitProvisionalLoad(f, src0) ==
  LET src   == IF src0.doc = 0 THEN [src0 EXCEPT !.doc = f.nextPage] ELSE src0
      paint == IF src.samePage THEN f
               ELSE [f EXCEPT !.said = Append(@, [type |-> "DidFirstPaintAfterLoad"])]
      moved == MoveInHistory(Leave(paint, src), src)
      named == Send(moved, [type |-> "DidAssignPageId", page |-> moved.page])
      sent  == SendDidCommitProvisionalLoad([named EXCEPT !.doc = src], src)
  IN Say(sent, "UpdateEncoding")

didNavigateWithinPage(f, cause, ctype) ==
  LET src == [f.doc EXCEPT !.cause = cause, !.ctype = ctype, !.samePage = TRUE,
                           !.of = NavigationStateOf(f.pending)]
  IN didCommitProvisionalLoad(UpdateNavigationState(f), src)

-----------------------------------------------------------------------------
(* Loads.                                                                  *)

didCreateDataSource(f, src) ==
  UpdateNavigationState(
    [f EXCEPT !.prov = [src EXCEPT !.of = NavigationStateOf(f.pending)]])

didStartProvisionalLoad(f) == Say(f, "DidStartProvisionalLoad")

SendFailedProvisionalLoad(f) == Say(f, "DidFailProvisionalLoadWithError")

\* Blink: a load takes the place of the one before it, which hears of it first.
StartLoad(f, src) ==
  LET stopped == IF f.prov = NoSource THEN f
                 ELSE SendFailedProvisionalLoad([f EXCEPT !.prov = NoSource])
  IN didStartProvisionalLoad(didCreateDataSource(stopped, src))

\* The error page counts as the request that failed.  Its text comes with it, so
\* Blink asks nobody.
LoadNavigationErrorPage(f, cause, replace) ==
  StartLoad(f, Wanted(cause, "error", IF replace THEN "Inert" ELSE "Standard",
                      IF replace THEN f.doc.doc ELSE 0))

\* A cancelled load shows nothing, nor does one the embedder suppresses.
ShouldDisplayErrorPage(error) == error \notin {"aborted", "suppressed"}

Resumed(f, src) == IF src.of.id = 0 THEN f ELSE [f EXCEPT !.pending = src.of]

didFailProvisionalLoad(f, error) ==
  LET src  == f.prov
      told == SendFailedProvisionalLoad([f EXCEPT !.prov = NoSource])
  IN IF ~ ShouldDisplayErrorPage(error) THEN told
     ELSE LoadNavigationErrorPage(Resumed(told, src), src.cause, src.ctype # "Standard")

OpenURL(f, replace) ==
  Send(f, [type |-> "OpenURL",
           replace |-> IF IsBrowserInitiated(f.pending) THEN f.pending.replace
                       ELSE replace /\ f.length > 0])

\* willSendRequest, then the request goes to the browser, which answers later.
BeginNavigation(f, src) ==
  Send(f, [type |-> "BeginNavigation", replace |-> f.length > 0 /\ src.ctype = "Inert"])

\* A tab that shows about:blank, has no history and no opener and is sent
\* elsewhere by script is a page the browser should put in a process of its own.
IsFork(f, scripted) ==
  /\ f.doc.url = "about:blank" /\ f.offset < 1 /\ f.length - f.offset - 1 < 1
  /\ ~ f.opener /\ scripted

\* WebUI stands for every target or page that the browser must handle.
ShouldFork(f, src) == src.url # "about:blank" /\ (src.url = "webui:" \/ f.doc.url = "webui:")

decidePolicyForNavigation(f, src, content, scripted) ==
  IF f.swappedOut THEN IF src.url = "swappedout:" THEN "load" ELSE "open"
  ELSE IF content /\ (ShouldFork(f, src) \/ IsFork(f, scripted)) THEN "open"
  ELSE IF browserSide /\ content /\ src.url \notin {"about:blank", "javascript:"} THEN "begin"
  ELSE "load"

\* Blink's loader, up to the first callback that ends it.  A javascript URL of the
\* browser's runs as script of the page and makes no data source.
Load(f, src, scripted) ==
  LET content == ~ IsBrowserInitiated(f.pending)
      policy  == decidePolicyForNavigation(f, src, content, scripted)
  IN IF policy = "open" THEN OpenURL(f, src.ctype = "Inert")
     ELSE IF policy = "begin" THEN BeginNavigation(f, src)
     ELSE IF src.url = "javascript:" THEN f
     ELSE StartLoad(f, src)

-----------------------------------------------------------------------------
(* Requests of the browser.                                                *)

\* A swapped out frame is swapped back in.
PrepareRenderViewForNavigation(f, r) ==
  [f EXCEPT !.offset = r.curOffset, !.length = r.curLength, !.swappedOut = FALSE]

\* A reload needs something to reload; otherwise it goes to the entry it names.
IsReload(f, r) == r.kind = "reload" /\ ~ f.swappedOut /\ f.current # 0

NavigateInternal(f, r) ==
  LET ready == [PrepareRenderViewForNavigation(f, r) EXCEPT !.pending = r]
      done  == IF IsReload(f, r) THEN Load(ready, Wanted(r.id, r.url, "Inert", f.doc.doc), FALSE)
               ELSE IF r.kind = "new" THEN Load(ready, Wanted(r.id, r.url, "Standard", 0), FALSE)
               \* HistoryController::GoToEntry, or the item itself
               ELSE IF r.doc = f.doc.doc THEN didNavigateWithinPage(ready, r.id, "BackForward")
               ELSE Load(ready, Wanted(r.id, r.url, "BackForward", r.doc), FALSE)
  IN [done EXCEPT !.pending = NoRequest]

\* The browser found out by itself that its request failed.
OnFailedNavigation(f, r, error) ==
  LET ready == [PrepareRenderViewForNavigation(f, r) EXCEPT !.pending = r]
      told  == SendFailedProvisionalLoad(Say(ready, "DidStartProvisionalLoad"))
  IN IF ~ ShouldDisplayErrorPage(error) THEN Say(told, "DidDropNavigation")
     ELSE LoadNavigationErrorPage(told, r.id, r.kind # "new" \/ r.url = f.doc.url)

\* What is loading is given up.
OnStop(f) ==
  IF f.prov = NoSource THEN f ELSE didFailProvisionalLoad(f, "aborted")

\* swappedout:// commits before the call returns.
NavigateToSwappedOutURL(f) ==
  LET g == Load([f EXCEPT !.swappedOut = TRUE],
                Wanted(0, "swappedout:", "Standard", 0), FALSE)
  IN didCommitProvisionalLoad([g EXCEPT !.prov = NoSource], g.prov)

OnSwapOut(f) ==
  LET out == IF f.swappedOut THEN f
             ELSE NavigateToSwappedOutURL(
                    OnStop([SendUpdateState(f) EXCEPT !.swappedOut = TRUE]))
  IN Say([out EXCEPT !.suppress = FALSE], "SwapOut_ACK")

\* The question a beforeunload handler asks: not once the page was left, not while
\* the view waits to be swapped out.
runModalBeforeUnloadDialog(f, user) == f.swappedOut \/ (~ f.suppress /\ user)
OnBeforeUnload(f, user) ==
  Send(f, [type |-> "BeforeUnload_ACK", proceed |-> runModalBeforeUnloadDialog(f, user)])

-----------------------------------------------------------------------------
Init ==
  /\ browserSide \in BrowserSideModes
  /\ \E opener \in BOOLEAN, n \in Restored :
    /\ frame = [pending    |-> NoRequest,  \* pending_navigation_params_
                swappedOut |-> FALSE,      \* is_swapped_out_
                offset |-> -1, length |-> 0, \* history_list_offset_, history_list_length_
                page |-> 0, nextPage |-> n + 1,  \* page_id_, next_page_id_
                current |-> 0,             \* the current history entry
                suppress |-> FALSE,        \* suppress_dialogs_until_swap_out_
                opener |-> opener,
                prov |-> NoSource,         \* Blink's provisional data source
                doc  |-> Wanted(0, "about:blank", "Inert", 0),
                said |-> <<>>]
    /\ browser = [entries |-> [i \in 1 .. n |-> [page |-> i, doc |-> i, url |-> "page"]],
                  last |-> n, inbox |-> <<>>]
  /\ said = {}
  /\ loads = 0 /\ raced = FALSE

\* An entry into the frame commits at most once.
Commits(msgs) ==
  LET at == {i \in DOMAIN msgs : msgs[i].type = "DidCommitProvisionalLoad"}
  IN IF at = {} THEN <<>> ELSE <<msgs[CHOOSE i \in at : TRUE]>>

OnHistory(msgs) ==
  {m \in Range(msgs) : m.type \in {"UpdateState", "DidCommitProvisionalLoad"}}

\* What the frame says leaves, a commit is on its way.
Becomes(f) ==
  /\ said' = OnHistory(f.said)
  /\ frame' = [f EXCEPT !.said = <<>>]
  /\ browser' = [browser EXCEPT !.inbox = @ \o Commits(f.said)]

CountLoad == loads < MaxLoads /\ loads' = loads + 1

\* An ordinary page, one that needs no network and one the browser must open.
Urls == {"page", "about:blank", "webui:"}

\* NavigationControllerImpl makes a request from what it knows.
Request(kind, url, i, replace) ==
  [id |-> loads + 1, kind |-> kind, url |-> url, newEntry |-> kind = "new", replace |-> replace,
   page  |-> IF kind = "new" THEN -1 ELSE browser.entries[i].page,
   doc   |-> IF kind = "new" THEN -1 ELSE browser.entries[i].doc,
   offset |-> IF kind = "new" THEN -1 ELSE i - 1,
   curOffset |-> browser.last - 1, curLength |-> Len(browser.entries)]

Requests ==
  {Request("new", url, 0, replace) :
     url \in {"page", "javascript:"}, replace \in {b \in BOOLEAN : b => browser.last > 0}}
  \cup {Request("history", browser.entries[i].url, i, FALSE) :
          i \in DOMAIN browser.entries \ {browser.last}}
  \cup {Request("reload", browser.entries[i].url, i, FALSE) :
          i \in DOMAIN browser.entries \cap {browser.last}}

\* The request leaves the move that is under way as it was.
StillUnderWay == frame.prov # NoSource /\ frame'.prov = frame.prov

\* OnNavigate, or OnCommitNavigation where the browser fetched the page.
OnNavigate ==
  \E r \in Requests :
    /\ CountLoad
    /\ Becomes(NavigateInternal(frame, r))
    /\ raced' = (browser.inbox # <<>> \/ (raced /\ StillUnderWay))
    /\ UNCHANGED browserSide

FailedNavigation ==
  \E r \in Requests, error \in {"network"} \cup (IF MayDrop THEN {"suppressed"} ELSE {}) :
    /\ browserSide
    /\ r.url # "javascript:"
    /\ CountLoad
    /\ Becomes(OnFailedNavigation(frame, r, error))
    /\ raced' = (browser.inbox # <<>> \/ (raced /\ StillUnderWay))
    /\ UNCHANGED browserSide

\* The page starts a load: a link, a script, a form.
ContentNavigate ==
  \E url \in Urls, ctype \in {"Standard", "Inert"}, scripted \in BOOLEAN :
    /\ CountLoad
    /\ Becomes(Load(frame, Wanted(0, url, ctype, IF ctype = "Inert" THEN frame.doc.doc ELSE 0),
                    scripted))
    /\ UNCHANGED <<browserSide, raced>>

\* A fragment, pushState or replaceState.
NavigateWithinPage ==
  \E ctype \in {"Standard", "Inert"} :
    /\ ~ frame.swappedOut
    /\ frame.current # 0
    /\ CountLoad
    /\ Becomes(didNavigateWithinPage(frame, 0, ctype))
    /\ raced' = (raced \/ (frame.prov # NoSource /\ frame.prov.of.id # 0))
    /\ UNCHANGED browserSide

\* The server answers with a redirect: the policy is asked again, about the source.
Redirect ==
  \E url \in Urls :
    /\ frame.prov # NoSource /\ frame.prov.url \in Urls /\ frame.prov.url # url
    /\ LET src    == [frame.prov EXCEPT !.url = url]
           policy == decidePolicyForNavigation(frame, src, frame.prov.of.id = 0, FALSE)
       IN Becomes(CASE policy = "open"  -> OnStop(OpenURL(frame, src.ctype = "Inert"))
                    [] policy = "begin" -> OnStop(BeginNavigation(frame, src))
                    [] OTHER            -> [frame EXCEPT !.prov.url = url])
    /\ UNCHANGED <<browserSide, loads, raced>>

FailProvisionalLoad ==
  \E error \in {"aborted", "network"} \cup (IF MayDrop THEN {"suppressed"} ELSE {}) :
    /\ frame.prov # NoSource
    /\ frame.prov.url # "error"
    /\ Becomes(didFailProvisionalLoad(frame, error))
    /\ UNCHANGED <<browserSide, loads, raced>>

CommitProvisionalLoad ==
  /\ frame.prov # NoSource
  /\ Becomes(didCommitProvisionalLoad([frame EXCEPT !.prov = NoSource], frame.prov))
  /\ UNCHANGED <<browserSide, loads, raced>>

\* An empty document that came with an HTTP error is replaced by an error page.
FinishDocumentLoad ==
  /\ frame.doc.url = "page"
  /\ CountLoad
  /\ Becomes(LoadNavigationErrorPage(Say(frame, "DidFinishDocumentLoad"), 0, TRUE))
  /\ UNCHANGED <<browserSide, raced>>

Stop ==
  /\ frame.prov # NoSource
  /\ Becomes(OnStop(frame))
  /\ UNCHANGED <<browserSide, loads, raced>>

SwapOut ==
  /\ CountLoad
  /\ Becomes(OnSwapOut(frame))
  /\ UNCHANGED <<browserSide, raced>>

BeforeUnload ==
  \E user \in BOOLEAN :
    /\ Becomes(OnBeforeUnload(frame, user))
    /\ UNCHANGED <<browserSide, loads, raced>>

SuppressDialogsUntilSwapOut ==
  /\ ~ frame.suppress
  /\ Becomes([frame EXCEPT !.suppress = TRUE])
  /\ UNCHANGED <<browserSide, loads, raced>>

\* The page, or a frame elsewhere, gives up the opener.
didChangeOpener ==
  /\ frame.opener
  /\ ~ frame.swappedOut
  /\ Becomes(Say([frame EXCEPT !.opener = FALSE], "DidChangeOpener"))
  /\ UNCHANGED <<browserSide, loads, raced>>

\* NavigationControllerImpl::RendererDidNavigate.
BrowserHearsCommit ==
  /\ browser.inbox # <<>>
  /\ LET m    == Head(browser.inbox)
         e    == [page |-> m.page, doc |-> m.doc, url |-> m.url]
         kept == SubSeq(browser.entries, 1, browser.last)
         all  == IF m.replace /\ kept # <<>>
                   THEN Append(SubSeq(kept, 1, Len(kept) - 1), e) ELSE Append(kept, e)
         list == IF Len(all) > kMaxSessionHistoryEntries THEN Tail(all) ELSE all
         at   == {i \in DOMAIN browser.entries : browser.entries[i].page = m.page}
     IN browser' =
          [browser EXCEPT
             !.inbox     = Tail(@),
             !.entries   = IF m.new THEN list ELSE @,
             !.last      = IF m.new THEN Len(list)
                           ELSE IF at # {} THEN CHOOSE i \in at : TRUE ELSE @]
  /\ said' = {}
  /\ UNCHANGED <<frame, browserSide, loads, raced>>

Next ==
  \/ OnNavigate
  \/ FailedNavigation
  \/ ContentNavigate
  \/ NavigateWithinPage
  \/ Redirect
  \/ FailProvisionalLoad
  \/ CommitProvisionalLoad
  \/ FinishDocumentLoad
  \/ Stop
  \/ SwapOut
  \/ BeforeUnload
  \/ SuppressDialogsUntilSwapOut
  \/ didChangeOpener
  \/ BrowserHearsCommit

Spec == Init /\ [][Next]_vars

-----------------------------------------------------------------------------
(* Properties.                                                             *)

TypeOK ==
  /\ browserSide \in BOOLEAN /\ raced \in BOOLEAN
  /\ frame.swappedOut \in BOOLEAN /\ frame.suppress \in BOOLEAN
  /\ frame.length \in 0 .. kMaxSessionHistoryEntries
  /\ frame.offset \in -1 .. kMaxSessionHistoryEntries - 1
  /\ frame.page < frame.nextPage
  /\ frame.said = <<>>
  /\ loads \in 0 .. MaxLoads

\* A commit is reported for the browser's request that led to it, and a load of the
\* page for none, whatever failed, was redirected or was overtaken in between.
CommitNamesItsRequest ==
  \A m \in said : m.type = "DidCommitProvisionalLoad" => m.request = m.cause

\* The state of the page being left is filed under that page's id, across swaps,
\* error pages and commits that add no entry.
StateUpdatesNameTheirPage ==
  \A m \in said : m.type = "UpdateState" => m.page = m.item

\* A frame that is swapped out shows swappedout:// and nothing else, until the
\* browser navigates it.
SwappedOutIsBlank == frame.swappedOut /\ frame.prov = NoSource => frame.doc.url = "swappedout:"

\* The view stands on one of the entries it counts, unless the page moved within
\* itself while the browser moved it.
StandsInHistory == raced \/ frame.length = 0 \/ frame.offset < frame.length

\* What the browser hears of session history is true.
HistoryIsTrue ==
  /\ CommitNamesItsRequest
  /\ StateUpdatesNameTheirPage
  /\ SwappedOutIsBlank
  /\ StandsInHistory

=============================================================================
