------------------------------ MODULE FrameLife ------------------------------
(***************************************************************************)
(* The life of the frames of one tree node in one renderer process, where  *)
(* frames of one page may live in several processes: a node is shown here  *)
(* by a RenderFrameImpl, stood for by a RenderFrameProxy, or gone, and a   *)
(* frame can wait outside the tree until its first commit puts it in the   *)
(* place of the proxy.                                                     *)
(*                                                                         *)
(* src/src/content/renderer/render_frame_impl.cc.  The renderer handles    *)
(* one message or one callback of Blink at a time.  The proxies, Blink's   *)
(* tree and the browser's RenderFrameHostManager are external, and so are  *)
(* the channels, which lose nothing and keep their order.                  *)
(***************************************************************************)
EXTENDS Integers, Sequences, FiniteSets

CONSTANTS
  MaxIds   \* bound: routing ids the browser hands out

LifeAssumption == MaxIds \in Nat

VARIABLES
  parentLocal,  \* is the node's parent a frame of this process?
  frames,       \* routing id -> RenderFrameImpl (g_routing_id_frame_map)
  proxies,      \* routing ids of the RenderFrameProxy objects
  slot,         \* Blink's tree: which object is the node, by routing id; 0: none
  widgets,      \* frames whose RenderWidget is open
  toRenderer, toBrowser,
  \* external: what the browser believes
  host,         \* [cur, pending, proxy, leaving]: routing ids, 0 for none; cur is the
                \* frame that shows the node here, leaving those told to swap out
  nextId,
  \* bookkeeping
  lost          \* a frame was deleted just after it took its proxy's place

vars == <<parentLocal, frames, proxies, slot, widgets, toRenderer, toBrowser, host,
          nextId, lost>>

Ids == 1 .. MaxIds
Live == DOMAIN frames

-----------------------------------------------------------------------------
(* One frame.                                                              *)

\* The constructor, BindToWebFrame and Initialize: the frame is routed and known by
\* its web frame.
NewRenderFrame(proxy) ==
  [inTree  |-> proxy = 0,   \* in_frame_tree_
   proxy   |-> proxy,       \* proxy_routing_id_: the proxy it is to replace
   loading |-> FALSE]       \* Blink has a provisional load

With(id, f) == [i \in Live \cup {id} |-> IF i = id THEN f ELSE frames[i]]

\* The proxy a frame waits to replace may be gone already.
ProxyIsGone(id) == frames[id].proxy # 0 /\ frames[id].proxy \notin proxies

\* Only a removal that the page itself made is news to the browser.
DetachNews(id, type, byBrowser) ==
  IF type = "remove" /\ ~ byBrowser THEN <<[type |-> "Detach", id |-> id]>> ELSE <<>>

\* The frame leaves its place only if it has one, and keeps it for what it is
\* swapped with.
BugPlaceAfter(id, type) == IF type = "remove" THEN 0 ELSE slot
PlaceAfter(id, type) == IF type = "remove" /\ frames[id].inTree THEN 0 ELSE slot

\* frameDetached and the destructor: after the news nothing more is sent, the widget
\* closes and no message finds the frame.
frameDetached(id, type, byBrowser, news) ==
  /\ toBrowser' = toBrowser \o news \o DetachNews(id, type, byBrowser)
  /\ widgets' = widgets \ {id}
  /\ frames' = [i \in Live \ {id} |-> frames[i]]

-----------------------------------------------------------------------------
(* Messages of the browser to a frame or about one.                        *)

Receive(type) ==
  /\ toRenderer # <<>> /\ Head(toRenderer).type = type
  /\ toRenderer' = Tail(toRenderer)

Message == Head(toRenderer)

\* Under a remote parent a frame is a local root and has a widget.
CreateFrame ==
  /\ Receive("NewFrame")
  /\ IF Message.proxy # 0 /\ Message.proxy \notin proxies
       THEN UNCHANGED <<frames, slot, widgets>>
       ELSE /\ frames' = With(Message.id, NewRenderFrame(Message.proxy))
            /\ slot' = IF Message.proxy = 0 THEN Message.id ELSE slot
            /\ widgets' = IF parentLocal THEN widgets ELSE widgets \cup {Message.id}
  /\ UNCHANGED <<parentLocal, proxies, toBrowser, host, nextId, lost>>

\* A message for a frame that is gone finds no route.
Unroutable ==
  /\ toRenderer # <<>>
  /\ Message.type \in {"Navigate", "SwapOut", "Delete"} /\ Message.id \notin Live
  /\ toRenderer' = Tail(toRenderer)
  /\ UNCHANGED <<parentLocal, frames, proxies, slot, widgets, toBrowser, host, nextId, lost>>

OnNavigate ==
  /\ Receive("Navigate")
  /\ Message.id \in Live
  /\ frames' = With(Message.id, [frames[Message.id] EXCEPT !.loading = ~ ProxyIsGone(Message.id)])
  /\ UNCHANGED <<parentLocal, proxies, slot, widgets, toBrowser, host, nextId, lost>>

\* The frame makes room for a proxy and says so before it is gone: frameDetached
\* closes its mouth (is_detaching_).
BugSwapOutNews(id) == IF frames[id].inTree THEN <<>> ELSE <<[type |-> "SwapOut_ACK", id |-> id]>>
SwapOutNews(id) == <<[type |-> "SwapOut_ACK", id |-> id]>>

OnSwapOut ==
  /\ Receive("SwapOut")
  /\ Message.id \in Live
  /\ proxies' = proxies \cup {Message.proxy}
  /\ slot' = Message.proxy
  /\ frameDetached(Message.id, "swap", TRUE, SwapOutNews(Message.id))
  /\ UNCHANGED <<parentLocal, host, nextId, lost>>

\* A frame deleted for a navigation that was given up, but had committed, takes the
\* node with it.
OnDeleteFrame ==
  /\ Receive("Delete")
  /\ Message.id \in Live
  /\ slot' = PlaceAfter(Message.id, "remove")
  /\ frameDetached(Message.id, "remove", TRUE, <<>>)
  /\ lost' = (lost \/ (frames[Message.id].inTree /\ Message.givenUp))
  /\ UNCHANGED <<parentLocal, proxies, host, nextId>>

-----------------------------------------------------------------------------
(* Callbacks of Blink.                                                     *)

\* A page of this process makes a child: the browser names it at once.
createChildFrame ==
  /\ parentLocal
  /\ nextId = 1 /\ nextId <= MaxIds
  /\ nextId' = 2
  /\ host' = [host EXCEPT !.cur = 1]
  /\ frames' = With(1, NewRenderFrame(0))
  /\ slot' = 1
  /\ UNCHANGED <<parentLocal, proxies, widgets, toRenderer, toBrowser, lost>>

\* The first commit swaps the frame in for its proxy.  Without the proxy the frame
\* stays outside and says nothing.
StaysOutside(id) == ProxyIsGone(id)

didCommitProvisionalLoad(id) ==
  /\ frames[id].loading
  /\ IF StaysOutside(id)
       THEN /\ frames' = With(id, [frames[id] EXCEPT !.loading = FALSE])
            /\ UNCHANGED <<proxies, slot, toBrowser>>
       ELSE /\ frames' = With(id, NewRenderFrame(0))
            /\ proxies' = proxies \ {frames[id].proxy}
            /\ slot' = id
            /\ toBrowser' = Append(toBrowser, [type |-> "DidCommit", id |-> id])
  /\ UNCHANGED <<parentLocal, widgets, toRenderer, host, nextId, lost>>

\* The load ends without a commit.
didFailProvisionalLoad(id) ==
  /\ frames[id].loading
  /\ frames' = With(id, [frames[id] EXCEPT !.loading = FALSE])
  /\ UNCHANGED <<parentLocal, proxies, slot, widgets, toRenderer, toBrowser, host, nextId, lost>>

\* The parent's page removes the node, whichever object it is.
Removed ==
  /\ parentLocal
  /\ slot # 0
  /\ slot' = 0
  /\ IF slot \in Live
       THEN frameDetached(slot, "remove", FALSE, <<>>) /\ UNCHANGED proxies
       ELSE /\ proxies' = proxies \ {slot}
            /\ toBrowser' = Append(toBrowser, [type |-> "Detach", id |-> slot])
            /\ UNCHANGED <<frames, widgets>>
  /\ UNCHANGED <<parentLocal, toRenderer, host, nextId, lost>>

-----------------------------------------------------------------------------
(* External: RenderFrameProxy and the browser's RenderFrameHostManager.    *)

NewFrameProxy ==
  /\ Receive("NewProxy")
  /\ proxies' = proxies \cup {Message.id}
  /\ slot' = Message.id
  /\ UNCHANGED <<parentLocal, frames, widgets, toBrowser, host, nextId, lost>>

DeleteProxy ==
  /\ Receive("DeleteProxy")
  /\ proxies' = proxies \ {Message.id}
  /\ slot' = IF slot = Message.id THEN 0 ELSE slot
  /\ UNCHANGED <<parentLocal, frames, widgets, toBrowser, host, nextId, lost>>

Tell(msgs) == toRenderer' = toRenderer \o msgs
rendererVars == <<parentLocal, frames, proxies, slot, widgets>>

\* The node of another process's page, shown there or here.
CreateNode ==
  /\ ~ parentLocal
  /\ nextId = 1 /\ nextId <= MaxIds
  /\ nextId' = 2
  /\ \/ /\ host' = [host EXCEPT !.proxy = 1]
        /\ Tell(<<[type |-> "NewProxy", id |-> 1]>>)
     \/ /\ host' = [host EXCEPT !.cur = 1]
        /\ Tell(<<[type |-> "NewFrame", id |-> 1, proxy |-> 0]>>)
  /\ UNCHANGED <<rendererVars, toBrowser, lost>>

\* The node is to be shown in this process.
NavigateHere ==
  /\ host.proxy # 0 /\ host.pending = 0
  /\ nextId <= MaxIds
  /\ nextId' = nextId + 1
  /\ host' = [host EXCEPT !.pending = nextId]
  /\ Tell(<<[type |-> "NewFrame", id |-> nextId, proxy |-> host.proxy],
            [type |-> "Navigate", id |-> nextId]>>)
  /\ UNCHANGED <<rendererVars, toBrowser, lost>>

CancelPending ==
  /\ host.pending # 0
  /\ host' = [host EXCEPT !.pending = 0]
  /\ Tell(<<[type |-> "Delete", id |-> host.pending, givenUp |-> TRUE]>>)
  /\ UNCHANGED <<rendererVars, toBrowser, nextId, lost>>

\* The node's next page committed in another process.
NavigatedAway ==
  /\ host.cur # 0
  /\ nextId <= MaxIds
  /\ nextId' = nextId + 1
  /\ host' = [host EXCEPT !.cur = 0, !.proxy = nextId, !.leaving = @ \cup {host.cur}]
  /\ Tell(<<[type |-> "SwapOut", id |-> host.cur, proxy |-> nextId]>>)
  /\ UNCHANGED <<rendererVars, toBrowser, lost>>

\* The page around the node, in another process, removed it.
RemovedElsewhere ==
  /\ ~ parentLocal
  /\ host.cur # 0 \/ host.proxy # 0
  /\ host' = [host EXCEPT !.cur = 0, !.pending = 0, !.proxy = 0]
  /\ LET delete(id) == IF id = 0 THEN <<>>
                       ELSE <<[type |-> "Delete", id |-> id, givenUp |-> FALSE]>>
     IN Tell(delete(host.pending) \o delete(host.cur) \o
             (IF host.proxy = 0 THEN <<>> ELSE <<[type |-> "DeleteProxy", id |-> host.proxy]>>))
  /\ UNCHANGED <<rendererVars, toBrowser, nextId, lost>>

\* A commit counts if it is still waited for.  A node removed by its page is
\* forgotten; a frame that waits in the renderer is not cleaned up.
BrowserHears ==
  /\ toBrowser # <<>>
  /\ LET m == Head(toBrowser)
     IN host' = CASE m.type = "DidCommit" /\ m.id = host.pending
                       -> [host EXCEPT !.cur = m.id, !.pending = 0, !.proxy = 0]
                  [] m.type = "SwapOut_ACK" -> [host EXCEPT !.leaving = @ \ {m.id}]
                  [] m.type = "Detach"
                       -> [cur |-> 0, pending |-> 0, proxy |-> 0, leaving |-> {}]
                  [] OTHER -> host
  /\ toBrowser' = Tail(toBrowser)
  /\ UNCHANGED <<rendererVars, toRenderer, nextId, lost>>

-----------------------------------------------------------------------------
Init ==
  /\ parentLocal \in BOOLEAN
  /\ frames = << >> /\ proxies = {} /\ slot = 0 /\ widgets = {}
  /\ toRenderer = <<>> /\ toBrowser = <<>>
  /\ host = [cur |-> 0, pending |-> 0, proxy |-> 0, leaving |-> {}]
  /\ nextId = 1 /\ lost = FALSE

RendererReceives ==
  \/ CreateFrame \/ OnNavigate \/ OnSwapOut \/ OnDeleteFrame
  \/ Unroutable \/ NewFrameProxy \/ DeleteProxy

Next ==
  \/ RendererReceives
  \/ createChildFrame
  \/ \E id \in Live : didCommitProvisionalLoad(id)
  \/ \E id \in Live : didFailProvisionalLoad(id)
  \/ Removed
  \/ CreateNode
  \/ NavigateHere
  \/ CancelPending
  \/ NavigatedAway
  \/ RemovedElsewhere
  \/ BrowserHears

Spec == Init /\ [][Next]_vars

\* Both ends take what reaches them.
FairSpec == Spec /\ WF_vars(RendererReceives) /\ WF_vars(BrowserHears)

-----------------------------------------------------------------------------
(* Properties.                                                             *)

TypeOK ==
  /\ Live \subseteq Ids /\ proxies \subseteq Ids /\ widgets \subseteq Live
  /\ Live \cap proxies = {}
  /\ slot \in Live \cup proxies \cup {0}

\* The tree has one object for the node, frames in it know that they are, and a
\* proxy is nowhere else.
OneObjectPerNode ==
  /\ \A id \in Live : frames[id].inTree <=> slot = id
  /\ proxies \subseteq {slot}

\* When both sides have heard everything they agree on the object that is the node.
\* Frames the browser no longer knows wait outside the tree for a proxy that is gone.
AgreeWhenQuiet ==
  toRenderer = <<>> /\ toBrowser = <<>> /\ ~ lost =>
    /\ slot = IF host.cur # 0 THEN host.cur ELSE host.proxy
    /\ \A id \in Live \ {host.cur, host.pending} : ProxyIsGone(id)

\* Every frame told to swap out is heard of again: it answers, or it was removed.  The
\* ids are finitely many, so at some time none is left to answer.
SwapOutIsAnswered == host.leaving # {} ~> host.leaving = {}

\* Both ends hold the same tree.
TreesAgree == OneObjectPerNode /\ AgreeWhenQuiet

=============================================================================
