-------------------------------- MODULE Tabs --------------------------------
(***************************************************************************)
(* Screenshot activation (gateway/src/bridge.ts): before a capture is      *)
(* handed to the child, the gateway asks the child which tab it has        *)
(* selected and has it brought to the front, while the client goes on      *)
(* choosing tabs, tabs close on their own and the child may be replaced.   *)
(*                                                                         *)
(* The child serves one call at a time, in the order it got them (its tool *)
(* mutex), over a pipe that keeps the order of its replies.  A page id     *)
(* stands for its tab: upstream never reuses one.                          *)
(***************************************************************************)
EXTENDS Naturals, Sequences, FiniteSets, FiniteSetsExt

CONSTANTS
  Captures,   \* the client's take_screenshot calls, each used once
  Passes,     \* ACTIVATION_PASSES
  MaxTabs,    \* bound: tabs opened
  MaxChoices, \* bound: select_page, new_page and close_page calls of the client
  MaxTrouble  \* bound: tabs that close on their own, and replacements of the child

NoTab  == 0
Nobody == "client"

ASSUME TabsAssumption ==
  /\ IsFiniteSet(Captures) /\ Nobody \notin Captures
  /\ Passes \in Nat \ {0} /\ MaxTabs \in Nat \ {0, 1}
  /\ MaxChoices \in Nat /\ MaxTrouble \in Nat

VARIABLES
  open,      \* the browser's tabs
  next,      \* the id of the tab to be opened next
  front,     \* the tab that is composited
  selected,  \* the tab the child's tools act on
  chosen,    \* the tab the client's own calls last left selected (the properties read it)
  queue,     \* calls the child has not finished
  running,   \* the select_page at the head has selected and not yet replied
  pipe,      \* its replies, not yet handled
  selectionEpoch,
  phase,     \* per capture: idle | list | select | restore | sent | done | failed
  pass,      \* per capture: bringSelectedToFront's loop counter
  epoch,     \* per capture: selectionEpoch at the head of its pass
  target,    \* per capture: the tab it aims at
  swap,      \* respawnChild: no | closing | starting
  toClient,  \* the gateway's own tools whose replies were passed on to the client
  trouble    \* bound counter

browser == <<open, next, front>>
child   == <<selected, queue, running, pipe>>
capture == <<phase, pass, epoch, target>>
vars    == <<browser, child, chosen, selectionEpoch, capture, swap, toClient, trouble>>

Tabs == 1..MaxTabs

\* A call: its tool, the capture it was injected for, its tab, whether to the front.
Call(tool, by, tab, toFront) == [tool |-> tool, by |-> by, tab |-> tab, front |-> toFront]

\* A reply: the page block it carries, empty where upstream prints none.
Reply(call, pages, sel) == [call |-> call, pages |-> pages, selected |-> sel]

\* No capture makes more than ACTIVATION_PASSES passes (bringSelectedToFront),
\* and the child selects, fronts and lists tabs that exist or existed.
TypeOK ==
  /\ open \subseteq 1..next-1 /\ open # {} /\ next \in 2..MaxTabs+1
  /\ front \in open /\ selected \in Tabs /\ chosen \in Tabs
  /\ running \in BOOLEAN /\ (running => queue # <<>> /\ Head(queue).tool = "select")
  /\ \A i \in DOMAIN pipe : pipe[i].pages \subseteq Tabs
  /\ selectionEpoch \in 0..MaxChoices
  /\ phase \in [Captures -> {"idle", "list", "select", "restore", "sent", "done", "failed"}]
  /\ pass \in [Captures -> 0..Passes-1] /\ epoch \in [Captures -> 0..MaxChoices]
  /\ target \in [Captures -> Tabs \cup {NoTab}]
  /\ swap \in {"no", "closing", "starting"}
  /\ toClient \subseteq {"list", "select"}

\* Two tabs; the selected one is in front or not.
Init ==
  /\ open = {1, 2} /\ next = 3
  /\ front \in open /\ selected = 2 /\ chosen = 2
  /\ queue = <<>> /\ running = FALSE /\ pipe = <<>>
  /\ selectionEpoch = 0
  /\ phase = [c \in Captures |-> "idle"] /\ pass = [c \in Captures |-> 0]
  /\ epoch = [c \in Captures |-> 0] /\ target = [c \in Captures |-> NoTab]
  /\ swap = "no" /\ toClient = {}
  /\ trouble = 0

-----------------------------------------------------------------------------
(* The gateway: one capture's activation, from reply to reply.             *)

Send(call) == queue' = Append(queue, call)

Become(c, p) == phase' = [phase EXCEPT ![c] = p]

\* The head of a pass: the epoch is read, then the page list is asked for.
StartPass(c, n) ==
  /\ pass' = [pass EXCEPT ![c] = n] /\ epoch' = [epoch EXCEPT ![c] = selectionEpoch]
  /\ Become(c, "list")
  /\ Send(Call("list", c, NoTab, FALSE))
  /\ UNCHANGED target

\* activateThenForward: whatever became of the activation, the capture goes.
Forward(c) ==
  /\ Become(c, "sent")
  /\ Send(Call("shot", c, NoTab, FALSE))
  /\ pass' = [pass EXCEPT ![c] = 0] /\ epoch' = [epoch EXCEPT ![c] = 0]
  /\ target' = [target EXCEPT ![c] = NoTab]

\* selectToFront, for the capture's target or to restore the tab it was read from.
SelectToFront(c, t, p) ==
  /\ Become(c, p) /\ target' = [target EXCEPT ![c] = IF p = "select" THEN t ELSE @]
  /\ Send(Call("select", c, t, TRUE))
  /\ UNCHANGED <<pass, epoch>>

\* Slip: a capture that finds the client has chosen meanwhile gives up at once.
StandDown(c) == Forward(c)

\* `continue`: read again, or leave the loop after the last pass.
NextPass(c) == IF pass[c] + 1 < Passes THEN StartPass(c, pass[c] + 1) ELSE Forward(c)

\* Slip: the client's own choices are not noticed.
NeverChose(c) == FALSE

\* clientChoseSince
ClientChoseSince(c) == selectionEpoch # epoch[c]

OnList(c, r) ==
  IF r.selected = NoTab THEN Forward(c)
  ELSE IF ClientChoseSince(c) THEN NextPass(c)
  ELSE SelectToFront(c, r.selected, "select")

\* A tab found elsewhere is put back by its URL, which any open tab may have.
OnSelect(c, r) ==
  IF r.pages = {} \/ ClientChoseSince(c) THEN NextPass(c)
  ELSE IF r.selected = target[c] THEN Forward(c)
  ELSE Forward(c) \/ \E t \in r.pages : SelectToFront(c, t, "restore")

OnReply(c, r) ==
  \/ phase[c] = "list" /\ OnList(c, r)
  \/ phase[c] = "select" /\ OnSelect(c, r)
  \/ phase[c] = "restore" /\ Forward(c)

\* dispatch of a take_screenshot; with no child to ask it fails retryably.
Capture(c) ==
  /\ phase[c] = "idle"
  /\ IF swap = "no" THEN StartPass(c, 0)
     ELSE Become(c, "failed") /\ UNCHANGED <<queue, pass, epoch, target>>
  /\ UNCHANGED <<browser, selected, running, pipe, chosen, selectionEpoch, swap, toClient, trouble>>

\* The client's calls that move the selection: the epoch is moved before the send.
SelectionCalls ==
  { Call("select", Nobody, t, f) : t \in Tabs, f \in BOOLEAN }
    \cup { Call("new", Nobody, NoTab, f) : f \in BOOLEAN }
    \cup { Call("close", Nobody, t, FALSE) : t \in Tabs }

Choose(call) ==
  /\ selectionEpoch < MaxChoices /\ swap = "no"
  /\ selectionEpoch' = selectionEpoch + 1
  /\ call.tab \in open \cup {NoTab}
  /\ Send(call)
  /\ UNCHANGED <<browser, selected, running, pipe, chosen, capture, swap, toClient, trouble>>

Injected(call) == call.tool = "list" \/ (call.tool = "select" /\ call.by # Nobody)

\* An injected call of c that clearChildState has not settled.
Live(c) == phase[c] \in {"list", "select", "restore"}

\* Slip: the gateway's own replies are known by their live entry.
OwnLive(call) == Injected(call) /\ Live(call.by)

\* The gateway's own replies are known by their id's prefix.
Own(call) == Injected(call)

\* wireChild's pump.  Between "closing" and the new generation nothing is live,
\* and the replies of the old child are still heard.
HandleReply ==
  /\ pipe # <<>> /\ pipe' = Tail(pipe)
  /\ LET r == Head(pipe) c == r.call.by
     IN IF Own(r.call)
        THEN /\ IF Live(c) THEN OnReply(c, r) ELSE UNCHANGED <<queue, capture>>
             /\ UNCHANGED toClient
        ELSE /\ toClient' = toClient \cup ({r.call.tool} \ {"shot"})
             /\ IF r.call.tool = "shot" /\ phase[c] = "sent" THEN Become(c, "done")
                ELSE UNCHANGED phase
             /\ UNCHANGED <<queue, pass, epoch, target>>
  /\ UNCHANGED <<browser, selected, running, chosen, selectionEpoch, swap, trouble>>

-----------------------------------------------------------------------------
(* The child and its browser (external).                                   *)

\* A page snapshot falls back to the first tab when the selected one is gone.
Bound(sel, tabs) == IF sel \in tabs THEN sel ELSE Min(tabs)

\* A foreground tab that goes leaves the front to some other.
FrontAfter(tabs) == front' \in (IF front \in tabs THEN {front} ELSE tabs)

Serving(tool) == swap # "starting" /\ queue # <<>> /\ ~running /\ Head(queue).tool = tool

\* A reply to the client's own choice is only passed on, and left out.
Replies(pages, sel) ==
  /\ queue' = Tail(queue)
  /\ pipe' = IF Head(queue).by = Nobody THEN pipe
             ELSE Append(pipe, Reply(Head(queue), pages, sel))

Elsewhere == UNCHANGED <<selectionEpoch, capture, swap, toClient, trouble>>

ListPages ==
  /\ Serving("list")
  /\ selected' = Bound(selected, open)
  /\ Replies(open, selected')
  /\ UNCHANGED <<browser, running, chosen>> /\ Elsewhere

\* select_page: an id that names no tab is an error without a page block.
SelectPage ==
  /\ Serving("select")
  /\ LET call == Head(queue)
     IN IF call.tab \in open
        THEN /\ selected' = call.tab /\ running' = TRUE
             /\ front' = (IF call.front THEN call.tab ELSE front)
             /\ chosen' = (IF call.by = Nobody THEN call.tab ELSE chosen)
             /\ UNCHANGED <<queue, pipe>>
        ELSE Replies({}, NoTab) /\ UNCHANGED <<selected, running, front, chosen>>
  /\ UNCHANGED <<open, next>> /\ Elsewhere

\* Its page block is made after bringToFront's round trip.
SelectReplies ==
  /\ running /\ running' = FALSE /\ swap # "starting"
  /\ selected' = Bound(selected, open)
  /\ Replies(open, selected')
  /\ UNCHANGED <<browser, chosen>> /\ Elsewhere

\* new_page selects its tab, and leaves another in front when in the background.
NewPage ==
  /\ Serving("new")
  /\ IF next <= MaxTabs
     THEN /\ open' = open \cup {next} /\ next' = next + 1
          /\ selected' = next /\ chosen' = next
          /\ front' = (IF Head(queue).front THEN next ELSE front)
          /\ Replies(open', next)
     ELSE Replies({}, NoTab) /\ UNCHANGED <<browser, selected, chosen>>
  /\ UNCHANGED running /\ Elsewhere

ClosePage ==
  /\ Serving("close")
  /\ LET t == Head(queue).tab
     IN IF t \in open /\ open # {t}
        THEN /\ open' = open \ {t} /\ FrontAfter(open')
             /\ selected' = Bound(selected, open') /\ chosen' = selected'
             /\ Replies(open', selected')
        ELSE Replies({}, NoTab) /\ UNCHANGED <<open, front, selected, chosen>>
  /\ UNCHANGED <<next, running>> /\ Elsewhere

Screenshot ==
  /\ Serving("shot")
  /\ Replies({}, NoTab)
  /\ UNCHANGED <<browser, selected, running, chosen>> /\ Elsewhere

\* window.close(), or a popup that is done.
TabGoes(t) ==
  /\ trouble < MaxTrouble /\ trouble' = trouble + 1
  /\ t \in open /\ open # {t}
  /\ open' = open \ {t} /\ FrontAfter(open')
  /\ UNCHANGED <<next, child, chosen, selectionEpoch, capture, swap, toClient>>

-----------------------------------------------------------------------------
(* The child's replacement (respawnChild, as far as a capture notices it). *)

\* Slip: a swap does not settle the gateway's own calls.
ForgetInjected == {}

\* clearChildState settles every injected call with nothing.
Unsettled == { c \in Captures : Live(c) }

\* What was in flight is failed, and a capture whose call was settled is then
\* forwarded to a child that is being replaced.
SwapBegins ==
  /\ swap = "no" /\ trouble < MaxTrouble /\ trouble' = trouble + 1
  /\ swap' = "closing"
  /\ phase' = [c \in Captures |-> IF c \in Unsettled \/ phase[c] = "sent" THEN "failed" ELSE phase[c]]
  /\ pass' = [c \in Captures |-> 0] /\ epoch' = [c \in Captures |-> 0]
  /\ target' = [c \in Captures |-> NoTab]
  /\ UNCHANGED <<browser, child, chosen, selectionEpoch, toClient>>

\* The old child is closed and the generation moves: it is heard no more.
SwapCloses ==
  /\ swap = "closing" /\ swap' = "starting"
  /\ queue' = <<>> /\ pipe' = <<>> /\ running' = FALSE
  /\ UNCHANGED <<browser, selected, chosen, selectionEpoch, capture, toClient, trouble>>

\* A fresh child selects the first tab it finds.
SwapEnds ==
  /\ swap = "starting" /\ swap' = "no"
  /\ selected' = Min(open) /\ chosen' = Min(open)
  /\ UNCHANGED <<browser, queue, running, pipe, selectionEpoch, capture, toClient, trouble>>

-----------------------------------------------------------------------------
Serve == ListPages \/ SelectPage \/ SelectReplies \/ NewPage \/ ClosePage \/ Screenshot

Swap == SwapBegins \/ SwapCloses \/ SwapEnds

Next ==
  \/ \E c \in Captures : Capture(c)
  \/ \E call \in SelectionCalls : Choose(call)
  \/ HandleReply
  \/ Serve
  \/ \E t \in Tabs : TabGoes(t)
  \/ Swap

Spec == Init /\ [][Next]_vars

\* The child finishes each call, if only by Puppeteer's protocol timeout, its
\* replies are read, and a replacement ends (Bridge).
FairSpec == Spec /\ WF_vars(HandleReply) /\ WF_vars(Serve) /\ WF_vars(SwapCloses) /\ WF_vars(SwapEnds)

-----------------------------------------------------------------------------
(* Properties.                                                             *)

\* An injected select (selectToFront) never takes the session off a tab its client has chosen,
\* however the client's calls and other captures fall between: it moves the
\* selection only when that tab has gone.
ChoiceStands ==
  [][SelectPage /\ Injected(Head(queue)) /\ selected' # selected => chosen \notin open]_vars

\* While nothing but the client moves tabs, and it makes fewer choices than there
\* are passes, every capture that activateThenForward lets go is of the tab in front.
CaptureInFront ==
  [][Screenshot /\ trouble = 0 /\ selectionEpoch < Passes => selected = front]_vars

\* The client never gets a reply to a call the gateway made (injectPrefix), a replaced child's
\* late ones included.
InjectedHidden == toClient = {}

\* A capture is never held for ever by its activation (activateThenForward).
CaptureGoes == \A c \in Captures : phase[c] = "list" ~> phase[c] \in {"done", "failed"}
=============================================================================
