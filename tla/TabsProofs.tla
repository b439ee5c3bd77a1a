------------------------------ MODULE TabsProofs ------------------------------
(***************************************************************************)
(* What holds of screenshot activation for any captures, any tabs, any     *)
(* choices of the client and any number of passes.                         *)
(***************************************************************************)
EXTENDS Tabs, WellFoundedInduction, TLAPS

-----------------------------------------------------------------------------
(* The child's mailbox: what is asked of it, and what it answers.          *)

ClientCalls ==
  [tool : {"select", "new", "close"}, by : {Nobody}, tab : Tabs \cup {NoTab}, front : BOOLEAN]

\* The gateway selects a tab only to bring it to the front.
GatewayCalls ==
  [tool : {"list", "shot"}, by : Captures, tab : {NoTab}, front : {FALSE}]
    \cup [tool : {"select"}, by : Captures, tab : Tabs \cup {NoTab}, front : {TRUE}]

Calls   == ClientCalls \cup GatewayCalls
Answers == [call : GatewayCalls, pages : SUBSET Tabs, selected : Tabs \cup {NoTab}]

MailOK == queue \in Seq(Calls) /\ pipe \in Seq(Answers)

\* A sequence has lost its head, or has gained e at its end.
Shorter(s, t) ==
  \E n \in Nat : /\ DOMAIN s = 1..n+1 /\ DOMAIN t = 1..n
                 /\ \A i \in 1..n : t[i] = s[i+1]
Longer(s, e, t) ==
  \E n \in Nat : /\ DOMAIN s = 1..n /\ DOMAIN t = 1..n+1 /\ t[n+1] = e
                 /\ \A i \in 1..n : t[i] = s[i]

LEMMA TailShorter ==
  ASSUME NEW S, NEW s \in Seq(S), s # <<>>
  PROVE  /\ Shorter(s, Tail(s)) /\ Tail(s) \in Seq(S)
         /\ 1 \in DOMAIN s /\ Head(s) = s[1] /\ s[1] \in S
<1> DEFINE n == Len(s) - 1
<1>1. n \in Nat /\ DOMAIN s = 1..n+1
  OBVIOUS
<1>2. DOMAIN Tail(s) = 1..n /\ \A i \in 1..n : Tail(s)[i] = s[i+1]
  OBVIOUS
<1> HIDE DEF n
<1> QED BY <1>1, <1>2 DEF Shorter

LEMMA AppendLonger ==
  ASSUME NEW S, NEW s \in Seq(S), NEW e \in S
  PROVE  Longer(s, e, Append(s, e)) /\ Append(s, e) \in Seq(S)
<1> DEFINE n == Len(s)
<1>1. n \in Nat /\ DOMAIN s = 1..n
  OBVIOUS
<1>2. /\ DOMAIN Append(s, e) = 1..n+1 /\ Append(s, e)[n+1] = e
      /\ \A i \in 1..n : Append(s, e)[i] = s[i]
  OBVIOUS
<1> HIDE DEF n
<1>3. Longer(s, e, Append(s, e))
  BY <1>1, <1>2 DEF Longer
<1> QED BY <1>3

LEMMA LowestTab ==
  ASSUME NEW tabs \in SUBSET Nat, tabs # {}
  PROVE  Min(tabs) \in tabs
<1> DEFINE Below == OpToRel(<, Nat)
<1>1. IsWellFoundedOn(Below, Nat)
  BY NatLessThanWellFounded, Zenon
<1>2. Below = {ss \in Nat \X Nat : ss[1] < ss[2]}
  BY Zenon DEF OpToRel
<1> HIDE DEF Below
<1>3. PICK x \in tabs : \A y \in tabs : ~ (<<y, x>> \in Below)
  BY <1>1, WFMin
<1>4. ASSUME NEW y \in tabs PROVE x <= y
  <2>1. x \in Nat /\ y \in Nat /\ ~ (<<y, x>> \in Below)
    BY <1>3
  <2>2. ~ (y < x)
    BY <1>2, <2>1
  <2> QED BY <2>1, <2>2
<1> QED BY <1>4 DEF Min

LEMMA BoundIn ==
  ASSUME NEW sel, NEW tabs \in SUBSET Nat, tabs # {}
  PROVE  Bound(sel, tabs) \in tabs /\ (sel \in tabs => Bound(sel, tabs) = sel)
BY LowestTab DEF Bound

LEMMA MailFacts ==
  ASSUME MailOK
  PROVE  /\ DOMAIN queue \subseteq Nat \ {0} /\ DOMAIN pipe \subseteq Nat \ {0}
         /\ \A i \in DOMAIN queue : queue[i] \in Calls
         /\ \A i \in DOMAIN pipe : pipe[i] \in Answers
BY DEF MailOK

\* What a call is, and who its reply is for.
LEMMA CallFacts ==
  ASSUME NEW call \in Calls
  PROVE  /\ call.by \in Captures \cup {Nobody}
         /\ call.tab \in Tabs \cup {NoTab} /\ call.front \in BOOLEAN
         /\ call.by = Nobody => call.tool \in {"select", "new", "close"}
         /\ call.by # Nobody =>
              /\ call \in GatewayCalls /\ call.tool \in {"list", "select", "shot"}
              /\ call.tool = "select" => call.front
BY TabsAssumption DEF Calls, ClientCalls, GatewayCalls

LEMMA AnswerFacts ==
  ASSUME NEW r \in Answers
  PROVE  /\ r.call \in GatewayCalls /\ r.call \in Calls
         /\ r.call.by \in Captures /\ r.call.by # Nobody
         /\ r.call.tool \in {"list", "select", "shot"}
         /\ r.pages \in SUBSET Tabs /\ r.selected \in Tabs \cup {NoTab}
         /\ Own(r.call) <=> r.call.tool # "shot"
BY TabsAssumption DEF Answers, Calls, GatewayCalls, Own, Injected

-----------------------------------------------------------------------------
(* What a step of the child does to the mailbox and to the tabs.           *)

\* The call at the head is over; the client's own is not heard of again.
Over(pages, sel) ==
  /\ Shorter(queue, queue')
  /\ IF queue[1].by = Nobody THEN pipe' = pipe
     ELSE Longer(pipe, Reply(queue[1], pages, sel), pipe')

LEMMA RepliesOver ==
  ASSUME MailOK, queue # <<>>,
         NEW pages \in SUBSET Tabs, NEW sel \in Tabs \cup {NoTab}, Replies(pages, sel)
  PROVE  MailOK' /\ Over(pages, sel)
<1>1. /\ Shorter(queue, Tail(queue)) /\ Tail(queue) \in Seq(Calls)
      /\ Head(queue) = queue[1] /\ queue[1] \in Calls
  BY TailShorter DEF MailOK
<1>2. CASE queue[1].by = Nobody
  BY <1>1, <1>2 DEF Replies, Over, MailOK
<1>3. CASE queue[1].by # Nobody
  <2> DEFINE r == Reply(queue[1], pages, sel)
  <2>0. queue[1] \in GatewayCalls
    BY <1>1, <1>3, CallFacts
  <2>1. r \in Answers
    BY <2>0 DEF Reply, Answers
  <2>2. pipe \in Seq(Answers) /\ pipe' = Append(pipe, r) /\ queue' = Tail(queue)
    BY <1>1, <1>3 DEF MailOK, Replies
  <2> HIDE DEF r
  <2>3. Longer(pipe, r, pipe') /\ pipe' \in Seq(Answers)
    BY <2>1, <2>2, AppendLonger
  <2>4. Over(pages, sel)
    BY <1>1, <1>3, <2>2, <2>3 DEF Over, r
  <2> QED BY <1>1, <2>2, <2>3, <2>4 DEF MailOK
<1> QED BY <1>2, <1>3

\* A call is over without a choice: the child's view is mended, and printed or not.
Ends(pages, sel) ==
  /\ Over(pages, sel) /\ running' = FALSE
  /\ UNCHANGED <<open, front, chosen>>
  /\ selected \in open => selected' = selected
  /\ \/ pages = {} /\ sel = NoTab /\ selected' = selected /\ ~running
        /\ \/ queue[1].tool = "shot" \/ queue[1].by = Nobody
           \/ queue[1].tool = "select" /\ queue[1].tab \notin open
     \/ pages = open /\ sel = selected' /\ selected' \in open
        /\ (running \/ queue[1].tool = "list")

\* The client opens a tab or closes one.
Opens ==
  /\ queue[1].by = Nobody /\ Shorter(queue, queue') /\ pipe' = pipe
  /\ ~running /\ running' = FALSE
  /\ selected' \in open' /\ chosen' = selected'

Selects ==
  /\ queue' = queue /\ pipe' = pipe /\ ~running /\ open' = open
  /\ queue[1].tool = "select" /\ queue[1].tab \in open
  /\ selected' = queue[1].tab
  /\ front' = (IF queue[1].front THEN queue[1].tab ELSE front)
  /\ chosen' = (IF queue[1].by = Nobody THEN selected' ELSE chosen)

\* An empty reply, as a call that fails has it.
LEMMA Fails ==
  ASSUME MailOK, queue # <<>>, ~running, running' = running, Replies({}, NoTab),
         UNCHANGED <<open, front, selected, chosen>>,
         \/ queue[1].tool = "shot" \/ queue[1].by = Nobody
         \/ queue[1].tool = "select" /\ queue[1].tab \notin open
  PROVE  MailOK' /\ Ends({}, NoTab)
<1>1. MailOK' /\ Over({}, NoTab)
  BY RepliesOver
<1> QED BY <1>1 DEF Ends

\* The page block, as the child prints it.
LEMMA Prints ==
  ASSUME TypeOK, MailOK, queue # <<>>, running \/ queue[1].tool = "list", running' = FALSE,
         UNCHANGED <<open, front, chosen>>,
         selected' = Bound(selected, open), Replies(open, selected')
  PROVE  MailOK' /\ Ends(open, selected')
<1>1. open \in SUBSET Tabs /\ open # {} /\ Tabs \subseteq Nat
  BY TabsAssumption DEF TypeOK, Tabs
<1>2. selected' \in open /\ (selected \in open => selected' = selected)
  BY <1>1, BoundIn
<1>3. MailOK' /\ Over(open, selected')
  BY <1>1, <1>2, RepliesOver
<1> QED BY <1>2, <1>3 DEF Ends

\* The client's own call at the head, done: it is forgotten.
LEMMA OwnOver ==
  ASSUME MailOK, queue # <<>>, queue[1].by = Nobody, NEW pages, NEW sel, Replies(pages, sel)
  PROVE  MailOK' /\ Shorter(queue, queue') /\ pipe' = pipe
<1>1. /\ Shorter(queue, Tail(queue)) /\ Tail(queue) \in Seq(Calls) /\ Head(queue) = queue[1]
  BY TailShorter DEF MailOK
<1> QED BY <1>1 DEF Replies, MailOK

ChildMoves == (\E pages, sel : Ends(pages, sel)) \/ Opens \/ Selects

LEMMA ChildStep ==
  ASSUME TypeOK, MailOK, Serve
  PROVE  MailOK' /\ 1 \in DOMAIN queue /\ ChildMoves
<1>0. /\ queue # <<>> /\ 1 \in DOMAIN queue /\ Head(queue) = queue[1] /\ queue[1] \in Calls
      /\ running \in BOOLEAN
  <2>1. queue # <<>> /\ running \in BOOLEAN
    BY DEF Serve, ListPages, SelectPage, SelectReplies, NewPage, ClosePage, Screenshot,
           Serving, TypeOK
  <2> QED BY <2>1, TailShorter DEF MailOK
<1>1. CASE ListPages
  BY <1>0, <1>1, Prints DEF ListPages, Serving, browser, ChildMoves
<1>2. CASE SelectPage
  <2>1. CASE queue[1].tab \in open
    <3>1. Selects
      BY <1>0, <1>2, <2>1 DEF SelectPage, Serving, Selects
    <3> QED BY <1>0, <1>2, <2>1, <3>1 DEF SelectPage, ChildMoves, MailOK
  <2>2. CASE queue[1].tab \notin open
    BY <1>0, <1>2, <2>2, Fails DEF SelectPage, Serving, ChildMoves
  <2> QED BY <2>1, <2>2
<1>3. CASE SelectReplies
  BY <1>0, <1>3, Prints DEF SelectReplies, browser, ChildMoves
<1>4. CASE NewPage
  <2>1. queue[1].by = Nobody /\ ~running
    BY <1>0, <1>4, CallFacts DEF NewPage, Serving
  <2>2. MailOK' /\ Shorter(queue, queue') /\ pipe' = pipe
    BY <1>0, <1>4, <2>1, OwnOver DEF NewPage
  <2>3. CASE next <= MaxTabs
    <3>1. Opens
      BY <1>0, <1>4, <2>1, <2>2, <2>3 DEF NewPage, Opens
    <3> QED BY <1>0, <2>2, <3>1 DEF ChildMoves
  <2>4. CASE ~ (next <= MaxTabs)
    <3>1. Replies({}, NoTab) /\ UNCHANGED <<browser, selected, chosen, running>>
      BY <1>4, <2>4 DEF NewPage
    <3> QED BY <1>0, <2>1, <3>1, Fails DEF browser, ChildMoves
  <2> QED BY <2>3, <2>4
<1>5. CASE ClosePage
  <2> DEFINE t == Head(queue).tab
  <2>1. queue[1].by = Nobody /\ ~running
    BY <1>0, <1>5, CallFacts DEF ClosePage, Serving
  <2>2. MailOK' /\ Shorter(queue, queue') /\ pipe' = pipe
    BY <1>0, <1>5, <2>1, OwnOver DEF ClosePage
  <2>3. CASE t \in open /\ open # {t}
    <3>1. open' = open \ {t} /\ selected' = Bound(selected, open') /\ chosen' = selected'
          /\ running' = running
      BY <1>5, <2>3 DEF ClosePage
    <3>2. open \in SUBSET Nat
      BY TabsAssumption DEF TypeOK, Tabs
    <3>3. open' \in SUBSET Nat /\ open' # {}
      BY <2>3, <3>1, <3>2
    <3>4. Opens
      BY <1>0, <2>1, <2>2, <3>1, <3>3, BoundIn DEF Opens
    <3> QED BY <1>0, <2>2, <3>4 DEF ChildMoves
  <2>4. CASE ~ (t \in open /\ open # {t})
    <3>1. Replies({}, NoTab) /\ UNCHANGED <<open, front, selected, chosen, running>>
      BY <1>5, <2>4 DEF ClosePage
    <3> QED BY <1>0, <2>1, <3>1, Fails DEF ChildMoves
  <2> QED BY <2>3, <2>4
<1>6. CASE Screenshot
  BY <1>0, <1>6, Fails DEF Screenshot, Serving, browser, ChildMoves
<1> QED BY <1>1, <1>2, <1>3, <1>4, <1>5, <1>6 DEF Serve

\* And it leaves the captures alone.
LEMMA ChildLeaves ==
  ASSUME Serve
  PROVE  UNCHANGED <<selectionEpoch, phase, pass, epoch, target, swap, toClient, trouble>>
BY DEF Serve, ListPages, SelectPage, SelectReplies, NewPage, ClosePage, Screenshot,
       Elsewhere, capture

-----------------------------------------------------------------------------
(* What a step of the gateway does to the mailbox and to a capture.        *)

LEMMA Sends ==
  ASSUME MailOK, NEW call \in Calls, Send(call)
  PROVE  Longer(queue, call, queue') /\ queue' \in Seq(Calls)
BY AppendLonger DEF MailOK, Send

LEMMA StartPassSends ==
  ASSUME MailOK, NEW c \in Captures, NEW n, StartPass(c, n)
  PROVE  Longer(queue, Call("list", c, NoTab, FALSE), queue') /\ queue' \in Seq(Calls)
<1>1. Call("list", c, NoTab, FALSE) \in Calls
  BY DEF Call, Calls, GatewayCalls
<1> QED BY <1>1, Sends DEF StartPass

LEMMA ForwardSends ==
  ASSUME MailOK, NEW c \in Captures, Forward(c)
  PROVE  Longer(queue, Call("shot", c, NoTab, FALSE), queue') /\ queue' \in Seq(Calls)
<1>1. Call("shot", c, NoTab, FALSE) \in Calls
  BY DEF Call, Calls, GatewayCalls
<1> QED BY <1>1, Sends DEF Forward

LEMMA SelectSends ==
  ASSUME MailOK, NEW c \in Captures, NEW t \in Tabs \cup {NoTab}, NEW p, SelectToFront(c, t, p)
  PROVE  Longer(queue, Call("select", c, t, TRUE), queue') /\ queue' \in Seq(Calls)
<1>1. Call("select", c, t, TRUE) \in Calls
  BY DEF Call, Calls, GatewayCalls
<1> QED BY <1>1, Sends DEF SelectToFront

LEMMA ChoiceCalls ==
  ASSUME NEW call \in SelectionCalls
  PROVE  call \in ClientCalls
<1>1. ASSUME NEW tool \in {"select", "new", "close"}, NEW t \in Tabs \cup {NoTab}, NEW f \in BOOLEAN
      PROVE  Call(tool, Nobody, t, f) \in ClientCalls
  BY DEF Call, ClientCalls
<1> DEFINE Chosen == { Call("select", Nobody, t, f) : t \in Tabs, f \in BOOLEAN }
           Opened == { Call("new", Nobody, NoTab, f) : f \in BOOLEAN }
           Closed == { Call("close", Nobody, t, FALSE) : t \in Tabs }
<1>2. Chosen \subseteq ClientCalls /\ Opened \subseteq ClientCalls /\ Closed \subseteq ClientCalls
  <2>1. ASSUME NEW x \in Chosen PROVE x \in ClientCalls
    BY <1>1
  <2>2. ASSUME NEW x \in Opened PROVE x \in ClientCalls
    BY <1>1
  <2>3. ASSUME NEW x \in Closed PROVE x \in ClientCalls
    BY <1>1
  <2> HIDE DEF Chosen, Opened, Closed
  <2> QED BY <2>1, <2>2, <2>3
<1>3. SelectionCalls = Chosen \cup Opened \cup Closed
  BY DEF SelectionCalls
<1> HIDE DEF Chosen, Opened, Closed
<1> QED BY <1>2, <1>3

LEMMA ChoiceSends ==
  ASSUME MailOK, NEW call \in SelectionCalls, Choose(call)
  PROVE  Longer(queue, call, queue') /\ queue' \in Seq(Calls) /\ call.by = Nobody
<1>1. call \in Calls /\ call.by = Nobody
  BY ChoiceCalls DEF ClientCalls, Calls
<1> QED BY <1>1, Sends DEF Choose

\* A reply nothing waits for.
Unheeded(c) ==
  /\ UNCHANGED <<queue, pass, epoch, target>>
  /\ \/ phase' = phase
     \/ phase[c] = "sent" /\ phase' = [phase EXCEPT ![c] = "done"]

\* What a live capture makes of its own.
Heeds(c, r) ==
  \/ \E n \in 0..Passes-1 : StartPass(c, n) /\ n = pass[c] + 1
                            /\ (ClientChoseSince(c) \/ r.pages = {})
  \/ /\ Forward(c)
     /\ phase[c] = "list" =>
          r.selected = NoTab \/ (ClientChoseSince(c) /\ pass[c] + 1 >= Passes)
     /\ phase[c] = "select" =>
          pass[c] + 1 >= Passes \/ ~ (ClientChoseSince(c) \/ r.pages = {})
  \/ /\ phase[c] = "list" /\ ~ClientChoseSince(c) /\ r.selected # NoTab
     /\ SelectToFront(c, r.selected, "select")
  \/ /\ phase[c] = "select" /\ ~ClientChoseSince(c)
     /\ r.pages # {} /\ r.selected # target[c]
     /\ \E t \in r.pages : SelectToFront(c, t, "restore")

LEMMA ReplyHeeded ==
  ASSUME NEW c \in Captures, NEW r, OnReply(c, r), pass[c] \in Nat
  PROVE  Heeds(c, r)
<1>1. Passes \in Nat \ {0}
  BY TabsAssumption
<1>2. CASE phase[c] = "list" /\ OnList(c, r)
  BY <1>1, <1>2 DEF OnList, NextPass, Heeds
<1>3. CASE phase[c] = "select" /\ OnSelect(c, r)
  BY <1>1, <1>3 DEF OnSelect, NextPass, Heeds
<1>4. CASE phase[c] = "restore" /\ Forward(c)
  BY <1>4 DEF Heeds
<1> QED BY <1>2, <1>3, <1>4 DEF OnReply

Heard(r) ==
  /\ r = pipe[1] /\ r \in Answers /\ Shorter(pipe, pipe')
  /\ \/ Unheeded(r.call.by)
     \/ Live(r.call.by) /\ Own(r.call) /\ Heeds(r.call.by, r)

LEMMA ReplyStep ==
  ASSUME MailOK, HandleReply, \A c \in Captures : pass[c] \in Nat
  PROVE  /\ MailOK' /\ (\E r : Heard(r)) /\ 1 \in DOMAIN pipe
         /\ UNCHANGED <<open, next, front, selected, running, chosen, selectionEpoch, swap, trouble>>
         /\ toClient = {} => toClient' = {}
<1> DEFINE r == Head(pipe)
           c == r.call.by
<1>1. /\ Shorter(pipe, pipe') /\ pipe' \in Seq(Answers) /\ r = pipe[1] /\ r \in Answers
      /\ 1 \in DOMAIN pipe
  BY TailShorter DEF HandleReply, MailOK
<1>2. /\ c \in Captures /\ r.pages \subseteq Tabs /\ r.selected \in Tabs \cup {NoTab}
      /\ Own(r.call) <=> r.call.tool # "shot"
  BY <1>1, AnswerFacts
<1>3. UNCHANGED <<open, next, front, selected, running, chosen, selectionEpoch, swap, trouble>>
  BY DEF HandleReply, browser
<1>4. CASE Own(r.call) /\ Live(c)
  <2>1. OnReply(c, r) /\ toClient' = toClient
    BY <1>4 DEF HandleReply
  <2>2. Heeds(c, r)
    BY <1>2, <2>1, ReplyHeeded
  <2> HIDE DEF r
  <2>3. queue' \in Seq(Calls)
    BY <1>2, <2>2, StartPassSends, ForwardSends, SelectSends DEF Heeds
  <2>4. Heard(r)
    BY <1>1, <1>4, <2>2 DEF Heard
  <2> QED BY <1>1, <1>3, <2>1, <2>3, <2>4 DEF MailOK
<1>5. CASE ~ (Own(r.call) /\ Live(c))
  <2>1. ASSUME Own(r.call)
        PROVE  Unheeded(c) /\ toClient' = toClient
    <3>1. UNCHANGED <<queue, capture>> /\ toClient' = toClient
      BY <1>5, <2>1 DEF HandleReply
    <3> QED BY <3>1 DEF Unheeded, capture
  <2>2. ASSUME ~Own(r.call)
        PROVE  Unheeded(c) /\ toClient' = toClient
    <3>1. /\ toClient' = toClient \cup ({r.call.tool} \ {"shot"})
          /\ UNCHANGED <<queue, pass, epoch, target>>
          /\ (phase[c] = "sent" /\ phase' = [phase EXCEPT ![c] = "done"]) \/ phase' = phase
      BY <1>5, <2>2 DEF HandleReply, Become
    <3>2. r.call.tool = "shot"
      BY <1>2, <2>2
    <3> QED BY <3>1, <3>2 DEF Unheeded
  <2>4. Unheeded(c) /\ (toClient = {} => toClient' = {})
    BY <2>1, <2>2
  <2> HIDE DEF r
  <2>5. Heard(r)
    BY <1>1, <2>4 DEF Heard
  <2> QED BY <1>1, <1>3, <2>4, <2>5 DEF MailOK, Unheeded
<1> QED BY <1>4, <1>5

-----------------------------------------------------------------------------
(* Types, in four parts.                                                   *)

BrowserOK ==
  /\ open \subseteq 1..next-1 /\ open # {} /\ next \in 2..MaxTabs+1
  /\ front \in open /\ selected \in Tabs /\ chosen \in Tabs

RunOK == running \in BOOLEAN /\ (running => 1 \in DOMAIN queue /\ queue[1].tool = "select")

CaptureOK ==
  /\ selectionEpoch \in 0..MaxChoices /\ swap \in {"no", "closing", "starting"}
  /\ phase \in [Captures -> {"idle", "list", "select", "restore", "sent", "done", "failed"}]
  /\ pass \in [Captures -> 0..Passes-1] /\ epoch \in [Captures -> 0..MaxChoices]
  /\ target \in [Captures -> Tabs \cup {NoTab}]

Types == MailOK /\ BrowserOK /\ RunOK /\ CaptureOK

LEMMA TypesGive ==
  ASSUME Types, toClient \subseteq {"list", "select"}
  PROVE  TypeOK
<1>1. running => queue # <<>> /\ Head(queue).tool = "select"
  BY TailShorter DEF Types, RunOK, MailOK
<1>2. \A i \in DOMAIN pipe : pipe[i].pages \subseteq Tabs
  BY MailFacts, AnswerFacts DEF Types
<1> QED BY <1>1, <1>2 DEF Types, BrowserOK, RunOK, CaptureOK, TypeOK

LEMMA BrowserStep ==
  ASSUME BrowserOK, MailOK, [Next]_vars
  PROVE  BrowserOK'
<1>0. Tabs \subseteq Nat /\ open \subseteq Tabs /\ MaxTabs \in Nat
  BY TabsAssumption DEF BrowserOK, Tabs
<1>1. CASE (\E c \in Captures : Capture(c)) \/ (\E call \in SelectionCalls : Choose(call))
  BY <1>1 DEF Capture, Choose, BrowserOK, browser
<1>2. CASE HandleReply
  BY <1>2 DEF HandleReply, BrowserOK, browser
<1>3. CASE ListPages \/ SelectReplies
  <2>1. selected' \in open
    BY <1>0, <1>3, BoundIn DEF ListPages, SelectReplies, BrowserOK
  <2> QED BY <1>0, <1>3, <2>1 DEF ListPages, SelectReplies, BrowserOK, browser
<1>4. CASE SelectPage
  BY <1>0, <1>4 DEF SelectPage, BrowserOK
<1>5. CASE NewPage
  <2>1. CASE next <= MaxTabs
    <3>1. /\ open' = open \cup {next} /\ next' = next + 1 /\ selected' = next /\ chosen' = next
          /\ front' \in {next, front}
      BY <1>5, <2>1 DEF NewPage
    <3> QED BY <1>0, <2>1, <3>1 DEF BrowserOK, Tabs
  <2>2. CASE ~ (next <= MaxTabs)
    <3>1. UNCHANGED <<open, next, front, selected, chosen>>
      BY <1>5, <2>2 DEF NewPage, browser
    <3> QED BY <3>1 DEF BrowserOK
  <2> QED BY <2>1, <2>2
<1>6. ASSUME NEW t, t \in open, open # {t}, open' = open \ {t}, FrontAfter(open'), next' = next
      PROVE  /\ open' \subseteq 1..next'-1 /\ open' # {} /\ next' \in 2..MaxTabs+1 /\ front' \in open'
             /\ open' \in SUBSET Nat
  BY <1>0, <1>6 DEF BrowserOK, FrontAfter
<1>7. CASE ClosePage
  <2> DEFINE t == Head(queue).tab
  <2>1. CASE t \in open /\ open # {t}
    <3>1. open' = open \ {t} /\ FrontAfter(open') /\ next' = next
          /\ selected' = Bound(selected, open') /\ chosen' = selected'
      BY <1>7, <2>1 DEF ClosePage
    <3>2. selected' \in open'
      BY <1>6, <2>1, <3>1, BoundIn
    <3> QED BY <1>0, <1>6, <2>1, <3>1, <3>2 DEF BrowserOK
  <2>2. CASE ~ (t \in open /\ open # {t})
    <3>1. UNCHANGED <<open, next, front, selected, chosen>>
      BY <1>7, <2>2 DEF ClosePage
    <3> QED BY <3>1 DEF BrowserOK
  <2> QED BY <2>1, <2>2
<1>8. CASE Screenshot
  BY <1>8 DEF Screenshot, BrowserOK, browser
<1>9. ASSUME NEW t \in Tabs, TabGoes(t) PROVE BrowserOK'
  BY <1>6, <1>9 DEF TabGoes, BrowserOK, child
<1>10. CASE SwapBegins \/ SwapCloses
  BY <1>10 DEF SwapBegins, SwapCloses, BrowserOK, browser, child
<1>11. CASE SwapEnds
  <2>1. Min(open) \in open
    BY <1>0, LowestTab DEF BrowserOK
  <2> QED BY <1>0, <1>11, <2>1 DEF SwapEnds, BrowserOK, browser
<1>12. CASE UNCHANGED vars
  BY <1>12 DEF vars, browser, child, BrowserOK
<1> QED BY <1>1, <1>2, <1>3, <1>4, <1>5, <1>7, <1>8, <1>9, <1>10, <1>11, <1>12
        DEF Next, Serve, Swap

\* A capture that is let into its first pass, or failed.
LEMMA CaptureStep ==
  ASSUME MailOK, NEW c \in Captures, Capture(c)
  PROVE  /\ MailOK' /\ pipe' = pipe /\ phase[c] = "idle"
         /\ UNCHANGED <<open, front, selected, running, chosen, selectionEpoch, swap, toClient, trouble>>
         /\ \/ swap = "no" /\ StartPass(c, 0)
            \/ Become(c, "failed") /\ UNCHANGED <<queue, pass, epoch, target>>
<1>1. swap = "no" => StartPass(c, 0)
  BY DEF Capture
<1>2. swap # "no" => Become(c, "failed") /\ UNCHANGED <<queue, pass, epoch, target>>
  BY DEF Capture
<1>3. queue' \in Seq(Calls)
  BY <1>1, <1>2, StartPassSends DEF MailOK
<1> QED BY <1>1, <1>2, <1>3 DEF Capture, browser, MailOK

LEMMA ChooseStep ==
  ASSUME MailOK, NEW call \in SelectionCalls, Choose(call)
  PROVE  /\ MailOK' /\ pipe' = pipe /\ Longer(queue, call, queue') /\ call.by = Nobody
         /\ selectionEpoch' = selectionEpoch + 1 /\ selectionEpoch < MaxChoices /\ swap = "no"
         /\ UNCHANGED <<open, front, selected, running, chosen, phase, pass, epoch, target,
                       swap, toClient, trouble>>
BY ChoiceSends DEF Choose, MailOK, browser, capture

\* A swap empties the mailbox, and lets no capture go on.
LEMMA SwapStep ==
  ASSUME MailOK, Swap
  PROVE  /\ MailOK'
         /\ UNCHANGED <<open, front, selectionEpoch, toClient>>
         /\ \/ SwapBegins /\ UNCHANGED <<queue, pipe, running, selected, chosen>>
            \/ /\ SwapCloses /\ queue' = <<>> /\ pipe' = <<>> /\ running' = FALSE
               /\ UNCHANGED <<selected, chosen, phase, pass, epoch, target, trouble>>
            \/ /\ SwapEnds /\ selected' = chosen' /\ chosen' = Min(open)
               /\ UNCHANGED <<queue, pipe, running, phase, pass, epoch, target, trouble>>
<1>1. CASE SwapBegins
  BY <1>1 DEF SwapBegins, browser, child, MailOK
<1>2. CASE SwapCloses
  BY <1>2 DEF SwapCloses, browser, capture, MailOK
<1>3. CASE SwapEnds
  BY <1>3 DEF SwapEnds, browser, capture, MailOK
<1> QED BY <1>1, <1>2, <1>3 DEF Swap

LEMMA MailStep ==
  ASSUME Types, toClient = {}, [Next]_vars
  PROVE  MailOK' /\ toClient' = {}
<1>0. MailOK /\ (\A c \in Captures : pass[c] \in Nat) /\ TypeOK
  BY TypesGive, TabsAssumption DEF Types, CaptureOK
<1>1. ASSUME NEW c \in Captures, Capture(c) PROVE MailOK' /\ toClient' = {}
  BY <1>0, <1>1, CaptureStep
<1>2. ASSUME NEW call \in SelectionCalls, Choose(call) PROVE MailOK' /\ toClient' = {}
  BY <1>0, <1>2, ChooseStep
<1>3. CASE HandleReply
  BY <1>0, <1>3, ReplyStep
<1>4. CASE Serve
  BY <1>0, <1>4, ChildStep, ChildLeaves
<1>5. ASSUME NEW t \in Tabs, TabGoes(t) PROVE MailOK' /\ toClient' = {}
  BY <1>0, <1>5 DEF TabGoes, child, MailOK
<1>6. CASE Swap
  BY <1>0, <1>6, SwapStep
<1>7. CASE UNCHANGED vars
  BY <1>0, <1>7 DEF vars, child, MailOK
<1> QED BY <1>1, <1>2, <1>3, <1>4, <1>5, <1>6, <1>7 DEF Next

LEMMA RunStep ==
  ASSUME Types, toClient = {}, [Next]_vars
  PROVE  RunOK'
<1>0. MailOK /\ (\A c \in Captures : pass[c] \in Nat) /\ TypeOK /\ RunOK
  BY TypesGive, TabsAssumption DEF Types, CaptureOK
<1>1. ASSUME NEW e, Longer(queue, e, queue'), running' = running PROVE RunOK'
  BY <1>0, <1>1 DEF RunOK, Longer
<1>2. ASSUME queue' = queue, running' = running PROVE RunOK'
  BY <1>0, <1>2 DEF RunOK
<1>3. ASSUME NEW c \in Captures, Capture(c) PROVE RunOK'
  BY <1>0, <1>1, <1>2, <1>3, CaptureStep, StartPassSends
<1>4. ASSUME NEW call \in SelectionCalls, Choose(call) PROVE RunOK'
  BY <1>0, <1>1, <1>4, ChooseStep
<1>5. CASE HandleReply
  <2>1. PICK r : Heard(r)
    BY <1>0, <1>5, ReplyStep
  <2>2. /\ running' = running /\ r.call.by \in Captures
        /\ r.pages \subseteq Tabs /\ r.selected \in Tabs \cup {NoTab}
    BY <1>0, <1>5, <2>1, ReplyStep, AnswerFacts DEF Heard
  <2>3. queue' = queue \/ \E e : Longer(queue, e, queue')
    BY <1>0, <2>1, <2>2, StartPassSends, ForwardSends, SelectSends DEF Heard, Unheeded, Heeds
  <2> QED BY <1>1, <1>2, <2>2, <2>3
<1>6. CASE Serve
  <2>1. ChildMoves /\ 1 \in DOMAIN queue
    BY <1>0, <1>6, ChildStep
  <2>2. CASE Selects
    <3>1. running' \in BOOLEAN
      BY <1>0, <1>6 DEF Serve, ListPages, SelectPage, SelectReplies, NewPage, ClosePage,
                        Screenshot, RunOK
    <3> QED BY <2>1, <2>2, <3>1 DEF Selects, RunOK
  <2>3. CASE Opens \/ \E pages, sel : Ends(pages, sel)
    BY <2>3 DEF Opens, Ends, RunOK
  <2> QED BY <2>1, <2>2, <2>3 DEF ChildMoves
<1>7. ASSUME NEW t \in Tabs, TabGoes(t) PROVE RunOK'
  BY <1>2, <1>7 DEF TabGoes, child
<1>8. CASE Swap
  <2>1. running' = FALSE \/ (queue' = queue /\ running' = running)
    BY <1>0, <1>8, SwapStep
  <2> QED BY <1>2, <2>1 DEF RunOK
<1>9. CASE UNCHANGED vars
  BY <1>2, <1>9 DEF vars, child
<1> QED BY <1>3, <1>4, <1>5, <1>6, <1>7, <1>8, <1>9 DEF Next

LEMMA CaptureTypeStep ==
  ASSUME Types, toClient = {}, [Next]_vars
  PROVE  CaptureOK'
<1>0. MailOK /\ (\A c \in Captures : pass[c] \in Nat) /\ TypeOK /\ CaptureOK
  BY TypesGive, TabsAssumption DEF Types, CaptureOK
<1>1. ASSUME UNCHANGED <<selectionEpoch, phase, pass, epoch, target>>,
             swap' \in {"no", "closing", "starting"}
      PROVE  CaptureOK'
  BY <1>0, <1>1 DEF CaptureOK
<1>2. ASSUME NEW c \in Captures, NEW n \in 0..Passes-1, StartPass(c, n),
             UNCHANGED <<selectionEpoch, swap>>
      PROVE  CaptureOK'
  BY <1>0, <1>2 DEF StartPass, Become, CaptureOK
<1>3. ASSUME NEW c \in Captures, Forward(c), UNCHANGED <<selectionEpoch, swap>>
      PROVE  CaptureOK'
  BY <1>0, <1>3, TabsAssumption DEF Forward, Become, CaptureOK
<1>4. ASSUME NEW c \in Captures, NEW t \in Tabs \cup {NoTab}, NEW p \in {"select", "restore"},
             SelectToFront(c, t, p), UNCHANGED <<selectionEpoch, swap>>
      PROVE  CaptureOK'
  <2>1. target' = target \/ target' = [target EXCEPT ![c] = t]
    BY <1>0, <1>4 DEF SelectToFront, CaptureOK
  <2> QED BY <1>0, <1>4, <2>1 DEF SelectToFront, Become, CaptureOK
<1>5. ASSUME NEW c \in Captures, NEW p \in {"failed", "done"}, phase' = [phase EXCEPT ![c] = p],
             UNCHANGED <<selectionEpoch, pass, epoch, target, swap>>
      PROVE  CaptureOK'
  BY <1>0, <1>5 DEF CaptureOK
<1>6. ASSUME NEW c \in Captures, Capture(c) PROVE CaptureOK'
  BY <1>0, <1>2, <1>5, <1>6, CaptureStep, TabsAssumption DEF Become
<1>7. ASSUME NEW call \in SelectionCalls, Choose(call) PROVE CaptureOK'
  BY <1>0, <1>7, ChooseStep, TabsAssumption DEF CaptureOK
<1>8. CASE HandleReply
  <2>1. PICK r : Heard(r)
    BY <1>0, <1>8, ReplyStep
  <2>2. UNCHANGED <<selectionEpoch, swap>>
    BY <1>0, <1>8, ReplyStep
  <2> DEFINE c == r.call.by
  <2>3. c \in Captures /\ r.pages \subseteq Tabs /\ r.selected \in Tabs \cup {NoTab}
    BY <2>1, AnswerFacts DEF Heard
  <2>4. CASE Unheeded(c)
    BY <1>0, <1>1, <1>5, <2>2, <2>3, <2>4 DEF Unheeded, CaptureOK
  <2>5. CASE Heeds(c, r)
    BY <1>2, <1>3, <1>4, <2>2, <2>3, <2>5 DEF Heeds
  <2> QED BY <2>1, <2>4, <2>5 DEF Heard
<1>9. CASE Serve
  BY <1>0, <1>1, <1>9, ChildLeaves DEF CaptureOK
<1>10. ASSUME NEW t \in Tabs, TabGoes(t) PROVE CaptureOK'
  BY <1>0, <1>1, <1>10 DEF TabGoes, capture, CaptureOK
<1>11. CASE SwapBegins
  BY <1>0, <1>11, TabsAssumption DEF SwapBegins, CaptureOK
<1>12. CASE SwapCloses \/ SwapEnds
  BY <1>1, <1>12 DEF SwapCloses, SwapEnds, capture
<1>13. CASE UNCHANGED vars
  BY <1>0, <1>1, <1>13 DEF vars, capture, CaptureOK
<1> QED BY <1>6, <1>7, <1>8, <1>9, <1>10, <1>11, <1>12, <1>13 DEF Next, Swap

LEMMA TypesStep ==
  ASSUME Types, toClient = {}, [Next]_vars
  PROVE  Types' /\ toClient' = {}
BY MailStep, BrowserStep, RunStep, CaptureTypeStep DEF Types

LEMMA TypesInit ==
  ASSUME Init
  PROVE  Types /\ toClient = {}
<1>1. MailOK
  BY DEF Init, MailOK
<1>2. BrowserOK
  BY TabsAssumption DEF Init, BrowserOK, Tabs
<1>3. RunOK
  BY DEF Init, RunOK
<1>4. CaptureOK
  BY TabsAssumption DEF Init, CaptureOK
<1> QED BY <1>1, <1>2, <1>3, <1>4 DEF Init, Types

\* Every variable keeps its type, whatever the child answers and whoever asks it
\* (bringSelectedToFront never makes more than ACTIVATION_PASSES passes).
THEOREM TabsTypes == Spec => []TypeOK
<1>1. (Types /\ toClient = {}) /\ [Next]_vars => (Types /\ toClient = {})'
  BY TypesStep
<1>2. Types /\ toClient = {} => TypeOK
  BY TypesGive
<1> QED BY <1>1, <1>2, TypesInit, PTL DEF Spec

\* No client is handed a reply to a call that bringSelectedToFront made, nor one that
\* comes from a child that was replaced.
THEOREM GatewayAsksUnseen == Spec => []InjectedHidden
<1>1. (Types /\ toClient = {}) /\ [Next]_vars => (Types /\ toClient = {})'
  BY TypesStep
<1>2. Types /\ toClient = {} => InjectedHidden
  BY DEF InjectedHidden
<1> QED BY <1>1, <1>2, TypesInit, PTL DEF Spec

-----------------------------------------------------------------------------
(* A capture has at most one call or reply in the mailbox.                 *)

OnceAsked ==
  \A i, j \in DOMAIN queue : queue[i].by # Nobody /\ queue[i].by = queue[j].by => i = j
OnceAnswered ==
  \A i, j \in DOMAIN pipe : pipe[i].call.by = pipe[j].call.by => i = j
AskedOrAnswered ==
  \A i \in DOMAIN pipe : \A j \in DOMAIN queue : pipe[i].call.by # queue[j].by
IdleAsksNothing ==
  \A c \in Captures : phase[c] = "idle" =>
    /\ \A i \in DOMAIN pipe : pipe[i].call.by # c
    /\ \A i \in DOMAIN queue : queue[i].by # c

Once == OnceAsked /\ OnceAnswered /\ AskedOrAnswered /\ IdleAsksNothing

\* No capture goes back to idle.
LEMMA NoneIdles ==
  ASSUME Types, toClient = {}, [Next]_vars, NEW c \in Captures, phase'[c] = "idle"
  PROVE  phase[c] = "idle"
<1>0. MailOK /\ (\A d \in Captures : pass[d] \in Nat) /\ TypeOK /\ DOMAIN phase = Captures
  BY TypesGive, TabsAssumption DEF Types, CaptureOK
<1>1. ASSUME NEW d \in Captures, NEW p, p # "idle", phase' = [phase EXCEPT ![d] = p]
      PROVE  phase[c] = "idle"
  BY <1>0, <1>1
<1>2. ASSUME NEW d \in Captures, Capture(d) PROVE phase[c] = "idle"
  BY <1>0, <1>1, <1>2, CaptureStep DEF StartPass, Become
<1>3. ASSUME NEW call \in SelectionCalls, Choose(call) PROVE phase[c] = "idle"
  BY <1>0, <1>3, ChooseStep
<1>4. CASE HandleReply
  <2>1. PICK r : Heard(r)
    BY <1>0, <1>4, ReplyStep
  <2>2. r.call.by \in Captures
    BY <2>1, AnswerFacts DEF Heard
  <2> QED BY <1>1, <2>1, <2>2 DEF Heard, Unheeded, Heeds, StartPass, Forward, SelectToFront, Become
<1>5. CASE Serve
  BY <1>5, ChildLeaves
<1>6. ASSUME NEW t \in Tabs, TabGoes(t) PROVE phase[c] = "idle"
  BY <1>6 DEF TabGoes, capture
<1>7. CASE Swap
  BY <1>7 DEF Swap, SwapBegins, SwapCloses, SwapEnds, capture, Unsettled, Live
<1>8. CASE UNCHANGED vars
  BY <1>8 DEF vars, capture
<1> QED BY <1>2, <1>3, <1>4, <1>5, <1>6, <1>7, <1>8 DEF Next

\* The ways the mailbox changes, each keeping a capture's letters apart.
LEMMA OnceWhenCaptureAsks ==
  ASSUME MailOK, Once, NEW c \in Captures, phase[c] = "idle", phase'[c] # "idle",
         \A d \in Captures : phase'[d] = "idle" => phase[d] = "idle",
         NEW e, e.by = c, Longer(queue, e, queue'), pipe' = pipe
  PROVE  Once'
<1>1. OnceAsked'
  BY MailFacts DEF Longer, Once, OnceAsked, IdleAsksNothing
<1>2. OnceAnswered'
  BY DEF Once, OnceAnswered
<1>3. AskedOrAnswered'
  BY DEF Longer, Once, AskedOrAnswered, IdleAsksNothing
<1>4. IdleAsksNothing'
  BY DEF Longer, Once, IdleAsksNothing
<1> QED BY <1>1, <1>2, <1>3, <1>4 DEF Once

LEMMA OnceWhenClientAsks ==
  ASSUME MailOK, Once, phase' = phase,
         NEW e, e.by = Nobody, Longer(queue, e, queue'), pipe' = pipe
  PROVE  Once'
<1>0. \A i \in DOMAIN pipe : pipe[i].call.by # Nobody
  BY MailFacts, AnswerFacts
<1>1. OnceAsked'
  BY DEF Longer, Once, OnceAsked
<1>2. OnceAnswered'
  BY DEF Once, OnceAnswered
<1>3. AskedOrAnswered'
  BY <1>0 DEF Longer, Once, AskedOrAnswered
<1>4. IdleAsksNothing'
  BY TabsAssumption DEF Longer, Once, IdleAsksNothing
<1> QED BY <1>1, <1>2, <1>3, <1>4 DEF Once

\* What stays in the pipe when its head is heard is for others.
LEMMA HeadGone ==
  ASSUME Once, 1 \in DOMAIN pipe, Shorter(pipe, pipe')
  PROVE  \A i \in DOMAIN pipe' :
           pipe'[i].call.by # pipe[1].call.by /\ \E k \in DOMAIN pipe : pipe'[i] = pipe[k]
<1> SUFFICES ASSUME NEW i \in DOMAIN pipe'
             PROVE  pipe'[i].call.by # pipe[1].call.by
                    /\ \E k \in DOMAIN pipe : pipe'[i] = pipe[k]
  OBVIOUS
<1>1. i + 1 \in DOMAIN pipe /\ i + 1 # 1 /\ pipe'[i] = pipe[i + 1]
  BY DEF Shorter
<1> QED BY <1>1 DEF Once, OnceAnswered

LEMMA OnceWhenHeard ==
  ASSUME MailOK, Once, 1 \in DOMAIN pipe, NEW c \in Captures, pipe[1].call.by = c,
         Shorter(pipe, pipe'),
         \A d \in Captures : phase'[d] = "idle" => phase[d] = "idle",
         queue' = queue \/ \E e : e.by = c /\ Longer(queue, e, queue')
  PROVE  Once'
<1>0. phase[c] # "idle" /\ \A j \in DOMAIN queue : queue[j].by # c
  BY DEF Once, AskedOrAnswered, IdleAsksNothing
<1>1. OnceAsked'
  BY <1>0 DEF Longer, Once, OnceAsked
<1>2. OnceAnswered'
  BY DEF Shorter, Once, OnceAnswered
<1>3. \A i \in DOMAIN pipe' : pipe'[i].call.by # c /\ \E k \in DOMAIN pipe : pipe'[i] = pipe[k]
  BY HeadGone
<1>4. \A j \in DOMAIN queue' : queue'[j].by = c \/ \E k \in DOMAIN queue : queue'[j] = queue[k]
  BY DEF Longer
<1>5. AskedOrAnswered'
  <2> SUFFICES ASSUME NEW i \in DOMAIN pipe', NEW j \in DOMAIN queue'
               PROVE  pipe'[i].call.by # queue'[j].by
    BY DEF AskedOrAnswered
  <2> QED BY <1>3, <1>4 DEF Once, AskedOrAnswered
<1>6. IdleAsksNothing'
  BY <1>0, <1>3, <1>4 DEF Once, IdleAsksNothing
<1> QED BY <1>1, <1>2, <1>5, <1>6 DEF Once

LEMMA OnceWhenOver ==
  ASSUME MailOK, Once, 1 \in DOMAIN queue, phase' = phase, Shorter(queue, queue'),
         \/ pipe' = pipe
         \/ queue[1].by # Nobody /\ \E r : r.call = queue[1] /\ Longer(pipe, r, pipe')
  PROVE  Once'
<1>1. OnceAsked'
  <2>1. PICK n \in Nat : /\ DOMAIN queue = 1..n+1 /\ DOMAIN queue' = 1..n
                        /\ \A i \in 1..n : queue'[i] = queue[i+1]
    BY DEF Shorter
  <2>2. ASSUME NEW i \in 1..n, NEW j \in 1..n,
               queue'[i].by # Nobody, queue'[i].by = queue'[j].by
        PROVE  i = j
    <3>1. i+1 \in DOMAIN queue /\ j+1 \in DOMAIN queue
      BY <2>1
    <3>2. i+1 = j+1
      BY <2>1, <2>2, <3>1 DEF Once, OnceAsked
    <3> QED BY <3>2
  <2> QED BY <2>1, <2>2 DEF OnceAsked
<1>2. \A j \in DOMAIN queue' : \E k \in DOMAIN queue : queue'[j] = queue[k] /\ k # 1
  BY DEF Shorter
<1>3. CASE pipe' = pipe
  BY <1>1, <1>2, <1>3 DEF Once, OnceAnswered, AskedOrAnswered, IdleAsksNothing
<1>4. CASE queue[1].by # Nobody /\ \E r : r.call = queue[1] /\ Longer(pipe, r, pipe')
  <2>1. PICK r : r.call = queue[1] /\ Longer(pipe, r, pipe')
    BY <1>4
  <2>2. OnceAnswered'
    BY <2>1 DEF Longer, Once, OnceAnswered, AskedOrAnswered
  <2>3. \A i \in DOMAIN pipe' : pipe'[i].call = queue[1] \/ \E k \in DOMAIN pipe : pipe'[i] = pipe[k]
    BY <2>1 DEF Longer
  <2>4. AskedOrAnswered'
    BY <1>2, <1>4, <2>3 DEF Once, OnceAsked, AskedOrAnswered
  <2>5. IdleAsksNothing'
    BY <1>2, <2>3 DEF Once, IdleAsksNothing
  <2> QED BY <1>1, <2>2, <2>4, <2>5 DEF Once
<1> QED BY <1>3, <1>4

LEMMA OnceStep ==
  ASSUME Types, toClient = {}, Once, [Next]_vars
  PROVE  Once'
<1>0. MailOK /\ (\A c \in Captures : pass[c] \in Nat) /\ TypeOK /\ DOMAIN phase = Captures
  BY TypesGive, TabsAssumption DEF Types, CaptureOK
<1>1. \A d \in Captures : phase'[d] = "idle" => phase[d] = "idle"
  BY NoneIdles
<1>2. ASSUME queue' = queue, pipe' = pipe PROVE Once'
  BY <1>1, <1>2 DEF Once, OnceAsked, OnceAnswered, AskedOrAnswered, IdleAsksNothing
<1>3. ASSUME NEW c \in Captures, Capture(c) PROVE Once'
  <2>1. CASE StartPass(c, 0)
    <3>1. Longer(queue, Call("list", c, NoTab, FALSE), queue')
      BY <1>0, <2>1, StartPassSends
    <3>2. Call("list", c, NoTab, FALSE).by = c
      BY DEF Call
    <3>3. phase[c] = "idle" /\ phase'[c] # "idle" /\ pipe' = pipe
      BY <1>0, <1>3, <2>1, CaptureStep DEF StartPass, Become
    <3> QED BY <1>0, <1>1, <3>1, <3>2, <3>3, OnceWhenCaptureAsks
  <2>2. CASE UNCHANGED <<queue, pass, epoch, target>>
    BY <1>0, <1>2, <1>3, <2>2, CaptureStep
  <2> QED BY <1>0, <1>3, <2>1, <2>2, CaptureStep
<1>4. ASSUME NEW call \in SelectionCalls, Choose(call) PROVE Once'
  BY <1>0, <1>4, ChooseStep, OnceWhenClientAsks
<1>5. CASE HandleReply
  <2>1. PICK r : Heard(r)
    BY <1>0, <1>5, ReplyStep
  <2> DEFINE c == r.call.by
  <2>2. /\ c \in Captures /\ r.pages \subseteq Tabs /\ r.selected \in Tabs \cup {NoTab}
        /\ 1 \in DOMAIN pipe /\ pipe[1].call.by = c /\ Shorter(pipe, pipe')
    BY <1>0, <1>5, <2>1, ReplyStep, AnswerFacts DEF Heard
  <2>3. ASSUME NEW tool, NEW t, NEW f, Longer(queue, Call(tool, c, t, f), queue')
        PROVE  \E e : e.by = c /\ Longer(queue, e, queue')
    <3>1. Call(tool, c, t, f).by = c
      BY DEF Call
    <3> QED BY <2>3, <3>1
  <2> HIDE DEF c
  <2>4. CASE Unheeded(c)
    BY <1>0, <1>1, <2>2, <2>4, OnceWhenHeard DEF Unheeded
  <2>5. CASE Heeds(c, r)
    <3>1. \E tool, t, f : Longer(queue, Call(tool, c, t, f), queue')
      BY <1>0, <2>2, <2>5, StartPassSends, ForwardSends, SelectSends DEF Heeds
    <3> QED BY <1>0, <1>1, <2>2, <2>3, <3>1, OnceWhenHeard
  <2> QED BY <2>1, <2>4, <2>5 DEF Heard, c
<1>6. CASE Serve
  <2>1. ChildMoves /\ 1 \in DOMAIN queue /\ phase' = phase
    BY <1>0, <1>6, ChildStep, ChildLeaves
  <2>2. CASE Selects
    BY <1>2, <2>2 DEF Selects
  <2>3. CASE Opens
    BY <1>0, <2>1, <2>3, OnceWhenOver DEF Opens
  <2>4. ASSUME NEW pages, NEW sel, Ends(pages, sel) PROVE Once'
    <3>1. Reply(queue[1], pages, sel).call = queue[1]
      BY DEF Reply
    <3> QED BY <1>0, <2>1, <2>4, <3>1, OnceWhenOver DEF Ends, Over
  <2> QED BY <2>1, <2>2, <2>3, <2>4 DEF ChildMoves
<1>7. ASSUME NEW t \in Tabs, TabGoes(t) PROVE Once'
  BY <1>2, <1>7 DEF TabGoes, child
<1>8. CASE Swap
  <2>1. (queue' = queue /\ pipe' = pipe) \/ (queue' = <<>> /\ pipe' = <<>>)
    BY <1>0, <1>8, SwapStep
  <2>2. CASE queue' = <<>> /\ pipe' = <<>>
    <3>1. DOMAIN queue' = {} /\ DOMAIN pipe' = {}
      BY <2>2
    <3> QED BY <3>1 DEF Once, OnceAsked, OnceAnswered, AskedOrAnswered, IdleAsksNothing
  <2> QED BY <1>2, <2>1, <2>2
<1>9. CASE UNCHANGED vars
  BY <1>2, <1>9 DEF vars, child
<1> QED BY <1>3, <1>4, <1>5, <1>6, <1>7, <1>8, <1>9 DEF Next

-----------------------------------------------------------------------------
(* What a live capture has asked, and when it is live at all.              *)

LiveUnswapped == \A c \in Captures : Live(c) => swap = "no"
StartsEmpty   == swap = "starting" => DOMAIN queue = {} /\ DOMAIN pipe = {} /\ ~running
AskedInPhase ==
  \A c \in Captures : Live(c) =>
    \A i \in DOMAIN queue : queue[i].by = c => (queue[i].tool = "list" <=> phase[c] = "list")

PhaseInv == LiveUnswapped /\ StartsEmpty /\ AskedInPhase

\* c asks what its new phase asks, with nothing of its own still asked.
LEMMA PhaseWhenAsks ==
  ASSUME PhaseInv, NEW c \in Captures, \A j \in DOMAIN queue : queue[j].by # c,
         NEW p, DOMAIN phase = Captures, phase' = [phase EXCEPT ![c] = p],
         NEW e, e.by = c, e.tool = "list" <=> p = "list", Longer(queue, e, queue'),
         swap = "no", swap' = swap
  PROVE  PhaseInv'
<1>1. LiveUnswapped' /\ StartsEmpty'
  BY DEF LiveUnswapped, StartsEmpty
<1>2. \A d \in Captures : d # c => phase'[d] = phase[d]
  OBVIOUS
<1>3. phase'[c] = p
  OBVIOUS
<1>4. \A j \in DOMAIN queue' :
        queue'[j] = e \/ (\E k \in DOMAIN queue : queue'[j] = queue[k])
  BY DEF Longer
<1>5. AskedInPhase'
  BY <1>2, <1>3, <1>4 DEF AskedInPhase, PhaseInv, Live
<1> QED BY <1>1, <1>5 DEF PhaseInv

\* Nothing is asked by a capture, and nothing that was asked has changed.
LEMMA PhaseWhenKept ==
  ASSUME PhaseInv, \A d \in Captures : Live(d)' => phase'[d] = phase[d],
         \A j \in DOMAIN queue' :
            queue'[j].by = Nobody \/ (\E k \in DOMAIN queue : queue'[j] = queue[k]),
         swap' = swap, swap = "starting" => queue' = queue /\ DOMAIN pipe' = {} /\ ~running'
  PROVE  PhaseInv'
<1>1. LiveUnswapped' /\ StartsEmpty'
  BY DEF LiveUnswapped, StartsEmpty, PhaseInv, Live
<1>2. AskedInPhase'
  BY TabsAssumption DEF AskedInPhase, PhaseInv, Live
<1> QED BY <1>1, <1>2 DEF PhaseInv

LEMMA PhaseStep ==
  ASSUME Types, toClient = {}, Once, PhaseInv, [Next]_vars
  PROVE  PhaseInv'
<1>0. MailOK /\ (\A c \in Captures : pass[c] \in Nat) /\ TypeOK /\ DOMAIN phase = Captures
  BY TypesGive, TabsAssumption DEF Types, CaptureOK
<1>1. ASSUME queue' = queue, DOMAIN pipe = {} => DOMAIN pipe' = {}, running' = running, swap' = swap,
             \A d \in Captures : Live(d)' => phase'[d] = phase[d]
      PROVE  PhaseInv'
  BY <1>1, PhaseWhenKept DEF PhaseInv, StartsEmpty
<1>2. ASSUME NEW c \in Captures, NEW p, phase' = [phase EXCEPT ![c] = p],
             \A j \in DOMAIN queue : queue[j].by # c, swap = "no", swap' = swap,
             NEW tool, NEW t, NEW f, Longer(queue, Call(tool, c, t, f), queue'),
             (tool = "list" /\ p = "list") \/ (tool # "list" /\ p # "list")
      PROVE  PhaseInv'
  <2> DEFINE e == Call(tool, c, t, f)
  <2>1. e.by = c /\ e.tool = tool
    BY DEF Call
  <2> HIDE DEF e
  <2>2. Longer(queue, e, queue')
    BY <1>2 DEF e
  <2> QED BY <1>0, <1>2, <2>1, <2>2, PhaseWhenAsks
<1>3. ASSUME NEW c \in Captures, Capture(c) PROVE PhaseInv'
  <2>1. /\ pipe' = pipe /\ running' = running /\ swap' = swap
        /\ \A j \in DOMAIN queue : queue[j].by # c
    BY <1>0, <1>3, CaptureStep DEF Once, IdleAsksNothing
  <2>2. CASE swap = "no" /\ StartPass(c, 0)
    BY <1>0, <1>2, <2>1, <2>2, StartPassSends DEF StartPass, Become
  <2>3. CASE Become(c, "failed") /\ UNCHANGED <<queue, pass, epoch, target>>
    BY <1>0, <1>1, <2>1, <2>3 DEF Become, Live
  <2> QED BY <1>0, <1>3, <2>2, <2>3, CaptureStep
<1>4. ASSUME NEW call \in SelectionCalls, Choose(call) PROVE PhaseInv'
  <2>1. /\ swap = "no" /\ swap' = swap /\ phase' = phase
        /\ Longer(queue, call, queue') /\ call.by = Nobody
    BY <1>0, <1>4, ChooseStep
  <2>2. \A j \in DOMAIN queue' :
          queue'[j].by = Nobody \/ (\E k \in DOMAIN queue : queue'[j] = queue[k])
    BY <2>1 DEF Longer
  <2> QED BY <2>1, <2>2, PhaseWhenKept
<1>5. CASE HandleReply
  <2>1. PICK r : Heard(r)
    BY <1>0, <1>5, ReplyStep
  <2> DEFINE c == r.call.by
  <2>2. /\ c \in Captures /\ r.pages \subseteq Tabs /\ r.selected \in Tabs \cup {NoTab}
        /\ 1 \in DOMAIN pipe /\ pipe[1].call.by = c /\ running' = running /\ swap' = swap
    BY <1>0, <1>5, <2>1, ReplyStep, AnswerFacts DEF Heard
  <2>3. \A j \in DOMAIN queue : queue[j].by # c
    BY <2>2 DEF Once, AskedOrAnswered
  <2> HIDE DEF c
  <2>4. CASE Unheeded(c)
    <3>1. \A d \in Captures : Live(d)' => phase'[d] = phase[d]
      BY <1>0, <2>2, <2>4 DEF Unheeded, Live
    <3> QED BY <1>1, <2>2, <2>4, <3>1 DEF Unheeded
  <2>5. CASE Live(c) /\ Heeds(c, r)
    <3>1. swap = "no"
      BY <2>2, <2>5 DEF PhaseInv, LiveUnswapped
    <3>2. ASSUME NEW n, StartPass(c, n) PROVE PhaseInv'
      <4>1. /\ phase' = [phase EXCEPT ![c] = "list"]
            /\ Longer(queue, Call("list", c, NoTab, FALSE), queue')
        BY <1>0, <2>2, <3>2, StartPassSends DEF StartPass, Become
      <4> QED BY <1>2, <2>2, <2>3, <3>1, <4>1
    <3>3. ASSUME Forward(c) PROVE PhaseInv'
      <4>1. /\ phase' = [phase EXCEPT ![c] = "sent"]
            /\ Longer(queue, Call("shot", c, NoTab, FALSE), queue')
        BY <1>0, <2>2, <3>3, ForwardSends DEF Forward, Become
      <4>2. "shot" # "list" /\ "sent" # "list"
        OBVIOUS
      <4> QED BY <1>2, <2>2, <2>3, <3>1, <4>1, <4>2
    <3>4. ASSUME NEW t \in Tabs \cup {NoTab}, NEW p \in {"select", "restore"}, SelectToFront(c, t, p)
          PROVE  PhaseInv'
      <4>1. /\ phase' = [phase EXCEPT ![c] = p]
            /\ Longer(queue, Call("select", c, t, TRUE), queue')
        BY <1>0, <2>2, <3>4, SelectSends DEF SelectToFront, Become
      <4>2. "select" # "list" /\ p # "list"
        BY <3>4
      <4> QED BY <1>2, <2>2, <2>3, <3>1, <4>1, <4>2
    <3> QED BY <2>2, <2>5, <3>2, <3>3, <3>4 DEF Heeds
  <2> QED BY <2>1, <2>4, <2>5 DEF Heard, c
<1>6. CASE Serve
  <2>1. ChildMoves /\ 1 \in DOMAIN queue /\ phase' = phase /\ swap' = swap
    BY <1>0, <1>6, ChildStep, ChildLeaves
  <2>2. queue' = queue \/ Shorter(queue, queue')
    BY <2>1 DEF ChildMoves, Selects, Opens, Ends, Over
  <2>3. \A j \in DOMAIN queue' : \E k \in DOMAIN queue : queue'[j] = queue[k]
    BY <2>2 DEF Shorter
  <2>4. swap # "starting"
    BY <2>1 DEF PhaseInv, StartsEmpty
  <2> QED BY <2>1, <2>3, <2>4, PhaseWhenKept
<1>7. ASSUME NEW t \in Tabs, TabGoes(t) PROVE PhaseInv'
  BY <1>1, <1>7 DEF TabGoes, child, capture
<1>8. CASE SwapBegins
  <2>1. \A d \in Captures : ~Live(d)'
    BY <1>8 DEF SwapBegins, Unsettled, Live
  <2> QED BY <1>8, <2>1 DEF SwapBegins, PhaseInv, LiveUnswapped, StartsEmpty, AskedInPhase
<1>9. CASE SwapCloses
  <2>1. (\A d \in Captures : ~Live(d)') /\ DOMAIN queue' = {} /\ DOMAIN pipe' = {}
    BY <1>9 DEF SwapCloses, capture, Live, PhaseInv, LiveUnswapped
  <2> QED BY <1>9, <2>1 DEF SwapCloses, PhaseInv, LiveUnswapped, StartsEmpty, AskedInPhase
<1>10. CASE SwapEnds
  <2>1. (\A d \in Captures : ~Live(d)')
    BY <1>10 DEF SwapEnds, capture, Live, PhaseInv, LiveUnswapped
  <2> QED BY <1>10, <2>1 DEF SwapEnds, PhaseInv, LiveUnswapped, StartsEmpty, AskedInPhase
<1>11. CASE UNCHANGED vars
  BY <1>1, <1>11 DEF vars, child, capture
<1> QED BY <1>3, <1>4, <1>5, <1>6, <1>7, <1>8, <1>9, <1>10, <1>11 DEF Next, Swap

-----------------------------------------------------------------------------
(* The client's choice: what the child and the gateway know of it.         *)

\* The child acts on the tab the client chose, as long as it is there.
Selected == chosen \in open => selected = chosen

\* An injected select names that tab, and no choice of the client comes before it.
SelectsAimed ==
  \A i \in DOMAIN queue : queue[i].tool = "select" /\ queue[i].by # Nobody =>
    /\ chosen \in open => queue[i].tab = chosen
    /\ \A j \in DOMAIN queue : j < i => queue[j].by # Nobody

EpochsPast == \A c \in Captures : epoch[c] <= selectionEpoch

\* A capture whose epoch still stands: the client has chosen nothing since its pass began.
Unmoved(c) == Live(c) /\ epoch[c] = selectionEpoch

\* The client's calls that are still to be done come before its page list,
ListsLast(c) ==
  \A i \in DOMAIN queue : queue[i].by = Nobody =>
    \E j \in DOMAIN queue : j > i /\ queue[j].by = c /\ queue[j].tool = "list"

\* so the reply it gets tells the tab the client chose,
ToldTrue(c) ==
  \A i \in DOMAIN pipe : pipe[i].call.by = c =>
    \/ pipe[i].selected = NoTab /\ pipe[i].pages = {}
    \/ chosen \in open => pipe[i].selected = chosen

\* and it aims at that tab.
AimsTrue(c) == phase[c] = "select" => (chosen \in open => target[c] = chosen)

Knows(c) == Unmoved(c) => ListsLast(c) /\ ToldTrue(c) /\ AimsTrue(c)

ChoiceInv ==
  /\ Selected /\ SelectsAimed /\ EpochsPast
  /\ \A c \in Captures : Knows(c)

\* Nothing is asked or answered, and the client's choice is where it was.
LEMMA ChoiceWhenKept ==
  ASSUME ChoiceInv, queue' = queue, selected' = selected, chosen' = chosen,
         open' \subseteq open, selectionEpoch' = selectionEpoch, EpochsPast',
         \A i \in DOMAIN pipe' : \E k \in DOMAIN pipe : pipe'[i] = pipe[k],
         \A c \in Captures : Live(c)' =>
            phase'[c] = phase[c] /\ epoch'[c] = epoch[c] /\ target'[c] = target[c]
  PROVE  ChoiceInv'
<1>1. Selected' /\ SelectsAimed'
  BY DEF ChoiceInv, Selected, SelectsAimed
<1>2. ASSUME NEW c \in Captures, Unmoved(c)'
      PROVE  ListsLast(c)' /\ ToldTrue(c)' /\ AimsTrue(c)'
  <2>1. Unmoved(c)
    BY <1>2 DEF Unmoved, Live
  <2>2. ListsLast(c) /\ ToldTrue(c) /\ AimsTrue(c)
    BY <2>1 DEF ChoiceInv, Knows
  <2>3. ListsLast(c)'
    BY <2>2 DEF ListsLast
  <2>4. ToldTrue(c)'
    BY <2>2 DEF ToldTrue
  <2>5. AimsTrue(c)'
    BY <1>2, <2>2 DEF AimsTrue, Unmoved
  <2> QED BY <2>3, <2>4, <2>5
<1> QED BY <1>1, <1>2 DEF ChoiceInv, Knows

\* The client chooses: no capture's epoch stands any more.
LEMMA ChoiceWhenChosen ==
  ASSUME MailOK, ChoiceInv, NEW e, e.by = Nobody, Longer(queue, e, queue'), pipe' = pipe,
         selectionEpoch \in Nat, selectionEpoch' = selectionEpoch + 1, epoch' = epoch,
         \A c \in Captures : epoch[c] \in Nat,
         UNCHANGED <<open, selected, chosen>>
  PROVE  ChoiceInv'
<1>1. Selected' /\ EpochsPast'
  BY DEF ChoiceInv, Selected, EpochsPast
<1>2. SelectsAimed'
  BY DEF Longer, ChoiceInv, SelectsAimed
<1>3. ASSUME NEW c \in Captures PROVE ~Unmoved(c)'
  BY DEF ChoiceInv, EpochsPast, Unmoved
<1> QED BY <1>1, <1>2, <1>3 DEF ChoiceInv, Knows

\* Capture c asks for something, with nothing else of its own in the mailbox.
LEMMA ChoiceWhenAsked ==
  ASSUME MailOK, ChoiceInv, NEW c \in Captures, NEW e, e.by = c, Longer(queue, e, queue'),
         \A i \in DOMAIN pipe' : pipe'[i].call.by # c /\ \E k \in DOMAIN pipe : pipe'[i] = pipe[k],
         UNCHANGED <<open, selected, chosen, selectionEpoch>>,
         \A d \in Captures : d # c =>
            phase'[d] = phase[d] /\ epoch'[d] = epoch[d] /\ target'[d] = target[d],
         epoch'[c] <= selectionEpoch,
         e.tool = "list" \/ ~Live(c)' \/ \A j \in DOMAIN queue : queue[j].by # Nobody,
         e.tool = "select" => /\ \A j \in DOMAIN queue : queue[j].by # Nobody
                              /\ chosen \in open => e.tab = chosen,
         phase'[c] = "select" => (chosen \in open => target'[c] = chosen)
  PROVE  ChoiceInv'
<1>0. c # Nobody
  BY TabsAssumption
<1>1. Selected' /\ EpochsPast'
  BY DEF ChoiceInv, Selected, EpochsPast
<1>2. SelectsAimed'
  BY DEF Longer, ChoiceInv, SelectsAimed
<1>3. ASSUME NEW d \in Captures, Unmoved(d)'
      PROVE  ListsLast(d)' /\ ToldTrue(d)' /\ AimsTrue(d)'
  <2>1. CASE d = c
    <3>1. ListsLast(c)'
      BY <1>0, <1>3, <2>1 DEF Longer, ListsLast, Unmoved
    <3>2. ToldTrue(c)'
      BY DEF ToldTrue
    <3> QED BY <2>1, <3>1, <3>2 DEF AimsTrue
  <2>2. CASE d # c
    <3>1. Unmoved(d)
      BY <1>3, <2>2 DEF Unmoved, Live
    <3>2. ListsLast(d) /\ ToldTrue(d) /\ AimsTrue(d)
      BY <3>1 DEF ChoiceInv, Knows
    <3>3. ListsLast(d)'
      BY <1>0, <3>2 DEF Longer, ListsLast
    <3>4. ToldTrue(d)'
      BY <3>2 DEF ToldTrue
    <3> QED BY <2>2, <3>2, <3>3, <3>4 DEF AimsTrue
  <2> QED BY <2>1, <2>2
<1> QED BY <1>1, <1>2, <1>3 DEF ChoiceInv, Knows

\* What is left when the head is taken from the queue.
LEMMA QueueShifts ==
  ASSUME MailOK, Shorter(queue, queue')
  PROVE  /\ \A i \in DOMAIN queue' : i+1 \in DOMAIN queue /\ queue'[i] = queue[i+1]
         /\ \A j \in DOMAIN queue : j > 1 => j-1 \in DOMAIN queue' /\ queue'[j-1] = queue[j]
         /\ DOMAIN queue \subseteq Nat \ {0} /\ DOMAIN queue' \subseteq Nat \ {0}
BY DEF Shorter

LEMMA ListsLastShifts ==
  ASSUME MailOK, Shorter(queue, queue'), NEW c, ListsLast(c)
  PROVE  ListsLast(c)'
<1> SUFFICES ASSUME NEW i \in DOMAIN queue', queue'[i].by = Nobody
             PROVE  \E j \in DOMAIN queue' : j > i /\ queue'[j].by = c /\ queue'[j].tool = "list"
  BY DEF ListsLast
<1>1. i+1 \in DOMAIN queue /\ queue[i+1].by = Nobody /\ i \in Nat \ {0}
  BY QueueShifts
<1>2. PICK j \in DOMAIN queue : j > i+1 /\ queue[j].by = c /\ queue[j].tool = "list"
  BY <1>1 DEF ListsLast
<1>3. j-1 \in DOMAIN queue' /\ queue'[j-1] = queue[j] /\ j-1 > i
  BY <1>1, <1>2, QueueShifts
<1> QED BY <1>2, <1>3

\* A list, a capture or a select that is over: its reply tells the truth.
LEMMA ChoiceWhenEnds ==
  ASSUME MailOK, ChoiceInv, 1 \in DOMAIN queue, NEW pages, NEW sel, Ends(pages, sel),
         UNCHANGED <<selectionEpoch, phase, epoch, target>>
  PROVE  ChoiceInv'
<1>1. /\ Shorter(queue, queue') /\ UNCHANGED <<open, chosen>>
      /\ selected \in open => selected' = selected
      /\ (pages = {} /\ sel = NoTab) \/ sel = selected'
  BY DEF Ends, Over
<1>2. Selected' /\ EpochsPast'
  BY <1>1 DEF ChoiceInv, Selected, EpochsPast
<1>3. SelectsAimed'
  <2> SUFFICES ASSUME NEW i \in DOMAIN queue', queue'[i].tool = "select", queue'[i].by # Nobody
               PROVE  /\ chosen' \in open' => queue'[i].tab = chosen'
                      /\ \A j \in DOMAIN queue' : j < i => queue'[j].by # Nobody
    BY DEF SelectsAimed
  <2>1. /\ i+1 \in DOMAIN queue /\ queue'[i] = queue[i+1] /\ i \in Nat
        /\ \A j \in DOMAIN queue' : j+1 \in DOMAIN queue /\ queue'[j] = queue[j+1] /\ j \in Nat
    BY <1>1, QueueShifts
  <2>2. /\ chosen \in open => queue[i+1].tab = chosen
        /\ \A j \in DOMAIN queue : j < i+1 => queue[j].by # Nobody
    BY <2>1 DEF ChoiceInv, SelectsAimed
  <2> QED BY <1>1, <2>1, <2>2
<1>4. ASSUME NEW c \in Captures, Unmoved(c)'
      PROVE  ListsLast(c)' /\ ToldTrue(c)' /\ AimsTrue(c)'
  <2>1. ListsLast(c) /\ ToldTrue(c) /\ AimsTrue(c)
    BY <1>4 DEF ChoiceInv, Knows, Unmoved, Live
  <2>2. ListsLast(c)'
    BY <1>1, <2>1, ListsLastShifts
  <2>3. ToldTrue(c)'
    <3>1. CASE pipe' = pipe
      BY <1>1, <2>1, <3>1 DEF ToldTrue
    <3>2. CASE Longer(pipe, Reply(queue[1], pages, sel), pipe')
      <4> DEFINE r == Reply(queue[1], pages, sel)
      <4>1. r.pages = pages /\ r.selected = sel
        BY DEF Reply
      <4> HIDE DEF r
      <4>2. \A i \in DOMAIN pipe' : pipe'[i] = r \/ \E k \in DOMAIN pipe : pipe'[i] = pipe[k]
        BY <3>2 DEF Longer, r
      <4>3. (r.selected = NoTab /\ r.pages = {}) \/ (chosen' \in open' => r.selected = chosen')
        BY <1>1, <1>2, <4>1 DEF Selected
      <4> QED BY <1>1, <2>1, <4>2, <4>3 DEF ToldTrue
    <3> QED BY <3>1, <3>2 DEF Ends, Over
  <2>4. AimsTrue(c)'
    BY <1>1, <2>1 DEF AimsTrue
  <2> QED BY <2>2, <2>3, <2>4
<1> QED BY <1>2, <1>3, <1>4 DEF ChoiceInv, Knows

\* The client's own call is done: who has not noticed has its page list still to come.
LEMMA ChoiceWhenDone ==
  ASSUME MailOK, ChoiceInv, Once, AskedInPhase, 1 \in DOMAIN queue, queue[1].by = Nobody,
         queue' = queue \/ Shorter(queue, queue'), pipe' = pipe, chosen' = selected',
         UNCHANGED <<selectionEpoch, phase, epoch, target>>
  PROVE  ChoiceInv'
<1>1. Selected' /\ EpochsPast'
  BY DEF ChoiceInv, Selected, EpochsPast
<1>2. \A i \in DOMAIN queue : ~ (queue[i].tool = "select" /\ queue[i].by # Nobody)
  <2> SUFFICES ASSUME NEW i \in DOMAIN queue, queue[i].tool = "select", queue[i].by # Nobody
               PROVE  FALSE
    OBVIOUS
  <2>1. i \in Nat \ {0} /\ i # 1
    BY MailFacts
  <2>2. 1 < i
    BY <2>1
  <2> QED BY <2>2 DEF ChoiceInv, SelectsAimed
<1>3. \A i \in DOMAIN queue' : \E k \in DOMAIN queue : queue'[i] = queue[k]
  BY DEF Shorter
<1>4. SelectsAimed'
  BY <1>2, <1>3 DEF SelectsAimed
<1>5. ASSUME NEW c \in Captures, Unmoved(c)'
      PROVE  ListsLast(c)' /\ ToldTrue(c)' /\ AimsTrue(c)'
  <2>1. Live(c) /\ ListsLast(c)
    BY <1>5 DEF ChoiceInv, Knows, Unmoved, Live
  <2>2. PICK j \in DOMAIN queue : queue[j].by = c /\ queue[j].tool = "list"
    BY <2>1 DEF ListsLast
  <2>3. phase[c] = "list"
    BY <2>1, <2>2 DEF AskedInPhase
  <2>4. ListsLast(c)'
    BY <2>1, ListsLastShifts DEF ListsLast
  <2>5. ToldTrue(c)'
    BY <2>2 DEF ToldTrue, Once, AskedOrAnswered
  <2> QED BY <2>3, <2>4, <2>5 DEF AimsTrue
<1> QED BY <1>1, <1>4, <1>5 DEF ChoiceInv, Knows

\* An injected select takes the child to the tab the client chose, if that is still there.
LEMMA ChoiceWhenFronted ==
  ASSUME MailOK, ChoiceInv, 1 \in DOMAIN queue, queue[1].by # Nobody, Selects,
         UNCHANGED <<selectionEpoch, phase, epoch, target>>
  PROVE  ChoiceInv'
<1>1. /\ queue' = queue /\ pipe' = pipe /\ UNCHANGED <<open, chosen>>
      /\ chosen \in open => selected' = chosen
  BY DEF Selects, ChoiceInv, SelectsAimed
<1>2. Selected' /\ EpochsPast'
  BY <1>1 DEF ChoiceInv, Selected, EpochsPast
<1>3. SelectsAimed'
  BY <1>1 DEF ChoiceInv, SelectsAimed
<1>4. ASSUME NEW c \in Captures PROVE Knows(c)'
  BY <1>1 DEF ChoiceInv, Knows, Unmoved, Live, ListsLast, ToldTrue, AimsTrue
<1> QED BY <1>2, <1>3, <1>4 DEF ChoiceInv

LEMMA ChoiceWhenSwapped ==
  ASSUME ChoiceInv, \A c \in Captures : ~Live(c)', DOMAIN queue' = {}, EpochsPast', Selected'
  PROVE  ChoiceInv'
BY DEF ChoiceInv, SelectsAimed, Knows, Unmoved

\* A live capture acts on a reply only while what it says is true, and then nothing
\* of the client's is still to be done.
LEMMA ReplyTrue ==
  ASSUME ChoiceInv, Once, 1 \in DOMAIN pipe, NEW c \in Captures, pipe[1].call.by = c,
         Live(c), ~ClientChoseSince(c)
  PROVE  /\ \A j \in DOMAIN queue : queue[j].by # Nobody
         /\ \/ pipe[1].selected = NoTab /\ pipe[1].pages = {}
            \/ chosen \in open => pipe[1].selected = chosen
         /\ phase[c] = "select" => (chosen \in open => target[c] = chosen)
<1>1. Unmoved(c)
  BY DEF ClientChoseSince, Unmoved
<1>2. ListsLast(c) /\ ToldTrue(c) /\ AimsTrue(c)
  BY <1>1 DEF ChoiceInv, Knows
<1>3. \A j \in DOMAIN queue : queue[j].by # c
  BY DEF Once, AskedOrAnswered
<1> QED BY <1>2, <1>3 DEF ListsLast, ToldTrue, AimsTrue

LEMMA ChoiceWhenHeard ==
  ASSUME Types, toClient = {}, Once, ChoiceInv, HandleReply
  PROVE  ChoiceInv'
<1>0. /\ MailOK /\ TypeOK /\ DOMAIN phase = Captures /\ DOMAIN epoch = Captures
      /\ DOMAIN target = Captures /\ selectionEpoch \in Nat
      /\ \A c \in Captures : pass[c] \in Nat /\ epoch[c] \in Nat
  BY TypesGive, TabsAssumption DEF Types, CaptureOK
<1>1. PICK r : Heard(r)
  BY <1>0, ReplyStep
<1> DEFINE c == r.call.by
<1>2. /\ c \in Captures /\ r.pages \subseteq Tabs /\ r.selected \in Tabs \cup {NoTab}
      /\ 1 \in DOMAIN pipe /\ r = pipe[1] /\ pipe[1].call.by = c /\ Shorter(pipe, pipe')
      /\ UNCHANGED <<open, selected, chosen, selectionEpoch>>
  BY <1>0, <1>1, ReplyStep, AnswerFacts DEF Heard
<1>3. \A i \in DOMAIN pipe' : pipe'[i].call.by # c /\ \E k \in DOMAIN pipe : pipe'[i] = pipe[k]
  BY <1>2, HeadGone
<1> HIDE DEF c
<1>4. CASE Unheeded(c)
  <2>1. \A d \in Captures : Live(d)' => phase'[d] = phase[d]
    BY <1>0, <1>2, <1>4 DEF Unheeded, Live
  <2>2. EpochsPast'
    BY <1>2, <1>4 DEF Unheeded, ChoiceInv, EpochsPast
  <2> QED BY <1>2, <1>3, <1>4, <2>1, <2>2, ChoiceWhenKept DEF Unheeded
<1>5. ASSUME NEW n, StartPass(c, n) PROVE ChoiceInv'
  <2> DEFINE e == Call("list", c, NoTab, FALSE)
  <2>1. e.by = c /\ e.tool = "list" /\ Longer(queue, e, queue')
    BY <1>0, <1>2, <1>5, StartPassSends DEF Call
  <2>2. /\ \A d \in Captures : d # c =>
              phase'[d] = phase[d] /\ epoch'[d] = epoch[d] /\ target'[d] = target[d]
        /\ epoch'[c] = selectionEpoch /\ phase'[c] = "list"
    BY <1>0, <1>2, <1>5 DEF StartPass, Become
  <2> HIDE DEF e
  <2> QED BY <1>0, <1>2, <1>3, <2>1, <2>2, ChoiceWhenAsked
<1>6. ASSUME Forward(c) PROVE ChoiceInv'
  <2> DEFINE e == Call("shot", c, NoTab, FALSE)
  <2>1. e.by = c /\ e.tool = "shot" /\ Longer(queue, e, queue')
    BY <1>0, <1>2, <1>6, ForwardSends DEF Call
  <2>2. /\ \A d \in Captures : d # c =>
              phase'[d] = phase[d] /\ epoch'[d] = epoch[d] /\ target'[d] = target[d]
        /\ epoch'[c] = 0 /\ phase'[c] = "sent"
    BY <1>0, <1>2, <1>6 DEF Forward, Become
  <2>3. ~Live(c)' /\ epoch'[c] <= selectionEpoch
    BY <1>0, <2>2 DEF Live
  <2> HIDE DEF e
  <2> QED BY <1>0, <1>2, <1>3, <2>1, <2>2, <2>3, ChoiceWhenAsked
<1>7. ASSUME NEW t \in Tabs \cup {NoTab}, NEW p \in {"select", "restore"}, SelectToFront(c, t, p),
             \A j \in DOMAIN queue : queue[j].by # Nobody, chosen \in open => t = chosen
      PROVE  ChoiceInv'
  <2> DEFINE e == Call("select", c, t, TRUE)
  <2>1. e.by = c /\ e.tool = "select" /\ e.tab = t /\ Longer(queue, e, queue')
    BY <1>0, <1>2, <1>7, SelectSends DEF Call
  <2>2. /\ \A d \in Captures : d # c =>
              phase'[d] = phase[d] /\ epoch'[d] = epoch[d] /\ target'[d] = target[d]
        /\ epoch' = epoch /\ phase'[c] = p /\ (p = "select" => target'[c] = t)
    BY <1>0, <1>2, <1>7 DEF SelectToFront, Become
  <2>3. epoch'[c] <= selectionEpoch
    BY <1>2, <2>2 DEF ChoiceInv, EpochsPast
  <2> HIDE DEF e
  <2> QED BY <1>0, <1>2, <1>3, <1>7, <2>1, <2>2, <2>3, ChoiceWhenAsked
<1>8. CASE Live(c) /\ Heeds(c, r)
  <2>1. CASE phase[c] = "list" /\ ~ClientChoseSince(c) /\ r.selected # NoTab
             /\ SelectToFront(c, r.selected, "select")
    BY <1>2, <1>7, <1>8, <2>1, ReplyTrue
  <2>2. CASE /\ phase[c] = "select" /\ ~ClientChoseSince(c)
             /\ r.pages # {} /\ r.selected # target[c]
             /\ \E t \in r.pages : SelectToFront(c, t, "restore")
    <3>1. (\A j \in DOMAIN queue : queue[j].by # Nobody) /\ chosen \notin open
      BY <1>2, <1>8, <2>2, ReplyTrue
    <3> QED BY <1>2, <1>7, <2>2, <3>1
  <2> QED BY <1>5, <1>6, <1>8, <2>1, <2>2 DEF Heeds
<1> QED BY <1>1, <1>4, <1>8 DEF Heard, c

LEMMA ChoiceStep ==
  ASSUME Types, toClient = {}, Once, PhaseInv, ChoiceInv, [Next]_vars
  PROVE  ChoiceInv'
<1>0. /\ MailOK /\ TypeOK /\ DOMAIN phase = Captures /\ DOMAIN epoch = Captures
      /\ DOMAIN target = Captures /\ selectionEpoch \in Nat
      /\ \A c \in Captures : pass[c] \in Nat /\ epoch[c] \in Nat
  BY TypesGive, TabsAssumption DEF Types, CaptureOK
<1>1. ASSUME NEW c \in Captures, Capture(c) PROVE ChoiceInv'
  <2>1. /\ UNCHANGED <<open, selected, chosen, selectionEpoch, pipe>>
        /\ \A i \in DOMAIN pipe : pipe[i].call.by # c
    BY <1>0, <1>1, CaptureStep DEF Once, IdleAsksNothing
  <2>2. CASE StartPass(c, 0)
    <3> DEFINE e == Call("list", c, NoTab, FALSE)
    <3>1. e.by = c /\ e.tool = "list" /\ Longer(queue, e, queue')
      BY <1>0, <2>2, StartPassSends DEF Call
    <3>2. /\ \A d \in Captures : d # c =>
                phase'[d] = phase[d] /\ epoch'[d] = epoch[d] /\ target'[d] = target[d]
          /\ epoch'[c] = selectionEpoch /\ phase'[c] = "list"
      BY <1>0, <2>2 DEF StartPass, Become
    <3> HIDE DEF e
    <3> QED BY <1>0, <2>1, <3>1, <3>2, ChoiceWhenAsked
  <2>3. CASE Become(c, "failed") /\ UNCHANGED <<queue, pass, epoch, target>>
    <3>1. \A d \in Captures : Live(d)' => phase'[d] = phase[d]
      BY <1>0, <2>3 DEF Become, Live
    <3>2. EpochsPast'
      BY <2>1, <2>3 DEF ChoiceInv, EpochsPast
    <3> QED BY <2>1, <2>3, <3>1, <3>2, ChoiceWhenKept
  <2> QED BY <1>0, <1>1, <2>2, <2>3, CaptureStep
<1>2. ASSUME NEW call \in SelectionCalls, Choose(call) PROVE ChoiceInv'
  BY <1>0, <1>2, ChooseStep, ChoiceWhenChosen
<1>3. CASE HandleReply
  BY <1>3, ChoiceWhenHeard
<1>4. CASE Serve
  <2>1. /\ ChildMoves /\ 1 \in DOMAIN queue
        /\ UNCHANGED <<selectionEpoch, phase, epoch, target>>
    BY <1>0, <1>4, ChildStep, ChildLeaves
  <2>2. ASSUME NEW pages, NEW sel, Ends(pages, sel) PROVE ChoiceInv'
    BY <1>0, <2>1, <2>2, ChoiceWhenEnds
  <2>3. CASE Opens
    BY <1>0, <2>1, <2>3, ChoiceWhenDone DEF Opens, PhaseInv
  <2>4. CASE Selects /\ queue[1].by = Nobody
    BY <1>0, <2>1, <2>4, ChoiceWhenDone DEF Selects, PhaseInv
  <2>5. CASE Selects /\ queue[1].by # Nobody
    BY <1>0, <2>1, <2>5, ChoiceWhenFronted
  <2> QED BY <2>1, <2>2, <2>3, <2>4, <2>5 DEF ChildMoves
<1>5. ASSUME NEW t \in Tabs, TabGoes(t) PROVE ChoiceInv'
  <2>1. EpochsPast'
    BY <1>5 DEF TabGoes, capture, ChoiceInv, EpochsPast
  <2> QED BY <1>5, <2>1, ChoiceWhenKept DEF TabGoes, child, capture
<1>6. CASE SwapBegins
  <2>1. /\ \A d \in Captures : ~Live(d)' /\ epoch'[d] = 0
        /\ UNCHANGED <<open, queue, pipe, selected, chosen, selectionEpoch>>
    BY <1>6 DEF SwapBegins, Unsettled, Live, browser, child
  <2>2. EpochsPast'
    BY <1>0, <2>1 DEF EpochsPast
  <2> QED BY <2>1, <2>2, ChoiceWhenKept
<1>7. CASE SwapCloses \/ SwapEnds
  <2>1. \A d \in Captures : ~Live(d)'
    BY <1>7 DEF SwapCloses, SwapEnds, capture, PhaseInv, LiveUnswapped, Live
  <2>2. DOMAIN queue' = {}
    BY <1>7 DEF SwapCloses, SwapEnds, PhaseInv, StartsEmpty
  <2>3. EpochsPast'
    BY <1>7 DEF SwapCloses, SwapEnds, capture, ChoiceInv, EpochsPast
  <2>4. Selected'
    BY <1>7 DEF SwapCloses, SwapEnds, browser, ChoiceInv, Selected
  <2> QED BY <2>1, <2>2, <2>3, <2>4, ChoiceWhenSwapped
<1>8. CASE UNCHANGED vars
  <2>1. EpochsPast'
    BY <1>8 DEF vars, capture, ChoiceInv, EpochsPast
  <2> QED BY <1>8, <2>1, ChoiceWhenKept DEF vars, browser, child, capture
<1> QED BY <1>1, <1>2, <1>3, <1>4, <1>5, <1>6, <1>7, <1>8 DEF Next, Swap

-----------------------------------------------------------------------------
(* The tab in front, while nothing but the client moves tabs.              *)

Calm == trouble = 0 /\ selectionEpoch < Passes

\* The tabs the client chose stay, nothing is put back, and no pass is the last.
Undisturbed ==
  /\ swap = "no" /\ selected \in open /\ chosen \in open
  /\ \A c \in Captures : phase[c] # "restore" /\ (Live(c) => pass[c] <= epoch[c])

\* The child never answers the gateway without a page block.
ToldAll ==
  \A i \in DOMAIN pipe : Own(pipe[i].call) => pipe[i].pages # {} /\ pipe[i].selected # NoTab

\* A capture that was let go finds its tab in front, and no choice of the client before it.
ShotsFronted ==
  \A i \in DOMAIN queue : queue[i].tool = "shot" =>
    /\ selected = front
    /\ \A j \in DOMAIN queue : j < i => queue[j].by # Nobody

\* c has nothing of its own still to be begun.
Begun(c) == \A i \in DOMAIN queue : queue[i].by = c => i = 1 /\ running

\* Once its select has been begun, a capture whose epoch stands has its tab in front.
SelectFronts ==
  \A c \in Captures : phase[c] = "select" /\ Unmoved(c) /\ Begun(c) => selected = front

CalmInv == Calm => Undisturbed /\ ToldAll /\ ShotsFronted /\ SelectFronts

\* Trouble is never undone, nor is a choice.
LEMMA CalmBefore ==
  ASSUME Types, toClient = {}, trouble \in Nat, [Next]_vars
  PROVE  trouble' \in Nat /\ (Calm' => Calm /\ trouble' = trouble)
<1>0. /\ MailOK /\ TypeOK /\ selectionEpoch \in Nat /\ Passes \in Nat
      /\ \A c \in Captures : pass[c] \in Nat
  BY TypesGive, TabsAssumption DEF Types, CaptureOK
<1>1. ASSUME UNCHANGED <<trouble, selectionEpoch>>
      PROVE  trouble' \in Nat /\ (Calm' => Calm /\ trouble' = trouble)
  BY <1>1 DEF Calm
<1>2. ASSUME NEW c \in Captures, Capture(c) PROVE UNCHANGED <<trouble, selectionEpoch>>
  BY <1>0, <1>2, CaptureStep
<1>3. ASSUME NEW call \in SelectionCalls, Choose(call)
      PROVE  trouble' \in Nat /\ (Calm' => Calm /\ trouble' = trouble)
  BY <1>0, <1>3, ChooseStep DEF Calm
<1>4. CASE HandleReply
  BY <1>0, <1>1, <1>4, ReplyStep
<1>5. CASE Serve
  BY <1>1, <1>5, ChildLeaves
<1>6. ASSUME NEW t \in Tabs, TabGoes(t)
      PROVE  trouble' \in Nat /\ (Calm' => Calm /\ trouble' = trouble)
  BY <1>6 DEF TabGoes, Calm
<1>7. CASE Swap
  BY <1>1, <1>7 DEF Swap, SwapBegins, SwapCloses, SwapEnds, Calm
<1>8. CASE UNCHANGED vars
  BY <1>1, <1>8 DEF vars
<1> QED BY <1>1, <1>2, <1>3, <1>4, <1>5, <1>6, <1>7, <1>8 DEF Next

\* A capture asks for its page list.
LEMMA CalmWhenLists ==
  ASSUME MailOK, Undisturbed, ToldAll, ShotsFronted, SelectFronts,
         NEW c \in Captures, NEW e, e.by = c, e.tool = "list", Longer(queue, e, queue'),
         \A i \in DOMAIN pipe' : \E k \in DOMAIN pipe : pipe'[i] = pipe[k],
         UNCHANGED <<open, front, selected, running, chosen, selectionEpoch, swap>>,
         \A d \in Captures : d # c =>
            phase'[d] = phase[d] /\ epoch'[d] = epoch[d] /\ pass'[d] = pass[d],
         phase'[c] = "list", pass'[c] <= epoch'[c]
  PROVE  Undisturbed' /\ ToldAll' /\ ShotsFronted' /\ SelectFronts'
<1>1. Undisturbed'
  BY DEF Undisturbed, Live
<1>2. ToldAll'
  BY DEF ToldAll, Own, Injected
<1>3. ShotsFronted'
  BY DEF Longer, ShotsFronted
<1>4. SelectFronts'
  <2> SUFFICES ASSUME NEW d \in Captures, phase'[d] = "select", Unmoved(d)', Begun(d)'
               PROVE  selected' = front'
    BY DEF SelectFronts
  <2>1. d # c /\ phase[d] = "select" /\ Unmoved(d)
    BY DEF Unmoved, Live
  <2>2. Begun(d)
    BY DEF Longer, Begun
  <2> QED BY <2>1, <2>2 DEF SelectFronts
<1> QED BY <1>1, <1>2, <1>3, <1>4

\* A capture that has its tab in front is let go.
LEMMA CalmWhenForwards ==
  ASSUME MailOK, Undisturbed, ToldAll, ShotsFronted, SelectFronts,
         NEW c \in Captures, NEW e, e.by = c, Longer(queue, e, queue'),
         selected = front, \A j \in DOMAIN queue : queue[j].by # Nobody,
         \A i \in DOMAIN pipe' : \E k \in DOMAIN pipe : pipe'[i] = pipe[k],
         UNCHANGED <<open, front, selected, running, chosen, selectionEpoch, swap>>,
         \A d \in Captures : d # c =>
            phase'[d] = phase[d] /\ epoch'[d] = epoch[d] /\ pass'[d] = pass[d],
         phase'[c] = "sent"
  PROVE  Undisturbed' /\ ToldAll' /\ ShotsFronted' /\ SelectFronts'
<1>1. Undisturbed'
  BY DEF Undisturbed, Live
<1>2. ToldAll'
  BY DEF ToldAll, Own, Injected
<1>3. ShotsFronted'
  BY TabsAssumption DEF Longer, ShotsFronted
<1> QED BY <1>1, <1>2, <1>3 DEF SelectFronts

\* A capture asks for its tab to be brought to the front: that is still to be begun.
LEMMA CalmWhenAims ==
  ASSUME MailOK, RunOK, Undisturbed, ToldAll, ShotsFronted, SelectFronts,
         NEW c \in Captures, NEW e, e.by = c, e.tool = "select", Longer(queue, e, queue'),
         \A i \in DOMAIN pipe' : \E k \in DOMAIN pipe : pipe'[i] = pipe[k],
         UNCHANGED <<open, front, selected, running, chosen, selectionEpoch, swap>>,
         \A d \in Captures : d # c => phase'[d] = phase[d],
         epoch' = epoch, pass' = pass, phase'[c] = "select", Live(c)
  PROVE  Undisturbed' /\ ToldAll' /\ ShotsFronted' /\ SelectFronts'
<1>1. Undisturbed'
  BY DEF Undisturbed, Live
<1>2. ToldAll'
  BY DEF ToldAll, Own, Injected
<1>3. ShotsFronted'
  BY DEF Longer, ShotsFronted
<1>4. SelectFronts'
  <2> SUFFICES ASSUME NEW d \in Captures, phase'[d] = "select", Unmoved(d)', Begun(d)'
               PROVE  selected' = front'
    BY DEF SelectFronts
  <2>1. CASE d = c
    BY <2>1 DEF Longer, Begun, RunOK
  <2>2. CASE d # c
    <3>1. phase[d] = "select" /\ Unmoved(d) /\ Begun(d)
      BY <2>2 DEF Unmoved, Live, Begun, Longer
    <3> QED BY <3>1 DEF SelectFronts
  <2> QED BY <2>1, <2>2
<1> QED BY <1>1, <1>2, <1>3, <1>4

\* A call of the gateway is over, and says all: no select of it can miss its tab.
LEMMA CalmWhenEnds ==
  ASSUME MailOK, ChoiceInv, AskedInPhase, Undisturbed, ToldAll, ShotsFronted, SelectFronts,
         1 \in DOMAIN queue, queue[1] \in Calls, open \subseteq Tabs,
         NEW pages, NEW sel, Ends(pages, sel),
         UNCHANGED <<selectionEpoch, phase, pass, epoch, target, swap>>
  PROVE  Undisturbed' /\ ToldAll' /\ ShotsFronted' /\ SelectFronts'
<1>1. /\ Shorter(queue, queue') /\ UNCHANGED <<open, front, selected, chosen>> /\ running' = FALSE
      /\ (pipe' = pipe) \/ (queue[1].by # Nobody /\ Longer(pipe, Reply(queue[1], pages, sel), pipe'))
  BY DEF Ends, Over, Undisturbed
<1>2. Undisturbed'
  BY <1>1 DEF Undisturbed, Live
<1>3. queue[1].by # Nobody => queue[1].tool = "shot" \/ (pages = open /\ sel = selected)
  <2>1. ~ (queue[1].by # Nobody /\ queue[1].tool = "select" /\ queue[1].tab \notin open)
    BY DEF ChoiceInv, SelectsAimed, Undisturbed
  <2> QED BY <1>1, <2>1 DEF Ends
<1>4. ToldAll'
  <2>1. CASE pipe' = pipe
    BY <2>1 DEF ToldAll, Own, Injected
  <2>2. CASE queue[1].by # Nobody /\ Longer(pipe, Reply(queue[1], pages, sel), pipe')
    <3> DEFINE r == Reply(queue[1], pages, sel)
    <3>1. r.call = queue[1] /\ r.pages = pages /\ r.selected = sel
      BY DEF Reply
    <3> HIDE DEF r
    <3>2. \A i \in DOMAIN pipe' : pipe'[i] = r \/ \E k \in DOMAIN pipe : pipe'[i] = pipe[k]
      BY <2>2 DEF Longer, r
    <3>3. selected # NoTab /\ open # {}
      BY TabsAssumption DEF Undisturbed, Tabs, NoTab
    <3>4. Own(r.call) => r.pages # {} /\ r.selected # NoTab
      BY <1>3, <2>2, <3>1, <3>3 DEF Own, Injected
    <3> QED BY <3>2, <3>4 DEF ToldAll, Own, Injected
  <2> QED BY <1>1, <2>1, <2>2
<1>5. ShotsFronted'
  <2> SUFFICES ASSUME NEW i \in DOMAIN queue', queue'[i].tool = "shot"
               PROVE  /\ selected' = front'
                      /\ \A j \in DOMAIN queue' : j < i => queue'[j].by # Nobody
    BY DEF ShotsFronted
  <2>1. /\ i+1 \in DOMAIN queue /\ queue'[i] = queue[i+1] /\ i \in Nat
        /\ \A j \in DOMAIN queue' : j+1 \in DOMAIN queue /\ queue'[j] = queue[j+1] /\ j \in Nat
    BY <1>1, QueueShifts
  <2>2. selected = front /\ \A j \in DOMAIN queue : j < i+1 => queue[j].by # Nobody
    BY <2>1 DEF ShotsFronted
  <2> QED BY <1>1, <2>1, <2>2
<1>6. SelectFronts'
  <2> SUFFICES ASSUME NEW c \in Captures, phase'[c] = "select", Unmoved(c)', Begun(c)'
               PROVE  selected' = front'
    BY DEF SelectFronts
  <2>1. phase[c] = "select" /\ Unmoved(c)
    BY DEF Unmoved, Live
  <2>2. \A j \in DOMAIN queue : queue[j].by = c => j = 1
    <3> SUFFICES ASSUME NEW j \in DOMAIN queue, queue[j].by = c, j # 1
                 PROVE  FALSE
      OBVIOUS
    <3>1. j \in Nat \ {0} /\ j > 1
      BY MailFacts
    <3>2. j-1 \in DOMAIN queue' /\ queue'[j-1].by = c
      BY <1>1, <3>1, QueueShifts
    <3> QED BY <1>1, <3>2 DEF Begun
  <2>3. CASE queue[1].by = c /\ ~running
    <3>1. queue[1].tool # "list" /\ c # Nobody
      BY <2>1, <2>3, TabsAssumption DEF AskedInPhase, Unmoved
    <3>2. queue[1].tool = "shot"
      BY <2>3, <3>1 DEF Ends, ChoiceInv, SelectsAimed, Undisturbed
    <3> QED BY <1>1, <3>2 DEF ShotsFronted
  <2>4. CASE ~ (queue[1].by = c /\ ~running)
    BY <1>1, <2>1, <2>2, <2>4 DEF SelectFronts, Begun
  <2> QED BY <2>3, <2>4
<1> QED BY <1>2, <1>4, <1>5, <1>6

\* The client's own call is done: every capture that has not noticed is still to list.
LEMMA CalmWhenDone ==
  ASSUME MailOK, ChoiceInv, AskedInPhase, Undisturbed, ToldAll, ShotsFronted,
         1 \in DOMAIN queue, queue[1] \in Calls, queue[1].by = Nobody,
         queue' = queue \/ Shorter(queue, queue'), pipe' = pipe,
         selected' \in open', chosen' = selected',
         UNCHANGED <<selectionEpoch, phase, pass, epoch, target, swap>>
  PROVE  Undisturbed' /\ ToldAll' /\ ShotsFronted' /\ SelectFronts'
<1>1. Undisturbed'
  BY DEF Undisturbed, Live
<1>2. ToldAll'
  BY DEF ToldAll, Own, Injected
<1>3. \A i \in DOMAIN queue : queue[i].tool # "shot"
  <2> SUFFICES ASSUME NEW i \in DOMAIN queue, queue[i].tool = "shot"
               PROVE  FALSE
    OBVIOUS
  <2>1. i \in Nat \ {0} /\ i # 1
    BY MailFacts, CallFacts
  <2>2. 1 < i
    BY <2>1
  <2> QED BY <2>2 DEF ShotsFronted
<1>4. ShotsFronted'
  BY <1>3 DEF Shorter, ShotsFronted
<1>5. ASSUME NEW c \in Captures, phase'[c] = "select", Unmoved(c)' PROVE FALSE
  <2>1. phase[c] = "select" /\ Live(c) /\ ListsLast(c)
    BY <1>5 DEF Unmoved, Live, ChoiceInv, Knows
  <2>2. PICK j \in DOMAIN queue : queue[j].by = c /\ queue[j].tool = "list"
    BY <2>1 DEF ListsLast
  <2> QED BY <2>1, <2>2 DEF AskedInPhase
<1> QED BY <1>1, <1>2, <1>4, <1>5 DEF SelectFronts

\* An injected select brings the tab it selects to the front.
LEMMA CalmWhenFronted ==
  ASSUME MailOK, ChoiceInv, Undisturbed, ToldAll, ShotsFronted,
         1 \in DOMAIN queue, queue[1] \in Calls, queue[1].by # Nobody, Selects,
         UNCHANGED <<selectionEpoch, phase, pass, epoch, target, swap>>
  PROVE  Undisturbed' /\ ToldAll' /\ ShotsFronted' /\ SelectFronts'
<1>1. /\ selected' = front' /\ selected' \in open /\ open' = open /\ chosen' = chosen
      /\ queue' = queue /\ pipe' = pipe
  BY CallFacts DEF Selects
<1>2. Undisturbed'
  BY <1>1 DEF Undisturbed, Live
<1>3. ToldAll'
  BY <1>1 DEF ToldAll, Own, Injected
<1>4. ShotsFronted'
  BY <1>1 DEF ShotsFronted
<1> QED BY <1>1, <1>2, <1>3, <1>4 DEF SelectFronts

LEMMA CalmWhenHeard ==
  ASSUME Types, toClient = {}, Once, ChoiceInv, Calm,
         Undisturbed, ToldAll, ShotsFronted, SelectFronts, HandleReply
  PROVE  Undisturbed' /\ ToldAll' /\ ShotsFronted' /\ SelectFronts'
<1> DEFINE Goal == Undisturbed' /\ ToldAll' /\ ShotsFronted' /\ SelectFronts'
<1>0. /\ MailOK /\ TypeOK /\ RunOK /\ DOMAIN phase = Captures /\ DOMAIN epoch = Captures
      /\ DOMAIN pass = Captures /\ selectionEpoch \in Nat /\ Passes \in Nat
      /\ \A c \in Captures : pass[c] \in Nat /\ epoch[c] \in Nat
  BY TypesGive, TabsAssumption DEF Types, CaptureOK
<1>1. PICK r : Heard(r)
  BY <1>0, ReplyStep
<1> DEFINE c == r.call.by
<1>2. /\ c \in Captures /\ r.pages \subseteq Tabs /\ r.selected \in Tabs \cup {NoTab}
      /\ 1 \in DOMAIN pipe /\ r = pipe[1] /\ pipe[1].call.by = c /\ Shorter(pipe, pipe')
      /\ UNCHANGED <<open, front, selected, running, chosen, selectionEpoch, swap>>
  BY <1>0, <1>1, ReplyStep, AnswerFacts DEF Heard
<1>3. \A i \in DOMAIN pipe' : \E k \in DOMAIN pipe : pipe'[i] = pipe[k]
  BY <1>2 DEF Shorter
<1>4. \A j \in DOMAIN queue : queue[j].by # c
  BY <1>2 DEF Once, AskedOrAnswered
<1> HIDE DEF c
<1>5. CASE Unheeded(c)
  <2>1. /\ \A d \in Captures : phase'[d] = phase[d] \/ phase'[d] = "done"
        /\ queue' = queue /\ pass' = pass /\ epoch' = epoch
    BY <1>0, <1>2, <1>5 DEF Unheeded
  <2>2. Undisturbed'
    BY <1>2, <2>1 DEF Undisturbed, Live
  <2>3. ToldAll'
    BY <1>3 DEF ToldAll, Own, Injected
  <2>4. ShotsFronted' /\ SelectFronts'
    BY <1>2, <2>1 DEF ShotsFronted, SelectFronts, Unmoved, Live, Begun
  <2> QED BY <2>2, <2>3, <2>4
<1>6. CASE Live(c) /\ Own(r.call) /\ Heeds(c, r)
  <2>1. /\ r.pages # {} /\ r.selected # NoTab /\ phase[c] \in {"list", "select"}
        /\ pass[c] <= epoch[c] /\ epoch[c] <= selectionEpoch /\ selectionEpoch < Passes
    BY <1>2, <1>6 DEF ToldAll, Undisturbed, Live, ChoiceInv, EpochsPast, Calm
  <2>2. ClientChoseSince(c) => pass[c] + 1 <= selectionEpoch
    BY <1>0, <1>2, <2>1 DEF ClientChoseSince
  <2>3. ASSUME NEW n, StartPass(c, n), n <= selectionEpoch PROVE Goal
    <3> DEFINE e == Call("list", c, NoTab, FALSE)
    <3>1. e.by = c /\ e.tool = "list" /\ Longer(queue, e, queue')
      BY <1>0, <1>2, <2>3, StartPassSends DEF Call
    <3>2. /\ \A d \in Captures : d # c =>
                phase'[d] = phase[d] /\ epoch'[d] = epoch[d] /\ pass'[d] = pass[d]
          /\ epoch'[c] = selectionEpoch /\ phase'[c] = "list" /\ pass'[c] = n
      BY <1>0, <1>2, <2>3 DEF StartPass, Become
    <3> HIDE DEF e
    <3> QED BY <1>0, <1>2, <1>3, <2>3, <3>1, <3>2, CalmWhenLists
  <2>4. ASSUME Forward(c), phase[c] = "select", ~ClientChoseSince(c) PROVE Goal
    <3> DEFINE e == Call("shot", c, NoTab, FALSE)
    <3>1. e.by = c /\ Longer(queue, e, queue')
      BY <1>0, <1>2, <2>4, ForwardSends DEF Call
    <3>2. /\ \A d \in Captures : d # c =>
                phase'[d] = phase[d] /\ epoch'[d] = epoch[d] /\ pass'[d] = pass[d]
          /\ phase'[c] = "sent"
      BY <1>0, <1>2, <2>4 DEF Forward, Become
    <3>3. \A j \in DOMAIN queue : queue[j].by # Nobody
      BY <1>2, <1>6, <2>4, ReplyTrue
    <3>4. selected = front
      BY <1>2, <1>4, <1>6, <2>4 DEF SelectFronts, Unmoved, ClientChoseSince, Begun
    <3> HIDE DEF e
    <3> QED BY <1>0, <1>2, <1>3, <3>1, <3>2, <3>3, <3>4, CalmWhenForwards
  <2>5. ASSUME SelectToFront(c, r.selected, "select") PROVE Goal
    <3> DEFINE e == Call("select", c, r.selected, TRUE)
    <3>1. e.by = c /\ e.tool = "select" /\ Longer(queue, e, queue')
      BY <1>0, <1>2, <2>5, SelectSends DEF Call
    <3>2. /\ \A d \in Captures : d # c => phase'[d] = phase[d]
          /\ epoch' = epoch /\ pass' = pass /\ phase'[c] = "select"
      BY <1>0, <1>2, <2>5 DEF SelectToFront, Become
    <3> HIDE DEF e
    <3> QED BY <1>0, <1>2, <1>3, <1>6, <3>1, <3>2, CalmWhenAims
  <2>6. CASE \E n \in 0..Passes-1 : /\ StartPass(c, n) /\ n = pass[c] + 1
                                   /\ (ClientChoseSince(c) \/ r.pages = {})
    BY <2>1, <2>2, <2>3, <2>6
  <2>7. CASE /\ Forward(c)
             /\ phase[c] = "list" =>
                  r.selected = NoTab \/ (ClientChoseSince(c) /\ pass[c] + 1 >= Passes)
             /\ phase[c] = "select" =>
                  pass[c] + 1 >= Passes \/ ~ (ClientChoseSince(c) \/ r.pages = {})
    <3>1. ~ (ClientChoseSince(c) /\ pass[c] + 1 >= Passes)
      BY <1>0, <1>2, <2>1, <2>2
    <3>2. phase[c] = "select"
      BY <2>1, <2>7, <3>1
    <3>3. CASE ~ClientChoseSince(c)
      BY <2>4, <2>7, <3>2, <3>3
    <3>4. CASE ClientChoseSince(c)
      BY <2>7, <3>1, <3>2, <3>4
    <3> QED BY <3>3, <3>4
  <2>8. CASE /\ phase[c] = "select" /\ ~ClientChoseSince(c)
             /\ r.pages # {} /\ r.selected # target[c]
             /\ \E t \in r.pages : SelectToFront(c, t, "restore")
    <3>1. chosen \notin open
      BY <1>2, <1>6, <2>8, ReplyTrue
    <3> QED BY <3>1 DEF Undisturbed
  <2> QED BY <1>6, <2>5, <2>6, <2>7, <2>8 DEF Heeds
<1> QED BY <1>1, <1>5, <1>6 DEF Heard, c

LEMMA CalmStep ==
  ASSUME Types, toClient = {}, Once, PhaseInv, ChoiceInv, trouble \in Nat, CalmInv, [Next]_vars
  PROVE  CalmInv'
<1> SUFFICES ASSUME Calm'
             PROVE  Undisturbed' /\ ToldAll' /\ ShotsFronted' /\ SelectFronts'
  BY DEF CalmInv
<1> DEFINE Goal == Undisturbed' /\ ToldAll' /\ ShotsFronted' /\ SelectFronts'
<1>0. /\ MailOK /\ TypeOK /\ RunOK /\ DOMAIN phase = Captures /\ DOMAIN epoch = Captures
      /\ DOMAIN pass = Captures /\ selectionEpoch \in Nat /\ open \subseteq Tabs
      /\ \A c \in Captures : pass[c] \in Nat /\ epoch[c] \in Nat
  BY TypesGive, TabsAssumption DEF Types, CaptureOK, BrowserOK, Tabs
<1>1. /\ Calm /\ trouble' = trouble
      /\ Undisturbed /\ ToldAll /\ ShotsFronted /\ SelectFronts
  BY CalmBefore DEF CalmInv
<1>2. ASSUME UNCHANGED <<open, front, selected, chosen, queue, running, pipe, selectionEpoch,
                         pass, epoch, swap>>,
             \A d \in Captures : phase'[d] = phase[d] \/ phase'[d] = "failed"
      PROVE  Goal
  <2>1. Undisturbed'
    BY <1>1, <1>2 DEF Undisturbed, Live
  <2>2. ToldAll'
    BY <1>1, <1>2 DEF ToldAll, Own, Injected
  <2>3. ShotsFronted' /\ SelectFronts'
    BY <1>1, <1>2 DEF ShotsFronted, SelectFronts, Unmoved, Live, Begun
  <2> QED BY <2>1, <2>2, <2>3
<1>3. ASSUME NEW c \in Captures, Capture(c) PROVE Goal
  <2>1. UNCHANGED <<open, front, selected, running, chosen, selectionEpoch, swap, pipe>>
    BY <1>0, <1>3, CaptureStep
  <2>2. CASE StartPass(c, 0)
    <3> DEFINE e == Call("list", c, NoTab, FALSE)
    <3>1. e.by = c /\ e.tool = "list" /\ Longer(queue, e, queue')
      BY <1>0, <2>2, StartPassSends DEF Call
    <3>2. /\ \A d \in Captures : d # c =>
                phase'[d] = phase[d] /\ epoch'[d] = epoch[d] /\ pass'[d] = pass[d]
          /\ epoch'[c] = selectionEpoch /\ phase'[c] = "list" /\ pass'[c] = 0
      BY <1>0, <2>2 DEF StartPass, Become
    <3> HIDE DEF e
    <3> QED BY <1>0, <1>1, <2>1, <3>1, <3>2, CalmWhenLists
  <2>3. CASE Become(c, "failed") /\ UNCHANGED <<queue, pass, epoch, target>>
    <3>1. \A d \in Captures : phase'[d] = phase[d] \/ phase'[d] = "failed"
      BY <1>0, <2>3 DEF Become
    <3> QED BY <1>2, <2>1, <2>3, <3>1
  <2> QED BY <1>0, <1>3, <2>2, <2>3, CaptureStep
<1>4. ASSUME NEW call \in SelectionCalls, Choose(call) PROVE Goal
  <2>1. /\ pipe' = pipe /\ Longer(queue, call, queue') /\ call.by = Nobody /\ call \in Calls
        /\ selectionEpoch' = selectionEpoch + 1
        /\ UNCHANGED <<open, front, selected, running, chosen, phase, pass, epoch, target, swap>>
    <3>1. call \in ClientCalls
      BY ChoiceCalls
    <3> QED BY <1>0, <1>4, <3>1, ChooseStep DEF Calls
  <2>2. Undisturbed'
    BY <1>1, <2>1 DEF Undisturbed, Live
  <2>3. ToldAll'
    BY <1>1, <2>1 DEF ToldAll, Own, Injected
  <2>4. ShotsFronted'
    BY <1>1, <2>1, CallFacts DEF Longer, ShotsFronted
  <2>5. \A c \in Captures : ~Unmoved(c)'
    BY <1>0, <2>1 DEF ChoiceInv, EpochsPast, Unmoved
  <2> QED BY <2>2, <2>3, <2>4, <2>5 DEF SelectFronts
<1>5. CASE HandleReply
  BY <1>1, <1>5, CalmWhenHeard
<1>6. CASE Serve
  <2>1. /\ ChildMoves /\ 1 \in DOMAIN queue /\ queue[1] \in Calls
        /\ UNCHANGED <<selectionEpoch, phase, pass, epoch, target, swap>>
    BY <1>0, <1>6, ChildStep, ChildLeaves, MailFacts
  <2>2. ASSUME NEW pages, NEW sel, Ends(pages, sel) PROVE Goal
    BY <1>0, <1>1, <2>1, <2>2, CalmWhenEnds DEF PhaseInv
  <2>3. CASE Opens
    BY <1>0, <1>1, <2>1, <2>3, CalmWhenDone DEF Opens, PhaseInv
  <2>4. CASE Selects /\ queue[1].by = Nobody
    BY <1>0, <1>1, <2>1, <2>4, CalmWhenDone DEF Selects, PhaseInv
  <2>5. CASE Selects /\ queue[1].by # Nobody
    BY <1>0, <1>1, <2>1, <2>5, CalmWhenFronted
  <2> QED BY <2>1, <2>2, <2>3, <2>4, <2>5 DEF ChildMoves
<1>7. ASSUME NEW t \in Tabs, TabGoes(t) PROVE Goal
  BY <1>1, <1>7 DEF TabGoes
<1>8. CASE Swap
  BY <1>1, <1>8 DEF Swap, SwapBegins, SwapCloses, SwapEnds, Undisturbed
<1>9. CASE UNCHANGED vars
  BY <1>2, <1>9 DEF vars, browser, child, capture
<1> QED BY <1>3, <1>4, <1>5, <1>6, <1>7, <1>8, <1>9 DEF Next

-----------------------------------------------------------------------------
(* The theorems about choices and captures.                                *)

IInv ==
  /\ Types /\ toClient = {} /\ Once /\ PhaseInv /\ ChoiceInv
  /\ trouble \in Nat /\ CalmInv

LEMMA IInvInit == Init => IInv
<1> SUFFICES ASSUME Init PROVE IInv
  OBVIOUS
<1>0. /\ DOMAIN queue = {} /\ DOMAIN pipe = {} /\ selected = chosen /\ Types /\ toClient = {}
      /\ \A c \in Captures : phase[c] = "idle" /\ epoch[c] = 0
  <2>1. DOMAIN queue = {} /\ DOMAIN pipe = {}
    BY DEF Init
  <2> QED BY <2>1, TypesInit DEF Init
<1>1. Once
  BY <1>0 DEF Once, OnceAsked, OnceAnswered, AskedOrAnswered, IdleAsksNothing
<1>2. PhaseInv
  BY <1>0 DEF Init, PhaseInv, LiveUnswapped, StartsEmpty, AskedInPhase, Live
<1>3. ChoiceInv
  BY <1>0 DEF Init, ChoiceInv, Selected, SelectsAimed, EpochsPast, Knows, Unmoved, Live
<1>4. CalmInv
  BY <1>0 DEF Init, CalmInv, Undisturbed, ToldAll, ShotsFronted, SelectFronts, Live
<1> QED BY <1>0, <1>1, <1>2, <1>3, <1>4 DEF Init, IInv

LEMMA IInvStep == IInv /\ [Next]_vars => IInv'
BY TypesStep, OnceStep, PhaseStep, ChoiceStep, CalmBefore, CalmStep DEF IInv

\* An injected select leaves the child on the tab the client chose, however its calls, the
\* captures and the closing tabs fall between (selectToFront, clientChoseSince).
THEOREM ChoicesStand == Spec => ChoiceStands
<1>1. ASSUME IInv, SelectPage, Injected(Head(queue)), selected' # selected
      PROVE  chosen \notin open
  <2>1. queue # <<>> /\ Head(queue).tool = "select" /\ ~running
    BY <1>1 DEF SelectPage, Serving
  <2>2. /\ 1 \in DOMAIN queue /\ Head(queue) = queue[1] /\ queue[1].by # Nobody
    BY <1>1, <2>1, TailShorter DEF IInv, Types, MailOK, Injected
  <2>3. chosen \in open => queue[1].tab = chosen /\ selected = chosen
    BY <1>1, <2>1, <2>2 DEF IInv, ChoiceInv, SelectsAimed, Selected
  <2>4. selected' = selected \/ selected' = queue[1].tab
    BY <1>1, <2>2 DEF SelectPage
  <2> QED BY <1>1, <2>3, <2>4
<1>2. IInv => [SelectPage /\ Injected(Head(queue)) /\ selected' # selected => chosen \notin open]_vars
  BY <1>1
<1> QED BY <1>2, IInvInit, IInvStep, PTL DEF Spec, ChoiceStands

\* While nothing but the client moves tabs, and it chooses less often than a capture may
\* read again, every capture is of the tab in front (activateThenForward).
THEOREM CapturesInFront == Spec => CaptureInFront
<1>1. ASSUME IInv, Screenshot, trouble = 0, selectionEpoch < Passes
      PROVE  selected = front
  <2>1. queue # <<>> /\ Head(queue).tool = "shot"
    BY <1>1 DEF Screenshot, Serving
  <2>2. 1 \in DOMAIN queue /\ Head(queue) = queue[1]
    BY <1>1, <2>1, TailShorter DEF IInv, Types, MailOK
  <2> QED BY <1>1, <2>1, <2>2 DEF IInv, CalmInv, Calm, ShotsFronted
<1>2. IInv => [Screenshot /\ trouble = 0 /\ selectionEpoch < Passes => selected = front]_vars
  BY <1>1
<1> QED BY <1>2, IInvInit, IInvStep, PTL DEF Spec, CaptureInFront
=============================================================================
