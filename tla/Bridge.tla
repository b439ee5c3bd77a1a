------------------------------- MODULE Bridge -------------------------------
(***************************************************************************)
(* One session's bridge (gateway/src/bridge.ts): the client's requests on  *)
(* one side, a replaceable chrome-devtools-mcp child on the other, and the *)
(* three things that replace it: the lazy attach of a browser, the respawn *)
(* of a lost child, and chikin_reset.                                      *)
(*                                                                         *)
(* A step is the synchronous code between two awaits.  Children are known  *)
(* by their generation.  A request is used once; its id is not reused.      *)
(***************************************************************************)
EXTENDS Naturals, FiniteSets

CONSTANTS
  Plain,       \* requests any child can serve
  Browsing,    \* requests that need a browser (isBrowserWork)
  Resets,      \* chikin_reset requests
  MaxAttempts, \* MAX_RESPAWN_ATTEMPTS
  MaxFaults,   \* bound: how often something fails
  Faults,      \* which: "exit", "wedge", "provision", "spawn", "replay", "remove"
  MayClose     \* whether the session may be closed from outside

Requests == Plain \cup Browsing \cup Resets

ASSUME BridgeAssumption ==
  /\ IsFiniteSet(Requests)
  /\ Plain \cap Browsing = {} /\ Plain \cap Resets = {} /\ Browsing \cap Resets = {}
  /\ MaxAttempts \in Nat \ {0} /\ MaxFaults \in Nat
  /\ Faults \subseteq {"exit", "wedge", "provision", "spawn", "replay", "remove"}
  /\ MayClose \in BOOLEAN

VARIABLES
  closed,     \* Session.closed
  childGen,   \* generations handed out
  child,      \* the generation of the installed child
  respawning, \* "the child is being replaced"
  currentIp,  \* the session has a browser's address
  attach,     \* attachBrowser: none | provision | swapWait | start | replay | done | failed
  discard,    \* the generations its finally closes: `old`, and `spawned` until installed
  respawn,    \* respawnChild: none | closing | attempt | provision | start | replay | failed | probe
  attempt,    \* its attempt number
  wantBrowser,\* the respawned child gets a browser
  req,        \* per request: new | attach | inflight | wait | recreate | respawn | answered
  sent,       \* per request: the generation that has it
  replies,    \* per request: how often http.send was called with its id
  resetOk,    \* resets answered "container recreated and devtools reattached"
  removed,    \* resets whose recreateContainer removed the container
  alive,      \* generations whose process runs
  exited,     \* generations that died and whose close event is still to come
  bound,      \* generations given the address of the container that exists now
  fresh,      \* "attach", "respawn": the address in hand is that container's
  faults      \* bound counter

session == <<closed, childGen, child, respawning, currentIp>>
swapper == <<respawn, attempt, wantBrowser>>
client  == <<req, sent, replies, resetOk, removed>>
procs   == <<alive, exited, bound, fresh>>
vars    == <<session, attach, discard, swapper, client, procs, faults>>

AttachSteps  == {"none", "provision", "swapWait", "start", "replay", "done", "failed"}
RespawnSteps == {"none", "closing", "attempt", "provision", "start", "replay", "failed", "probe"}
RequestSteps == {"new", "attach", "inflight", "wait", "recreate", "respawn", "answered"}

SessionOK ==
  /\ closed \in BOOLEAN /\ respawning \in BOOLEAN
  /\ currentIp \in BOOLEAN /\ wantBrowser \in BOOLEAN
  /\ childGen \in Nat /\ child \in Nat /\ attempt \in 0..MaxAttempts /\ faults \in Nat
  /\ attach \in AttachSteps /\ respawn \in RespawnSteps
RequestsOK ==
  /\ req \in [Requests -> RequestSteps]
  /\ sent \in [Requests -> Nat] /\ replies \in [Requests -> Nat]
  /\ resetOk \subseteq Resets /\ removed \subseteq Resets
ProcsOK ==
  /\ alive \subseteq Nat /\ exited \subseteq Nat /\ bound \subseteq Nat /\ discard \subseteq Nat
  /\ fresh \subseteq {"attach", "respawn"}

\* The steps of attachBrowser and respawnChild and of every request are among
\* those the awaits cut, and no swap counts past its last attempt (MAX_RESPAWN_ATTEMPTS).
TypeOK == SessionOK /\ RequestsOK /\ ProcsOK

\* createSession: a browser-less child is up before the client's first frame.
Init ==
  /\ closed = FALSE /\ childGen = 1 /\ child = 1
  /\ respawning = FALSE /\ currentIp = FALSE
  /\ attach = "none" /\ discard = {}
  /\ respawn = "none" /\ attempt = 0 /\ wantBrowser = FALSE
  /\ req = [r \in Requests |-> "new"]
  /\ sent = [r \in Requests |-> 0] /\ replies = [r \in Requests |-> 0]
  /\ resetOk = {} /\ removed = {}
  /\ alive = {1} /\ exited = {} /\ bound = {} /\ fresh = {}
  /\ faults = 0

-----------------------------------------------------------------------------
(* Helpers.                                                                *)

Fault(kind) == kind \in Faults /\ faults < MaxFaults /\ faults' = faults + 1

Inflight == { r \in Requests : req[r] = "inflight" }
Waiters  == { r \in Requests : req[r] = "attach" }
Owners   == { r \in Resets : req[r] = "respawn" }

\* http.send of a reply to each request of R; a closed session sends nothing.
Answer(R) ==
  /\ req' = [r \in Requests |-> IF r \in R THEN "answered" ELSE req[r]]
  /\ replies' = [r \in Requests |-> IF r \in R /\ ~closed THEN replies[r] + 1 ELSE replies[r]]

\* close() of children the gateway holds; their close events go unheard.
CloseProcs(G) == alive' = alive \ G /\ exited' = exited \ G

\* Slip: a replacement does not fail what the lost child had.
FailNone == Answer({})

FailAllInflight == Answer(Inflight)

\* Slip: every child is heard.
HeardAlways(g) == g > 0

\* The pump's generation check: a discarded child is not heard.
Heard(g) == g = childGen

\* Slip: a respawn is not held back by another replacement.
CanAlways == ~closed

\* respawnChild's guard, and attachBrowser's before its swap.
CanRespawn == ~closed /\ ~respawning

AttemptsLeft == attempt < MaxAttempts

\* respawnChild up to its first await (its failAllInflight is the caller's Answer).
EnterRespawn ==
  /\ respawning' = TRUE
  /\ respawn' = "closing" /\ attempt' = 0
  /\ UNCHANGED wantBrowser

\* Slip: a reset reports success without looking whether a replacement runs.
ReportedBlindly(R) == IF closed THEN {} ELSE R

\* The resets of R that are answered with success: those that find a child and
\* no replacement under way once respawnChild has returned.
Reported(R) == IF closed \/ respawning' THEN {} ELSE R

\* respawnChild's finally; the reset awaiting it reports what it sees.
LeaveRespawn ==
  /\ respawning' = FALSE
  /\ respawn' = "none"
  /\ Answer(Owners)
  /\ resetOk' = resetOk \cup Reported(Owners)

HandOver(R) ==
  /\ req' = [r \in Requests |-> IF r \in R THEN "inflight" ELSE req[r]]
  /\ sent' = [r \in Requests |-> IF r \in R THEN child ELSE sent[r]]
  /\ UNCHANGED replies

\* forwardToChild for the requests of R: refused while the child is replaced.
Forward(R) == IF respawning THEN Answer(R) /\ UNCHANGED sent ELSE HandOver(R)

-----------------------------------------------------------------------------
(* The client's frames (http.onmessage) and the child's.                   *)

browserReady == currentIp /\ attach = "none"

SendPlain(r) ==
  /\ r \in Plain /\ req[r] = "new" /\ ~closed
  /\ Forward({r})
  /\ UNCHANGED <<session, attach, discard, swapper, resetOk, removed, procs, faults>>

\* Browser work goes straight to the child, or joins or starts the attach.
SendBrowsing(r) ==
  /\ r \in Browsing /\ req[r] = "new" /\ ~closed
  /\ \/ /\ browserReady
        /\ Forward({r})
        /\ UNCHANGED attach
     \/ /\ ~browserReady
        /\ req' = [req EXCEPT ![r] = "attach"]
        /\ attach' = IF attach = "none" THEN "provision" ELSE attach
        /\ UNCHANGED <<sent, replies>>
  /\ UNCHANGED <<session, discard, swapper, resetOk, removed, procs, faults>>

SendReset(r) ==
  /\ r \in Resets /\ req[r] = "new" /\ ~closed
  /\ req' = [req EXCEPT ![r] = "wait"]
  /\ UNCHANGED <<session, attach, discard, swapper, sent, replies, resetOk, removed, procs, faults>>

\* A reply: not passed on from a generation that is no longer the current one.
ChildReplies(r) ==
  /\ sent[r] \in alive
  /\ sent' = [sent EXCEPT ![r] = 0]
  /\ IF Heard(sent[r]) THEN Answer({r}) ELSE UNCHANGED <<req, replies>>
  /\ UNCHANGED <<session, attach, discard, swapper, resetOk, removed, procs, faults>>

\* A send into a transport that has closed: fail the request unless a respawn
\* has, and replace the child unless the send used an earlier one.
SendFails(r) ==
  /\ sent[r] # 0 /\ sent[r] \notin alive \cup exited
  /\ sent' = [sent EXCEPT ![r] = 0]
  /\ IF Heard(sent[r]) /\ CanRespawn
     THEN FailAllInflight /\ EnterRespawn
     ELSE /\ Answer(Inflight \cap {r})
          /\ UNCHANGED <<respawning, swapper>>
  /\ UNCHANGED <<closed, childGen, child, currentIp, attach, discard, resetOk, removed, procs, faults>>

\* The child's process dies.
ChildDies(g) ==
  /\ Fault("exit") /\ g \in alive
  /\ alive' = alive \ {g} /\ exited' = exited \cup {g}
  /\ UNCHANGED <<session, attach, discard, swapper, client, bound, fresh>>

\* onclose of generation g.
ChildGone(g) ==
  /\ g \in exited /\ exited' = exited \ {g}
  /\ IF Heard(g) /\ CanRespawn
     THEN FailAllInflight /\ EnterRespawn
     ELSE UNCHANGED <<req, replies, respawning, swapper>>
  /\ UNCHANGED <<closed, childGen, child, currentIp, attach, discard, sent, resetOk, removed,
                 alive, bound, fresh, faults>>

\* A watchdog (CDP failures, disagreeing navigations) gives up on a live child.
Wedge ==
  /\ Fault("wedge") /\ currentIp /\ CanRespawn
  /\ FailAllInflight /\ EnterRespawn
  /\ UNCHANGED <<closed, childGen, child, currentIp, attach, discard, sent, resetOk, removed, procs>>

\* Session.close: whatever child is installed now is closed with it.
CloseSession ==
  /\ MayClose /\ ~closed
  /\ closed' = TRUE
  /\ CloseProcs({child})
  /\ UNCHANGED <<childGen, child, respawning, currentIp, attach, discard, swapper, client,
                 bound, fresh, faults>>

-----------------------------------------------------------------------------
(* attachBrowser, one at a time: ensureBrowser shares the promise.         *)

\* provision() answers, or throws: the waiting calls fail, nothing is torn down.
AttachProvisioned ==
  /\ attach = "provision"
  /\ \/ /\ attach' = IF closed THEN "done" ELSE "swapWait"
        /\ fresh' = fresh \cup {"attach"}
        /\ UNCHANGED <<req, replies, faults>>
     \/ /\ Fault("provision")
        /\ attach' = "none"
        /\ Answer(Waiters)
        /\ UNCHANGED fresh
  /\ UNCHANGED <<session, discard, swapper, sent, resetOk, removed, alive, exited, bound>>

\* The swap, once no other replacement runs, up to the await of the new child.
AttachSwap ==
  /\ attach = "swapWait" /\ CanRespawn
  /\ attach' = "start"
  /\ respawning' = TRUE
  /\ discard' = {child}
  /\ childGen' = childGen + 1
  /\ currentIp' = TRUE
  /\ FailAllInflight
  /\ UNCHANGED <<closed, child, swapper, sent, resetOk, removed, procs, faults>>

AttachCalledOff ==
  /\ attach = "swapWait" /\ closed
  /\ attach' = "done"
  /\ UNCHANGED <<session, discard, swapper, client, procs, faults>>

\* The catch: hand over to respawnChild, which declines on a closed session.
AttachThrows ==
  /\ attach' = "failed"
  /\ IF closed
     THEN respawning' = FALSE /\ UNCHANGED <<swapper, req, replies>>
     ELSE EnterRespawn /\ FailAllInflight
  /\ UNCHANGED child

AttachStarts ==
  /\ attach = "start"
  /\ \/ /\ attach' = "replay"
        /\ alive' = alive \cup {childGen}
        /\ bound' = IF "attach" \in fresh THEN bound \cup {childGen} ELSE bound
        /\ discard' = discard \cup {childGen}
        /\ UNCHANGED <<respawning, child, swapper, req, replies, faults>>
     \/ /\ Fault("spawn") /\ AttachThrows
        /\ UNCHANGED <<alive, bound, discard>>
  /\ UNCHANGED <<closed, childGen, currentIp, sent, resetOk, removed, exited, fresh>>

\* Slip: nothing is left for the finally to close.
InstallOnly == child' = childGen /\ discard' = {}

Install == child' = childGen /\ discard' = discard \ {childGen}

\* Nobody owns the child of a session that was closed during the swap.
AttachInstalls == IF closed THEN UNCHANGED <<child, discard>> ELSE Install

\* initialize was replayed: install the child, unless the session is over.
\* A child that died unheard runs into the replay's timeout.
AttachReplayed ==
  /\ attach = "replay"
  /\ \/ /\ childGen \in alive
        /\ attach' = "done"
        /\ respawning' = FALSE
        /\ AttachInstalls
        /\ UNCHANGED <<swapper, req, replies, faults>>
     \/ /\ Fault("replay") /\ AttachThrows /\ UNCHANGED discard
     \/ /\ childGen \notin alive
        /\ AttachThrows /\ UNCHANGED <<discard, faults>>
  /\ UNCHANGED <<closed, childGen, currentIp, sent, resetOk, removed, procs>>

\* The finally closes what nobody owns; then the waiting calls go on.
AttachEnds ==
  /\ attach \in {"done", "failed"}
  /\ attach' = "none"
  /\ CloseProcs(discard) /\ discard' = {}
  /\ fresh' = fresh \ {"attach"}
  /\ IF attach = "done" /\ ~closed
     THEN Forward(Waiters)
     ELSE Answer(Waiters) /\ UNCHANGED sent
  /\ UNCHANGED <<session, swapper, resetOk, removed, bound, faults>>

Attach == \/ AttachProvisioned \/ AttachSwap \/ AttachCalledOff \/ AttachStarts
          \/ AttachReplayed \/ AttachEnds

-----------------------------------------------------------------------------
(* respawnChild.                                                           *)

\* The lost child is closed; only now is it decided what the new one gets.
RespawnClosed ==
  /\ respawn = "closing"
  /\ respawn' = "attempt"
  /\ CloseProcs({child})
  /\ wantBrowser' = currentIp
  /\ UNCHANGED <<session, attach, discard, attempt, client, bound, fresh, faults>>

\* The head of the loop.
RespawnAttempt ==
  /\ respawn = "attempt"
  /\ ~closed /\ AttemptsLeft
  /\ attempt' = attempt + 1
  /\ childGen' = childGen + 1
  /\ respawn' = IF wantBrowser THEN "provision" ELSE "start"
  /\ UNCHANGED <<closed, child, respawning, currentIp, attach, discard, wantBrowser, client, procs, faults>>

\* No attempt for a closed session; after the last one the session is closed.
RespawnOver ==
  /\ respawn = "attempt"
  /\ closed \/ ~AttemptsLeft
  /\ closed' = TRUE
  /\ CloseProcs(IF closed THEN {} ELSE {child})
  /\ respawning' = FALSE /\ respawn' = "none"
  /\ req' = [r \in Requests |-> IF r \in Owners THEN "answered" ELSE req[r]]
  /\ UNCHANGED <<childGen, child, currentIp, attach, discard, attempt, wantBrowser,
                 sent, replies, resetOk, removed, bound, fresh, faults>>

RespawnProvisioned ==
  /\ respawn = "provision"
  /\ \/ /\ respawn' = "start"
        /\ fresh' = fresh \cup {"respawn"}
        /\ UNCHANGED faults
     \/ /\ Fault("provision")
        /\ respawn' = "failed"
        /\ UNCHANGED fresh
  /\ UNCHANGED <<session, attach, discard, attempt, wantBrowser, client, alive, exited, bound>>

\* The child is started whether or not the session was closed meanwhile.
RespawnStarts ==
  /\ respawn = "start"
  /\ \/ /\ respawn' = "replay"
        /\ alive' = alive \cup {childGen}
        /\ bound' = IF "respawn" \in fresh THEN bound \cup {childGen} ELSE bound
        /\ UNCHANGED faults
     \/ /\ Fault("spawn")
        /\ respawn' = "failed"
        /\ UNCHANGED <<alive, bound>>
  /\ fresh' = fresh \ {"respawn"}
  /\ UNCHANGED <<session, attach, discard, attempt, wantBrowser, client, exited>>

\* initialize was replayed: the child is installed, on a closed session too.
RespawnReplayed ==
  /\ respawn = "replay" /\ childGen \in alive
  /\ child' = childGen
  /\ respawn' = "probe"
  /\ UNCHANGED <<closed, childGen, respawning, currentIp, attach, discard, attempt, wantBrowser,
                 client, procs, faults>>

RespawnReplayFails ==
  /\ respawn = "replay"
  /\ \/ Fault("replay")
     \/ childGen \notin alive /\ UNCHANGED faults
  /\ respawn' = "failed"
  /\ UNCHANGED <<session, attach, discard, attempt, wantBrowser, client, procs>>

\* The failed attempt's child, if it came that far, is closed.
RespawnRetries ==
  /\ respawn = "failed"
  /\ respawn' = "attempt"
  /\ CloseProcs({childGen})
  /\ UNCHANGED <<session, attach, discard, attempt, wantBrowser, client, bound, fresh, faults>>

\* The browser's version is read, if it has one, and the respawn is over.
RespawnEnds ==
  /\ respawn = "probe"
  /\ LeaveRespawn
  /\ UNCHANGED <<closed, childGen, child, currentIp, attach, discard, attempt, wantBrowser, sent,
                 removed, procs, faults>>

Respawn == \/ RespawnClosed \/ RespawnAttempt \/ RespawnOver \/ RespawnProvisioned
           \/ RespawnStarts \/ RespawnReplayed \/ RespawnReplayFails \/ RespawnRetries
           \/ RespawnEnds

-----------------------------------------------------------------------------
(* handleReset.                                                            *)

\* A replacement in progress is waited out; then there must be a browser, and
\* not one that is just being attached.
ResetGoes(r) ==
  /\ req[r] = "wait" /\ ~respawning /\ ~closed
  /\ IF attach # "none" \/ ~currentIp
     THEN Answer({r})
     ELSE req' = [req EXCEPT ![r] = "recreate"] /\ UNCHANGED replies
  /\ UNCHANGED <<session, attach, discard, swapper, sent, resetOk, removed, procs, faults>>

ResetDropped(r) ==
  /\ req[r] = "wait" /\ closed
  /\ Answer({r})
  /\ UNCHANGED <<session, attach, discard, swapper, sent, resetOk, removed, procs, faults>>

\* recreateContainer returns.  A removal that fails is logged and no more.
\* respawnChild then declines if a replacement runs, and the reply says so.
ResetRecreated(r) ==
  /\ req[r] = "recreate"
  /\ \/ /\ bound' = {} /\ fresh' = {} /\ removed' = removed \cup {r}
        /\ UNCHANGED faults
     \/ /\ Fault("remove")
        /\ UNCHANGED <<bound, fresh, removed>>
  /\ IF CanRespawn
     THEN /\ EnterRespawn /\ UNCHANGED resetOk
          /\ req' = [q \in Requests |-> IF q = r THEN "respawn"
                                        ELSE IF q \in Inflight THEN "answered" ELSE req[q]]
          /\ replies' = [q \in Requests |-> IF q \in Inflight THEN replies[q] + 1 ELSE replies[q]]
     ELSE /\ Answer({r}) /\ UNCHANGED <<respawning, swapper>>
          /\ resetOk' = resetOk \cup Reported({r})
  /\ UNCHANGED <<closed, childGen, child, currentIp, attach, discard, sent, alive, exited>>

Reset(r) == ResetGoes(r) \/ ResetDropped(r) \/ ResetRecreated(r)

-----------------------------------------------------------------------------
Generations == 1..childGen

Next ==
  \/ \E r \in Requests : \/ SendPlain(r) \/ SendBrowsing(r) \/ SendReset(r)
                         \/ ChildReplies(r) \/ SendFails(r) \/ Reset(r)
  \/ \E g \in Generations : ChildDies(g) \/ ChildGone(g)
  \/ Wedge \/ CloseSession
  \/ Attach \/ Respawn

Spec == Init /\ [][Next]_vars

\* Promises settle: a running step comes to its end, a live child answers,
\* a close event is delivered.  Nothing makes the client send or leave.
Fairness ==
  /\ WF_vars(Attach) /\ WF_vars(Respawn)
  /\ \A r \in Requests : WF_vars(Reset(r)) /\ WF_vars(ChildReplies(r)) /\ WF_vars(SendFails(r))
  /\ WF_vars(\E g \in Generations : ChildGone(g))

FairSpec == Spec /\ Fairness

-----------------------------------------------------------------------------
(* Properties.                                                             *)

\* At most one swap at a time: while attachBrowser holds a child that is not
\* installed yet, no respawnChild is under way, whatever died or was reset.
SwapAlone == attach \in {"start", "replay"} => respawn = "none"

\* Between replacements the installed child is the generation the pump listens
\* to, and every request in flight is with it: none is waiting for a reply that
\* would be dropped.
CurrentServes ==
  ~closed /\ ~respawning => /\ child = childGen
                            /\ \A r \in Inflight : sent[r] = childGen

\* No request gets two replies (forwardToChild, failAllInflight, the pump's
\* generation check, and the calls that wait for the attach), but for one way:
\* a child that is being closed is still listened to until the generation is
\* bumped, so it may answer what respawnChild has answered with an error.
SecondReplyOnlyWhileClosing ==
  [][\A r \in Requests : replies[r] > 0 /\ replies'[r] > replies[r] =>
        respawn = "closing" /\ replies'[r] = 2]_vars

\* What outlives a closed session is one process at most, the child installed
\* last: the children it replaced are gone, whatever was under way at the
\* close.  (That the last one may stay is respawnChild's: section 6 of the
\* README.)
NoStrayChild ==
  closed /\ attach = "none" /\ respawn = "none" => alive \subseteq {child}

\* A reset that reports "container recreated and devtools reattached" did
\* recreate the container, and the child it leaves is connected to the new one.
ResetHonest ==
  [][\A r \in resetOk' \ resetOk : r \in removed' /\ child' \in bound']_vars

\* Every request the client sends is answered, or the session is closed: no
\* death, failing attach, respawn or reset leaves the client hanging.
EveryAnswered == \A r \in Requests : (req[r] # "new") ~> (req[r] = "answered" \/ closed)
=============================================================================
