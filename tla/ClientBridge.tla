---------------------------- MODULE ClientBridge ----------------------------
(***************************************************************************)
(* The stdio side (client/bridge.mjs under the supervisor bin/chikin-mcp): *)
(* one process keeps the client's stdio session up while the HTTP link to  *)
(* the gateway is lost and rebuilt, replaying the client's initialize, and *)
(* while the process itself dies and is started again.                     *)
(*                                                                         *)
(* A link is known by its generation; the numbers go on over a restart,    *)
(* since no callback of a dead process can reach its successor.  A request *)
(* is used once; its id is not reused.  The file that keeps the client's   *)
(* initialize is named for the URL path alone, so another bridge of the    *)
(* same Name, if there is one, keeps its own there.                        *)
(***************************************************************************)
EXTENDS Naturals, FiniteSets

CONSTANTS
  Hello,      \* the client's initialize request
  Calls,      \* its later requests
  MaxFaults,  \* bound: how often a link or a gateway session is lost
  MaxCrashes, \* bound: how often the process dies
  MayStop,    \* whether the client may go, or the supervisor be told to stop
  FileFaults  \* what may befall the file of the frame: "write", "shared"

Requests == {Hello} \cup Calls

ASSUME ClientAssumption ==
  /\ IsFiniteSet(Calls) /\ Hello \notin Calls
  /\ MaxFaults \in Nat /\ MaxCrashes \in Nat /\ MayStop \in BOOLEAN
  /\ FileFaults \subseteq {"write", "shared"}

VARIABLES
  proc,       \* the process: up | stopping (shuttingDown) | down (died) | gone
  generation, \* generations handed out
  http,       \* the generation of the installed transport
  ready,      \* "safe to heartbeat"
  reconnect,  \* scheduleReconnect: none | closing | attempt | replay | ack | failed | over
  initFrame,  \* the cached initialize: none | own | old (another session's)
  initFile,   \* the same on disk, none if unreadable; off: no private directory holds it
  astray,     \* ghost: the write of the client's frame failed, or another bridge wrote the file
  client,     \* the client: start | hello | greeted | ready | refused
  inflight,   \* requests whose reply is still to be passed on
  at,         \* per request: the generation it was sent over, 0 if none
  posts,      \* generations with a ping or a notification under way
  replies,    \* per request: how often stdio.send was called with its id
  lost,       \* requests in flight with a process that died
  open,       \* transports started and not closed
  sound,      \* generations whose link works
  served,     \* generations whose gateway session is initialized
  events,     \* generations whose close or error event is still to come
  faults, crashes \* bound counters

link    == <<generation, http, reconnect, open>>
frame   == <<initFrame, initFile, astray>>
traffic == <<inflight, at, replies>>
gateway == <<sound, served, events, faults>>
vars    == <<proc, link, ready, frame, client, traffic, posts, lost, gateway, crashes>>

\* No request is sent over a generation that was never handed out, and only an
\* open transport has events to come (bridge.mjs makeHttp, scheduleReconnect).
TypeOK ==
  /\ proc \in {"up", "stopping", "down", "gone"}
  /\ generation \in Nat /\ http \in Nat /\ ready \in BOOLEAN
  /\ reconnect \in {"none", "closing", "attempt", "replay", "ack", "failed", "over"}
  /\ initFrame \in {"none", "own", "old"} /\ initFile \in {"none", "own", "old", "off"}
  /\ astray \in BOOLEAN
  /\ client \in {"start", "hello", "greeted", "ready", "refused"}
  /\ inflight \subseteq Requests /\ lost \subseteq Requests
  /\ at \in [Requests -> 0..generation] /\ replies \in [Requests -> Nat]
  /\ \A G \in {posts, open, sound, served} : G \subseteq 1..generation
  /\ events \subseteq open
  /\ faults \in 0..MaxFaults /\ crashes \in 0..MaxCrashes

\* The frame a starting process finds on disk.
Recovered == IF initFile = "off" THEN "none" ELSE initFile

\* The first link is started before the client's first frame is read.
Init ==
  /\ proc = "up" /\ generation = 1 /\ http = 1 /\ ready = FALSE /\ reconnect = "none"
  /\ initFile \in {"none", "old", "off"} /\ initFrame = Recovered
  /\ astray = FALSE /\ client = "start" /\ inflight = {} /\ lost = {} /\ posts = {}
  /\ at = [r \in Requests |-> 0] /\ replies = [r \in Requests |-> 0]
  /\ open = {1} /\ sound = {1} /\ served = {} /\ events = {}
  /\ faults = 0 /\ crashes = 0

-----------------------------------------------------------------------------
(* Helpers.                                                                *)

Running == proc \in {"up", "stopping"}

\* stdio.send of a reply to each request of R.
Answer(R) ==
  /\ inflight' = inflight \ R
  /\ replies' = [r \in Requests |-> IF r \in R THEN replies[r] + 1 ELSE replies[r]]

\* Slip: a link loss does not fail what was in flight.
FailNone == Answer({})

FailAllInflight == Answer(inflight)

\* Slip: a send that fails is answered although a reconnect has answered it.
FailAgain(r) == {r}

\* What a failed send of r still has to answer: nothing if it was failed already.
Unfailed(r) == {r} \cap inflight

\* Slip: every trigger starts a reconnect of its own.
AnyTrigger == proc = "up"

\* scheduleReconnect's guard.
MayReconnect == proc = "up" /\ reconnect = "none"

\* scheduleReconnect up to its first await, and the callbacks' generation checks.
Reconnect(g) ==
  IF g = generation /\ MayReconnect
  THEN reconnect' = "closing" /\ ready' = FALSE
  ELSE UNCHANGED <<reconnect, ready>>

Reconnects(g) == g = generation /\ MayReconnect

\* The tail of stdio.onmessage for a request: refused while the link is rebuilt.
Forward(r) ==
  IF reconnect # "none"
  THEN /\ replies' = [replies EXCEPT ![r] = @ + 1]
       /\ UNCHANGED <<inflight, at>>
  ELSE /\ inflight' = inflight \cup {r} /\ at' = [at EXCEPT ![r] = generation]
       /\ UNCHANGED replies

\* Slip: initialize is kept in memory only.
KeepInMemory == initFrame' = "own" /\ UNCHANGED <<initFile, astray>>

\* A write or unlink of the file that fails is logged, or not even that: the file
\* is as it was, or cut short.
FileFails == "write" \in FileFaults /\ initFile' \in {initFile, "none"}

\* initialize is cached, and written to disk for the process's successor.
KeepFrame ==
  /\ initFrame' = "own"
  /\ \/ initFile' = (IF initFile = "off" THEN "off" ELSE "own") /\ UNCHANGED astray
     \/ initFile # "off" /\ FileFails /\ astray' = TRUE

-----------------------------------------------------------------------------
(* The client's frames (stdio.onmessage).                                  *)

\* Another bridge of the same Name keeps its client's frame, or exits cleanly.
Neighbour ==
  /\ "shared" \in FileFaults /\ initFile # "off"
  /\ initFile' \in {"old", "none"} /\ astray' = TRUE
  /\ UNCHANGED <<proc, link, ready, initFrame, client, traffic, posts, lost, gateway, crashes>>

SendHello ==
  /\ client = "start" /\ Running
  /\ client' = "hello"
  /\ KeepFrame
  /\ Forward(Hello)
  /\ UNCHANGED <<proc, link, ready, posts, lost, gateway, crashes>>

\* The client's SDK takes the first answer; initialize refused ends its attempt.
HelloAnswered(ok) ==
  client' = IF client = "hello" THEN (IF ok THEN "greeted" ELSE "refused") ELSE client

SendInitialized ==
  /\ client = "greeted" /\ Running
  /\ client' = "ready" /\ ready' = TRUE
  /\ posts' = IF reconnect = "none" THEN posts \cup {generation} ELSE posts
  /\ UNCHANGED <<proc, link, frame, traffic, lost, gateway, crashes>>

SendCall(r) ==
  /\ client = "ready" /\ Running
  /\ r \in Calls \ lost /\ at[r] = 0 /\ replies[r] = 0
  /\ Forward(r)
  /\ UNCHANGED <<proc, link, ready, frame, client, posts, lost, gateway, crashes>>

Heartbeat ==
  /\ proc = "up" /\ ready /\ reconnect = "none"
  /\ generation \notin posts
  /\ posts' = posts \cup {generation}
  /\ UNCHANGED <<proc, link, ready, frame, client, traffic, lost, gateway, crashes>>

-----------------------------------------------------------------------------
(* The gateway's side of a link (external), and what its callbacks do.     *)

\* The answer to r comes over its link: not passed on once that is not current.
Reply(r) ==
  /\ Running /\ at[r] \in open \cap sound
  /\ IF r = Hello THEN served' = served \cup {at[r]} ELSE at[r] \in served /\ UNCHANGED served
  /\ at' = [at EXCEPT ![r] = 0]
  /\ IF at[r] = generation
     THEN Answer({r}) /\ (IF r = Hello THEN HelloAnswered(TRUE) ELSE UNCHANGED client)
     ELSE UNCHANGED <<inflight, replies, client>>
  /\ UNCHANGED <<proc, link, ready, frame, posts, lost, sound, events, faults, crashes>>

Unserved(g) == g \notin open \cap sound \cap served

\* The send of r rejects, or its response breaks off: the link is gone, or the
\* gateway knows no session for it.
SendFails(r) ==
  /\ Running /\ at[r] # 0
  /\ IF r = Hello THEN at[r] \notin open \cap sound ELSE Unserved(at[r])
  /\ at' = [at EXCEPT ![r] = 0]
  /\ IF Reconnects(at[r]) THEN FailAllInflight ELSE Answer(Unfailed(r))
  /\ IF Hello \in inflight \ inflight' THEN HelloAnswered(FALSE) ELSE UNCHANGED client
  /\ Reconnect(at[r])
  /\ UNCHANGED <<proc, generation, http, open, frame, posts, lost, gateway, crashes>>

\* A ping or notification is taken; its reply, if any, is swallowed.
PostTaken(g) ==
  /\ Running /\ g \in posts \cap open \cap sound \cap served
  /\ posts' = posts \ {g}
  /\ UNCHANGED <<proc, link, ready, frame, client, traffic, lost, gateway, crashes>>

LinkLost(g) ==
  /\ IF Reconnects(g) THEN FailAllInflight ELSE UNCHANGED <<inflight, replies>>
  /\ IF Hello \in inflight \ inflight' THEN HelloAnswered(FALSE) ELSE UNCHANGED client
  /\ Reconnect(g)
  /\ UNCHANGED at

PostFails(g) ==
  /\ Running /\ g \in posts /\ Unserved(g)
  /\ posts' = posts \ {g}
  /\ LinkLost(g)
  /\ UNCHANGED <<proc, generation, http, open, frame, lost, gateway, crashes>>

\* onclose or onerror of a transport.
LinkEvent(g) ==
  /\ Running /\ g \in events /\ events' = events \ {g}
  /\ LinkLost(g)
  /\ UNCHANGED <<proc, generation, http, open, frame, posts, lost, sound, served, faults, crashes>>

\* The gateway restarts, reaps the session or refuses the link: noticed by an
\* event where a stream is open, else by the next thing sent.
Breaks(g) ==
  /\ faults < MaxFaults /\ faults' = faults + 1
  /\ Running /\ g \in open \cap sound
  /\ sound' = sound \ {g}
  /\ events' \in {events, events \cup ({g} \cap served)}
  /\ UNCHANGED <<proc, link, ready, frame, client, traffic, posts, lost, served, crashes>>

-----------------------------------------------------------------------------
(* scheduleReconnect, after its first await.                               *)

\* The old transport is closed: nothing is heard from it any more.
OldClosed ==
  /\ Running /\ reconnect = "closing"
  /\ reconnect' = "attempt"
  /\ open' = open \ {http} /\ events' = events \ {http}
  /\ UNCHANGED <<proc, generation, http, ready, frame, client, traffic, posts, lost,
                 sound, served, faults, crashes>>

\* The head of the loop: a fresh transport, over which initialize is replayed.
Attempt ==
  /\ Running /\ reconnect = "attempt"
  /\ IF proc = "stopping"
     THEN reconnect' = "over" /\ UNCHANGED <<generation, open, sound>>
     ELSE /\ generation' = generation + 1
          /\ open' = open \cup {generation'} /\ sound' = sound \cup {generation'}
          /\ reconnect' = IF initFrame = "none" THEN "ack" ELSE "replay"
  /\ UNCHANGED <<proc, http, ready, frame, client, traffic, posts, lost, served, events,
                 faults, crashes>>

\* The gateway answers the replay (swallowed); notifications/initialized follows.
Replayed ==
  /\ Running /\ reconnect = "replay" /\ generation \in sound
  /\ served' = served \cup {generation}
  /\ reconnect' = "ack"
  /\ UNCHANGED <<proc, generation, http, ready, frame, client, traffic, posts, lost, open,
                 sound, events, faults, crashes>>

\* Slip: a rebuilt link is not watched by the heartbeat.
StayQuiet == UNCHANGED ready

Rearm == ready' = (initFrame # "none")

\* Installed, whatever event of the new link was ignored meanwhile.
Restored ==
  /\ Running /\ reconnect = "ack"
  /\ http' = generation /\ reconnect' = "none"
  /\ Rearm
  /\ UNCHANGED <<proc, generation, open, frame, client, traffic, posts, lost, gateway, crashes>>

\* A send rejects, or the replay's timer ends.
AttemptFails ==
  /\ Running /\ reconnect \in {"replay", "ack"} /\ initFrame # "none"
  /\ generation \notin sound
  /\ reconnect' = "failed"
  /\ UNCHANGED <<proc, generation, http, open, ready, frame, client, traffic, posts, lost,
                 gateway, crashes>>

CloseAttempt == open' = open \ {generation} /\ events' = events \ {generation}

\* After the back-off, the next attempt; there is no last one.
Retry ==
  /\ Running /\ reconnect = "failed"
  /\ reconnect' = "attempt"
  /\ CloseAttempt
  /\ UNCHANGED <<proc, generation, http, ready, frame, client, traffic, posts, lost,
                 sound, served, faults, crashes>>

Rebuild == OldClosed \/ Attempt \/ Replayed \/ Restored \/ AttemptFails \/ Retry

-----------------------------------------------------------------------------
(* The process.                                                            *)

\* The client hangs up, or a signal: a clean exit forgets the frame.
Shutdown ==
  /\ MayStop /\ proc = "up" /\ proc' = "stopping"
  /\ FailAllInflight
  /\ IF Hello \in inflight THEN HelloAnswered(FALSE) ELSE UNCHANGED client
  /\ IF initFile = "off" THEN UNCHANGED initFile ELSE initFile' = "none" \/ FileFails
  /\ open' = open \ {http} /\ events' = events \ {http}
  /\ UNCHANGED <<generation, http, reconnect, ready, initFrame, astray, at, posts, lost,
                 sound, served, faults, crashes>>

Exit ==
  /\ proc = "stopping" /\ proc' = "gone"
  /\ UNCHANGED <<link, ready, frame, client, traffic, posts, lost, gateway, crashes>>

\* The process dies, and with it whatever it had in flight.
Crash ==
  /\ proc = "up" /\ crashes < MaxCrashes /\ crashes' = crashes + 1
  /\ proc' = "down"
  /\ lost' = lost \cup inflight /\ inflight' = {} /\ posts' = {}
  /\ at' = [r \in Requests |-> 0] /\ open' = {} /\ events' = {}
  /\ UNCHANGED <<generation, http, reconnect, ready, frame, client, replies, sound, served, faults>>

\* bin/chikin-mcp: under its set -e a failed `wait` ends the script, and with it
\* the stdio session.
SupervisorEnds ==
  /\ proc = "down" /\ proc' = "gone"
  /\ UNCHANGED <<link, ready, frame, client, traffic, posts, lost, gateway, crashes>>

\* What the script's loop is there for, and any other supervisor does: a new
\* process on the same stdio.  The frame on disk is all it knows.
Respawn ==
  /\ proc = "down" /\ proc' = "up"
  /\ generation' = generation + 1 /\ http' = generation'
  /\ reconnect' = "none" /\ ready' = FALSE
  /\ open' = {generation'} /\ sound' = sound \cup {generation'}
  /\ initFrame' = Recovered
  /\ UNCHANGED <<initFile, astray, client, traffic, posts, lost, served, events, faults, crashes>>

-----------------------------------------------------------------------------
Generations == 1..generation

Next ==
  \/ SendHello \/ SendInitialized \/ Heartbeat
  \/ \E r \in Requests : SendCall(r) \/ Reply(r) \/ SendFails(r)
  \/ \E g \in Generations : PostTaken(g) \/ PostFails(g) \/ LinkEvent(g) \/ Breaks(g)
  \/ Rebuild
  \/ Shutdown \/ Exit \/ Crash \/ SupervisorEnds \/ Respawn \/ Neighbour

Spec == Init /\ [][Next]_vars

\* Promises settle, the heartbeat's timer fires, the gateway answers or its
\* link is found dead by a timeout.  Nothing makes the client send.
Fairness ==
  /\ WF_vars(Rebuild) /\ WF_vars(Heartbeat)
  /\ \A r \in Requests : WF_vars(Reply(r)) /\ WF_vars(SendFails(r))
  /\ WF_vars(\E g \in Generations : PostTaken(g) \/ PostFails(g) \/ LinkEvent(g))

FairSpec == Spec /\ Fairness

-----------------------------------------------------------------------------
(* Properties.                                                             *)

\* Once no scheduleReconnect is under way there is one link, however many attempts
\* that took: no other transport is left open, and every request in flight rides on
\* the installed one, those sent over an earlier one having been answered.
OnOneLink ==
  Running /\ reconnect = "none" =>
    /\ open \subseteq {http}
    /\ \A r \in inflight : at[r] = generation /\ http = generation

\* The session a rebuild opens is the client's own, also after a crash: "a leftover
\* file from a previous crash is harmless" (initPath), for a frame an earlier session
\* left on disk is never replayed, but where the write of the client's own frame
\* failed or another bridge wrote the file.
OwnFrame == reconnect # "none" /\ initFrame = "old" => astray

\* A request is answered a second time at most while its old link is being
\* closed, when its failure has been reported and the generation not yet bumped.
LateReplyOnlyWhileClosing ==
  [][\A r \in Requests : replies'[r] > replies[r] /\ replies[r] > 0
                           => reconnect = "closing"]_vars

\* A request in flight (inflight) gets a reply or an error, unless the process dies or goes.
EveryAnswered ==
  \A r \in Requests : r \in inflight ~> replies[r] > 0 \/ r \in lost \/ proc # "up"

\* scheduleReconnect ends with a served link, although the events the new link raises
\* during the replay are swallowed: the heartbeat finds it dead.
LinkRestored ==
  (reconnect # "none" /\ initFrame = "own")
    ~> ((reconnect = "none" /\ http \in sound \cap served) \/ proc # "up")
=============================================================================
