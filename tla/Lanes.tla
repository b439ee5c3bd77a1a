-------------------------------- MODULE Lanes --------------------------------
(***************************************************************************)
(* The two lanes of one Name: the MCP endpoint (gateway/src/server.ts and  *)
(* session.ts), the CDP lane (cdp.ts), the registry both consult           *)
(* (registry.ts) and the reaper that may evict either (reaper.ts).         *)
(*                                                                         *)
(* A step is the synchronous code between two awaits.  Sessions are slots: *)
(* slot i is an initialize request, then the session it opens, then free   *)
(* again.  Sockets and handshakes are slots too, each of a fixed driver.   *)
(* Requests that are refused leave no trace and are not steps.  The Name is*)
(* a disposable one: a sticky Name's volume is kept without a Docker call, *)
(* which leaves it fewer interleavings.                                    *)
(***************************************************************************)
EXTENDS Naturals, FiniteSets

CONSTANTS
  Slots,       \* initialize requests and the sessions they become
  Drivers,     \* CDP drivers, told apart by their source address
  Sockets,     \* CDP websockets
  Handshakes,  \* CDP /json/* requests
  DriverOf,    \* the driver of each socket and handshake
  None,        \* no session, no driver
  Reaping      \* whether the reaper sweeps in this instance

ASSUME LanesAssumption ==
  /\ IsFiniteSet(Slots) /\ IsFiniteSet(Sockets) /\ IsFiniteSet(Handshakes)
  /\ Sockets \cap Handshakes = {} /\ Slots \cap Drivers = {}
  /\ DriverOf \in [Sockets \cup Handshakes -> Drivers]
  /\ None \notin Slots \cup Drivers
  /\ Reaping \in BOOLEAN

VARIABLES
  \* server.ts, session.ts
  slot,      \* per slot: free | closing | creating | live | closed
  stream,    \* per slot: its GET event stream: none | open | ending
  attaching, \* per slot: its bridge is provisioning the browser
  \* cdp.ts
  socket,    \* per socket: none | resolving | abandoned | spliced
  shake,     \* per handshake: none | waiting | looking | replying
  claimed,   \* per handshake: its claim on the Name is not given back yet
  provision, \* the shared CDP provision: none | ensure | recreate
  holder,    \* cdpHolders: the driver on record as holding the lane
  \* registry.ts
  byName,    \* the live session
  pending,   \* the Name is reserved by an initialize in progress
  record,    \* an activity record exists
  streams,   \* its count of open event streams
  cdp,       \* its count of open CDP sockets
  claims,    \* handshakes that claimed the Name
  \* Docker and the reaper
  running,   \* the container runs
  idle,      \* the clock of the Name's tier has run out
  reaper,    \* none | judge | stop | remove | forget: what it awaits next
  listed     \* the sweep believes the Name holds a container

sessions == <<slot, stream, attaching>>
lane     == <<socket, shake, claimed, provision, holder>>
activity == <<record, streams, cdp>>
registry == <<byName, pending, activity, claims>>
world    == <<running, idle, reaper, listed>>
vars     == <<sessions, lane, registry, world>>

Open    == { k \in Sockets : socket[k] \in {"resolving", "spliced"} }
Claimed == { h \in Handshakes : claimed[h] }
Taken   == { i \in Slots : slot[i] \in {"creating", "live"} }

\* The parts of the state that are counts, and the rest.
CountsOK == streams \in Nat /\ cdp \in Nat /\ claims \in Nat
StatesOK ==
  /\ slot \in [Slots -> {"free", "closing", "creating", "live", "closed"}]
  /\ stream \in [Slots -> {"none", "open", "ending"}]
  /\ attaching \in [Slots -> BOOLEAN]
  /\ socket \in [Sockets -> {"none", "resolving", "abandoned", "spliced"}]
  /\ shake \in [Handshakes -> {"none", "waiting", "looking", "replying"}]
  /\ claimed \in [Handshakes -> BOOLEAN]
  /\ provision \in {"none", "ensure", "recreate"}
  /\ holder \in Drivers \cup {None}
  /\ byName \in Slots \cup {None}
  /\ pending \in BOOLEAN /\ record \in BOOLEAN
  /\ running \in BOOLEAN /\ idle \in BOOLEAN
  /\ reaper \in {"none", "judge", "stop", "remove", "forget"} /\ listed \in BOOLEAN

(* The counts of registry.ts (streamClosed, cdpClosed, unclaimCdp) never   *)
(* go below zero, and every slot, socket and handshake is where its        *)
(* handler in server.ts or cdp.ts may be.                                  *)
TypeOK == StatesOK /\ CountsOK

Init ==
  /\ slot = [i \in Slots |-> "free"]
  /\ stream = [i \in Slots |-> "none"]
  /\ attaching = [i \in Slots |-> FALSE]
  /\ socket = [k \in Sockets |-> "none"]
  /\ shake = [h \in Handshakes |-> "none"]
  /\ claimed = [h \in Handshakes |-> FALSE]
  /\ provision = "none" /\ holder = None
  /\ byName = None /\ pending = FALSE
  /\ record = FALSE /\ streams = 0 /\ cdp = 0 /\ claims = 0
  /\ running = FALSE /\ idle = FALSE /\ reaper = "none" /\ listed = FALSE

-----------------------------------------------------------------------------
(* registry.ts                                                             *)

HasLive   == byName # None   \* slip: a reserved Name is not counted
Has       == byName # None \/ pending
HasCdp    == cdp > 0
HeldByCdp == HasCdp \/ claims > 0

\* isPending: reserved, or a provision declared.
IsPending == pending \/ provision # "none" \/ \E i \in Slots : attaching[i]

Touch == record' = TRUE /\ idle' = FALSE

StreamOpened == Touch /\ streams' = streams + 1 /\ UNCHANGED cdp
CdpOpened    == Touch /\ cdp' = cdp + 1 /\ UNCHANGED streams

\* A close finds its record gone after the reaper dropped it: nothing to do.
Cleared(n)   == 0   \* slip: one close clears the count
Decrement(n) == IF n > 0 THEN n - 1 ELSE 0
StreamClosed ==
  IF record THEN /\ streams' = Decrement(streams) /\ idle' = FALSE
                 /\ UNCHANGED <<record, cdp>>
            ELSE UNCHANGED <<activity, idle>>
CdpClosed ==
  IF record THEN /\ cdp' = Decrement(cdp) /\ idle' = FALSE
                 /\ UNCHANGED <<record, streams>>
            ELSE UNCHANGED <<activity, idle>>

DropActivity == record' = FALSE /\ streams' = 0 /\ cdp' = 0

\* Session.close up to its first await: unregister, then end the stream.
CloseSession(i) ==
  /\ byName' = IF byName = i THEN None ELSE byName
  /\ pending' = FALSE
  /\ stream' = [stream EXCEPT ![i] = IF @ = "open" THEN "ending" ELSE @]
  /\ Touch
  /\ UNCHANGED <<streams, cdp, claims>>

-----------------------------------------------------------------------------
(* The MCP lane.                                                           *)

Reserve(i) ==
  /\ ~Has
  /\ pending' = TRUE
  /\ slot' = [slot EXCEPT ![i] = "creating"]
  /\ Touch

\* POST initialize on a Name nobody holds.
Initialize(i) ==
  /\ slot[i] = "free"
  /\ ~HeldByCdp
  /\ Reserve(i)
  /\ UNCHANGED <<stream, attaching, lane, byName, streams, cdp, claims, running, reaper, listed>>

\* POST initialize on a Name whose session has no event stream: a stale
\* session, closed to make room.  The await follows.
Reclaim(i) ==
  /\ slot[i] = "free"
  /\ ~HeldByCdp
  /\ byName # None /\ (~record \/ streams = 0)
  /\ CloseSession(byName)
  /\ slot' = [slot EXCEPT ![i] = "closing", ![byName] = "closed"]
  /\ UNCHANGED <<attaching, lane, running, reaper, listed>>

\* ... and on the far side of it everything is asked again.
Resume(i) ==
  /\ slot[i] = "closing"
  /\ \/ /\ ~HeldByCdp
        /\ Reserve(i)
     \/ /\ HeldByCdp \/ Has
        /\ slot' = [slot EXCEPT ![i] = "free"]
        /\ UNCHANGED <<pending, record, idle>>
  /\ UNCHANGED <<stream, attaching, lane, byName, streams, cdp, claims, running, reaper, listed>>

\* createSession answered (add) or threw (release).
Created(i) ==
  /\ slot[i] = "creating"
  /\ pending' = FALSE
  /\ \/ slot' = [slot EXCEPT ![i] = "live"] /\ byName' = i
     \/ slot' = [slot EXCEPT ![i] = "free"] /\ UNCHANGED byName
  /\ UNCHANGED <<stream, attaching, lane, activity, claims, world>>

\* DELETE, or a child that could not be respawned.
EndSession(i) ==
  /\ slot[i] = "live"
  /\ slot' = [slot EXCEPT ![i] = "closed"]
  /\ CloseSession(i)
  /\ UNCHANGED <<attaching, lane, running, reaper, listed>>

\* The slot of a closed session whose leftovers are gone.
Recycle(i) ==
  /\ slot[i] = "closed" /\ stream[i] = "none" /\ ~attaching[i]
  /\ slot' = [slot EXCEPT ![i] = "free"]
  /\ UNCHANGED <<stream, attaching, lane, registry, world>>

\* GET: the server-to-client event stream.
OpenStream(i) ==
  /\ slot[i] = "live" /\ stream[i] = "none"
  /\ stream' = [stream EXCEPT ![i] = "open"]
  /\ StreamOpened
  /\ UNCHANGED <<slot, attaching, lane, byName, pending, claims, running, reaper, listed>>

\* The response's close event: the client left, or the session ended it.
StreamEnds(i) ==
  /\ stream[i] # "none"
  /\ stream' = [stream EXCEPT ![i] = "none"]
  /\ StreamClosed
  /\ UNCHANGED <<slot, attaching, lane, byName, pending, claims, running, reaper, listed>>

\* The first browser tool call provisions; a close does not call it off.
Attach(i) ==
  /\ slot[i] = "live" /\ ~attaching[i]
  /\ attaching' = [attaching EXCEPT ![i] = TRUE]
  /\ Touch
  /\ UNCHANGED <<slot, stream, lane, byName, pending, streams, cdp, claims, running, reaper, listed>>

Attached(i) ==
  /\ attaching[i]
  /\ attaching' = [attaching EXCEPT ![i] = FALSE]
  /\ running' \in BOOLEAN
  /\ UNCHANGED <<slot, stream, lane, registry, idle, reaper, listed>>

Mcp(i) == \/ Initialize(i) \/ Reclaim(i) \/ Resume(i) \/ Created(i) \/ EndSession(i)
          \/ Recycle(i) \/ OpenStream(i) \/ StreamEnds(i) \/ Attach(i) \/ Attached(i)

-----------------------------------------------------------------------------
(* The CDP lane.                                                           *)

\* conflictFor answers null: nobody drives, or this very driver does.
Free(d)      == ~Has /\ (HasCdp => holder = d)
HoldsLane(d) == HasCdp /\ holder = d

\* GET /json/*: claim the Name, then share one provision -- or, for the
\* driver that holds the lane, only look up the address.
Handshake(h) ==
  /\ shake[h] = "none"
  /\ Free(DriverOf[h])
  /\ claims' = claims + 1
  /\ claimed' = [claimed EXCEPT ![h] = TRUE]
  /\ IF HoldsLane(DriverOf[h])
     THEN shake' = [shake EXCEPT ![h] = "looking"] /\ UNCHANGED provision
     ELSE /\ shake' = [shake EXCEPT ![h] = "waiting"]
          /\ provision' = IF provision = "none" THEN "ensure" ELSE provision
  /\ UNCHANGED <<sessions, socket, holder, byName, pending, activity, world>>

UnclaimEach(h) == claims' = claims - 1 /\ UNCHANGED claimed   \* slip: not once
UnclaimNone(h) == UNCHANGED <<claims, claimed>>   \* slip: only a finish unclaims

\* finish or close, whichever comes first, gives the claim back, once.
Unclaim(h) ==
  /\ claims' = IF claimed[h] THEN Decrement(claims) ELSE claims
  /\ claimed' = [claimed EXCEPT ![h] = FALSE]

\* The driver hangs up while the handshake is still being answered.
HangUp(h) ==
  /\ shake[h] # "none" /\ claimed[h]
  /\ Unclaim(h)
  /\ UNCHANGED <<sessions, socket, shake, provision, holder, byName, pending, activity, world>>

\* The browser is ready: browser work, and the proxied answer to send.
Provisioned ==
  /\ provision # "none"
  /\ provision' = "none"
  /\ running' = TRUE
  /\ shake' = [h \in Handshakes |-> IF shake[h] = "waiting" THEN "replying" ELSE shake[h]]
  /\ Touch
  /\ UNCHANGED <<sessions, socket, claimed, holder, byName, pending, streams, cdp, claims, reaper, listed>>

\* Unhealthy once: the container is recreated.  Twice, or any other error:
\* the handshakes are refused.
ProvisionFails ==
  /\ \/ /\ provision = "ensure" /\ provision' = "recreate"
        /\ running' = FALSE
        /\ UNCHANGED shake
     \/ /\ provision # "none" /\ provision' = "none"
        /\ shake' = [h \in Handshakes |-> IF shake[h] = "waiting" THEN "replying" ELSE shake[h]]
        /\ UNCHANGED running
  /\ UNCHANGED <<sessions, socket, claimed, holder, registry, idle, reaper, listed>>

\* The holder's address is found, which is browser work; or it is gone (502).
LookedUp(h) ==
  /\ shake[h] = "looking"
  /\ shake' = [shake EXCEPT ![h] = "replying"]
  /\ IF running THEN Touch ELSE UNCHANGED <<record, idle>>
  /\ UNCHANGED <<sessions, socket, claimed, provision, holder, byName, pending, streams, cdp,
                 claims, running, reaper, listed>>

Reply(h) ==
  /\ shake[h] = "replying"
  /\ shake' = [shake EXCEPT ![h] = "none"]
  /\ Unclaim(h)
  /\ UNCHANGED <<sessions, socket, provision, holder, byName, pending, activity, world>>

\* The websocket upgrade takes the lane before it looks up the container.
Upgrade(k) ==
  /\ socket[k] = "none"
  /\ Free(DriverOf[k])
  /\ holder' = DriverOf[k]
  /\ CdpOpened
  /\ socket' = [socket EXCEPT ![k] = "resolving"]
  /\ UNCHANGED <<sessions, shake, claimed, provision, byName, pending, claims, running, reaper, listed>>

\* slip: any socket out drops the driver's name.
ReleaseHolder == CdpClosed /\ holder' = None

\* releaseLane: the last socket out drops the driver's name.
ReleaseLane ==
  /\ CdpClosed
  /\ holder' = IF cdp' = 0 THEN None ELSE holder

\* end, close or error on the driver's socket, the first of them only.
DriverGone(k) ==
  /\ k \in Open
  /\ socket' = [socket EXCEPT ![k] = IF @ = "resolving" THEN "abandoned" ELSE "none"]
  /\ ReleaseLane
  /\ UNCHANGED <<sessions, shake, claimed, provision, byName, pending, claims, running, reaper, listed>>

\* resolveIp answers: splice; refuse and release; or, for a driver already
\* gone, release again, which must do nothing.
Resolved(k) ==
  \/ /\ socket[k] = "resolving" /\ running
     /\ socket' = [socket EXCEPT ![k] = "spliced"]
     /\ UNCHANGED <<sessions, shake, claimed, provision, holder, registry, world>>
  \/ /\ socket[k] = "resolving" /\ ~running
     /\ socket' = [socket EXCEPT ![k] = "none"]
     /\ ReleaseLane
     /\ UNCHANGED <<sessions, shake, claimed, provision, byName, pending, claims, running, reaper, listed>>
  \/ /\ socket[k] = "abandoned"
     /\ socket' = [socket EXCEPT ![k] = "none"]
     /\ UNCHANGED <<sessions, shake, claimed, provision, holder, registry, world>>

Cdp == \/ Provisioned \/ ProvisionFails
       \/ \E h \in Handshakes : Handshake(h) \/ HangUp(h) \/ LookedUp(h) \/ Reply(h)
       \/ \E k \in Sockets : Upgrade(k) \/ DriverGone(k) \/ Resolved(k)

-----------------------------------------------------------------------------
(* The reaper on this Name, and the environment.                           *)

\* The sweep lists the fleet and adopts a running container nobody tracks.  A
\* container that has exited is listed, too, and a list that failed is read as
\* if every Name held one (and adopts nothing).
List ==
  /\ Reaping /\ reaper = "none"
  /\ reaper' = "judge"
  /\ listed' \in (IF running THEN {TRUE} ELSE BOOLEAN)
  /\ (running /\ ~record /\ Touch) \/ UNCHANGED <<record, idle>>
  /\ UNCHANGED <<sessions, lane, byName, pending, streams, cdp, claims, running>>

\* Not tracked, mid-provision, in use, or without a container but not forgotten.
Spared == \/ ~record \/ IsPending \/ ~idle
          \/ ~listed /\ (byName # None \/ streams > 0 \/ cdp > 0)

\* By a list as old as the sweep: the Name is spared; or idle, and its session,
\* if any, is closed and its container next to stop; or only its volume is left.
Judge ==
  /\ reaper = "judge"
  /\ \/ /\ Spared
        /\ reaper' = "none"
        /\ UNCHANGED <<slot, stream, registry, idle>>
     \/ /\ ~Spared /\ listed
        /\ reaper' = "stop"
        /\ IF byName # None
           THEN slot' = [slot EXCEPT ![byName] = "closed"] /\ CloseSession(byName)
           ELSE UNCHANGED <<slot, stream, registry, idle>>
     \/ /\ ~Spared /\ ~listed
        /\ reaper' = "forget"
        /\ UNCHANGED <<slot, stream, registry, idle>>
  /\ listed' = FALSE
  /\ UNCHANGED <<attaching, lane, running>>

\* stopContainer and removeContainer log a failure and let the sweep go on.
Stop ==
  /\ reaper = "stop"
  /\ running' \in {running, FALSE}
  /\ reaper' = "remove"
  /\ UNCHANGED <<sessions, lane, registry, idle, listed>>

Remove ==
  /\ reaper = "remove"
  /\ running' \in {running, FALSE}
  /\ reaper' = "forget"
  /\ UNCHANGED <<sessions, lane, registry, idle, listed>>

\* removeInstanceVolume, which never throws either, has been awaited.
Forget ==
  /\ reaper = "forget"
  /\ DropActivity
  /\ reaper' = "none"
  /\ UNCHANGED <<sessions, lane, byName, pending, claims, running, idle, listed>>

Age ==
  /\ record /\ ~idle
  /\ idle' = TRUE
  /\ UNCHANGED <<sessions, lane, registry, running, reaper, listed>>

Reap == List \/ Judge \/ Stop \/ Remove \/ Forget

Next == Cdp \/ Reap \/ Age \/ \E i \in Slots : Mcp(i)

\* Awaited work completes and a dead peer's socket reports it; no client is
\* obliged to ask for anything, or to leave.
Fairness ==
  /\ WF_vars(Provisioned)
  /\ \A h \in Handshakes : WF_vars(LookedUp(h)) /\ WF_vars(Reply(h))
  /\ \A k \in Sockets : WF_vars(Resolved(k))
  /\ \A i \in Slots : /\ WF_vars(Resume(i)) /\ WF_vars(Created(i)) /\ WF_vars(Attached(i))
                      /\ WF_vars(stream[i] = "ending" /\ StreamEnds(i))

Spec == Init /\ [][Next]_vars
FairSpec == Spec /\ Fairness

-----------------------------------------------------------------------------
(* Properties.                                                             *)

(* One lane at a time (ADR 0005): the Name is taken by one MCP session or  *)
(* one CDP driver, and changes hands only by being let go first -- from    *)
(* the reserve or the upgrade on, across every await in between.           *)
Lock == INSTANCE LaneLock WITH
  Parties <- Slots \cup Drivers,
  owner <- Taken \cup { DriverOf[k] : k \in Open }
LockSpec == Lock!Spec

(* The registry's counts are the truth: a held lane is a lane some socket  *)
(* still holds, and its holder is that socket's driver.                    *)
LaneAccounted ==
  /\ cdp = Cardinality(Open)
  /\ claims = Cardinality(Claimed)
  /\ \A k \in Open : holder = DriverOf[k]

(* A client that has its event stream open is never mistaken for a stale   *)
(* session and evicted by another initialize.                              *)
AttachedNotReclaimed ==
  [][\A i \in Slots : \A j \in Slots :
       stream[i] = "open" /\ slot[j] = "free" /\ slot'[j] = "closing" => slot'[i] = slot[i]]_vars

(* At most one session is being created or live on the Name.               *)
OneSession == Cardinality(Taken) <= 1

(* Once the last client has left and no other comes, the Name can be had  *)
(* again: neither lane is refused for ever because of a count, a claim or  *)
(* a reservation that some interrupted request left behind.                *)
NoNewcomer == [][/\ \A h \in Handshakes : shake[h] = "none" => shake'[h] = "none"
                 /\ \A i \in Slots : slot[i] = "free" => slot'[i] = "free"]_vars
AllLeft    == Open = {} /\ \A i \in Slots : stream[i] # "open"
Available  == ~HeldByCdp /\ ~pending /\ (byName # None => streams = 0)
NameFreed  == <>NoNewcomer /\ <>[]AllLeft => <>[]Available
=============================================================================
