-------------------------------- MODULE Fleet --------------------------------
(***************************************************************************)
(* The browser fleet: the provisioner (gateway/src/provisioner.ts) that    *)
(* creates a container and a profile volume per Name under one create      *)
(* gate, the reaper (reaper.ts) that takes idle ones back, the gateway's   *)
(* boot (index.ts), and the Docker daemon they all talk to.                *)
(*                                                                         *)
(* One step is one Docker call, or the synchronous code between two awaits.*)
(* Callers are the concurrent provision() calls of the two lanes; several  *)
(* may serve one Name (a closed session's provision outlives it).  Sweeps  *)
(* are the reaper passes that setInterval may let overlap.                 *)
(***************************************************************************)
EXTENDS Naturals, Sequences, FiniteSets

CONSTANTS
  Names,       \* browser Names
  Instances,   \* the disposable ones (inst-*), whose volume may be removed
  Callers,     \* concurrent provisions
  NameOf,      \* the Name each caller provisions
  Drivers,     \* the callers of the CDP lane; the others are MCP sessions'
  Sweeps,      \* concurrent reaper passes
  MaxFleet,    \* MAX_FLEET
  ReapAttached,\* ATTACHED_IDLE_TTL_SEC > 0
  VolumeGc,    \* CHIKIN_VOLUME_GC
  Faults,      \* the kinds of Docker failure this instance may meet
  MaxFaults,   \* bound: how many failures
  MaxRebuilds, \* bound: how often the fleet image is rebuilt
  MaxRestarts, \* bound: how often the gateway crashes
  Resetters,   \* bound: the callers that may reset, too
  Clients      \* bound: the Names a client may hold a stream on

FaultKinds == { "list", "inspect", "inspectVolume", "create", "start", "stop", "remove",
                "wait", "unhealthy", "vanish", "exit" }

ASSUME FleetAssumption ==
  /\ IsFiniteSet(Names) /\ Names # {}
  /\ Instances \subseteq Names
  /\ IsFiniteSet(Callers) /\ Drivers \subseteq Callers
  /\ NameOf \in [Callers -> Names]
  /\ Callers \cap Sweeps = {}
  /\ Faults \subseteq FaultKinds
  /\ Resetters \subseteq Callers \ Drivers /\ Clients \subseteq Names
  /\ ReapAttached \in BOOLEAN /\ VolumeGc \in BOOLEAN
  /\ {MaxFleet, MaxFaults, MaxRebuilds, MaxRestarts} \subseteq Nat

VARIABLES
  container,    \* Docker: absent | created | running | exited
  oldImage,     \* Docker: the container runs an image since replaced
  volume,       \* Docker: absent | made (its seeding not settled) | fresh | used
                \*         | overwritten (a seed copy ran over what a browser wrote)
  helper,       \* Docker: the seed-copy container of a caller: none | created | running
  gate,         \* createGate: the queue of its promise chain, head inside
  pc,           \* where each caller and sweep is
  info,         \* per caller: what its inspect answered
  retried,      \* per caller: its one recreate is spent
  provisioning, \* registry: provisions declared per Name
  activity,     \* registry: the activity record: none | recent | idle
  attached,     \* registry: what is counted on the Name: none | stream | socket
  listed,       \* per sweep: the Names it believes hold a container
  todo,         \* per sweep: the Names still to judge
  target,       \* per sweep: the Name being reclaimed
  boot,         \* the gateway's startup: gc | volumes | up
  faults, rebuilds, restarts   \* bound counters

docker   == <<container, oldImage, volume, helper>>
caller   == <<info, retried, provisioning>>
registry == <<activity, attached>>
sweep    == <<listed, todo, target>>
budget   == <<faults, rebuilds, restarts>>
vars     == <<docker, gate, pc, caller, registry, sweep, boot, budget>>

Agents == Callers \cup Sweeps

\* Caller locations that run inside the create gate, and those queued for it.
Seeding == {"seed", "seedStart", "seedWait"}
InGateCaller == {"rotStop", "rotRemove", "volume", "create", "start"} \cup Seeding
CallerPC == InGateCaller \cup
  { "idle", "inspect", "wantRotate", "wantCreate", "startOld", "resolve", "wait",
    "recStop", "recRemove", "resetStop", "resetRemove" }
SweepPC  == { "idle", "pick", "stop", "remove", "forget", "wantVolume", "discard" }

\* The parts of the state that are counts, the gate's queue, flags, and the rest.
CountsOK ==
  /\ provisioning \in [Names -> Nat]
  /\ faults \in Nat /\ rebuilds \in Nat /\ restarts \in Nat
QueueOK ==
  /\ gate \in Seq(Agents)
  /\ pc \in [Agents -> CallerPC \cup SweepPC]
  /\ \A c \in Callers : pc[c] \in CallerPC
  /\ \A s \in Sweeps : pc[s] \in SweepPC
FlagsOK ==
  /\ oldImage \in [Names -> BOOLEAN]
  /\ retried \in [Callers -> BOOLEAN]
StatesOK ==
  /\ container \in [Names -> {"absent", "created", "running", "exited"}]
  /\ volume \in [Names -> {"absent", "made", "fresh", "used", "overwritten"}]
  /\ helper \in [Callers -> {"none", "created", "running"}]
  /\ attached \in [Names -> {"none", "stream", "socket"}]
  /\ info \in [Callers -> {"none", "stopped", "running"}]
  /\ activity \in [Names -> {"none", "recent", "idle"}]
  /\ listed \in [Sweeps -> SUBSET Names]
  /\ todo \in [Sweeps -> SUBSET Names]
  /\ target \in [Sweeps -> Names]
  /\ boot \in {"gc", "volumes", "up"}

(* The registry's counts (setProvisioning, clearProvisioning) stay        *)
(* naturals, the gate is a queue of the calls that are under way           *)
(* (createGate), and every program counter is where its owner may be.      *)
TypeOK == StatesOK /\ FlagsOK /\ QueueOK /\ CountsOK

\* What `target` holds while no Name is being reclaimed.
Parked == CHOOSE n \in Names : TRUE

Init ==
  /\ container = [n \in Names |-> "absent"]
  /\ oldImage = [n \in Names |-> FALSE]
  /\ volume = [n \in Names |-> "absent"]
  /\ helper = [c \in Callers |-> "none"]
  /\ gate = <<>>
  /\ pc = [a \in Agents |-> "idle"]
  /\ info = [c \in Callers |-> "none"]
  /\ retried = [c \in Callers |-> FALSE]
  /\ provisioning = [n \in Names |-> 0]
  /\ activity = [n \in Names |-> "none"]
  /\ attached = [n \in Names |-> "none"]
  /\ listed = [s \in Sweeps |-> {}]
  /\ todo = [s \in Sweeps |-> {}]
  /\ target = [s \in Sweeps |-> Parked]
  /\ boot = "gc"
  /\ faults = 0 /\ rebuilds = 0 /\ restarts = 0

-----------------------------------------------------------------------------
(* Helpers.                                                                *)

Present == { n \in Names : container[n] # "absent" }

\* A seed copy is a container of its own: Docker keeps it, and with it the
\* volume it mounts, whatever becomes of the provision that asked for it.
Helpers == { c \in Callers : helper[c] # "none" }
Copying(c, n) == NameOf[c] = n /\ helper[c] = "running"
InUse(n) == container[n] # "absent" \/ \E c \in Helpers : NameOf[c] = n

Goto(a, l) == pc' = [pc EXCEPT ![a] = l]

\* serializeCreate: join the promise chain; run once everyone ahead settled.
JoinGate(a, l) == gate' = Append(gate, a) /\ Goto(a, l)
EntersUnserved(a) == \E i \in DOMAIN gate : gate[i] = a   \* slip: the chain is not awaited
HoldsGate(a)   == gate # <<>> /\ Head(gate) = a
NeverSettles == UNCHANGED gate   \* slip: the link never settles
LeaveGate == gate' = Tail(gate)

Fault(f) == f \in Faults /\ faults < MaxFaults /\ faults' = faults + 1
NoFault  == UNCHANGED faults

\* A Docker call that does `effect`, or fails with kind `f` and changes nothing.
\* stop, remove: the provisioner logs the failure and carries on.
StopContainer(n) ==
  \/ /\ container' = [container EXCEPT ![n] = IF @ = "running" THEN "exited" ELSE @]
     /\ NoFault
  \/ Fault("stop") /\ UNCHANGED container

RemoveContainer(n) ==
  \/ /\ container' = [container EXCEPT ![n] = "absent"]
     /\ oldImage' = [oldImage EXCEPT ![n] = FALSE]
     /\ NoFault
  \/ Fault("remove") /\ UNCHANGED <<container, oldImage>>

Touch(n) == activity' = [activity EXCEPT ![n] = "recent"]

ClearFlag(n) == provisioning' = [provisioning EXCEPT ![n] = 0]   \* slip: not a count
ClearProvisioning(n) ==
  provisioning' = [provisioning EXCEPT ![n] = IF @ > 0 THEN @ - 1 ELSE 0]

\* The provision ends, whichever way: clearProvisioning in its finally.
Finish(c) ==
  /\ ClearProvisioning(NameOf[c])
  /\ retried' = [retried EXCEPT ![c] = FALSE]
  /\ Goto(c, "idle")
Continue(c, l) == Goto(c, l) /\ UNCHANGED <<provisioning, retried>>

\* canRotateImage: a session asks for no open stream, whatever the sockets; a
\* driver for neither - nor a session, which is Lanes' matter (MayDecline).
CanRotateImage(c) ==
  attached[NameOf[c]] \in (IF c \in Drivers THEN {"none"} ELSE {"none", "socket"})
MayDecline(c) == ~CanRotateImage(c) \/ c \in Drivers

-----------------------------------------------------------------------------
(* ensureContainer, as provision() of either lane calls it.                *)

\* A browser tool call, which is browser work, or a CDP handshake, which is
\* only once the browser is there, reaches provision().
Begin(c) ==
  /\ pc[c] = "idle"
  /\ IF c \in Drivers THEN UNCHANGED activity ELSE Touch(NameOf[c])
  /\ provisioning' = [provisioning EXCEPT ![NameOf[c]] = @ + 1]
  /\ Goto(c, "inspect")
  /\ UNCHANGED <<docker, gate, info, retried, attached, sweep, budget>>

\* container.inspect, then isImageStale: which of the three paths to take.
\* An inspect that fails for any reason is read as "no such container".
\* A staleness check that fails answers "not stale", so rotating is a choice.
Inspect(c) ==
  LET n == NameOf[c] IN
  /\ pc[c] = "inspect"
  /\ \/ /\ (container[n] = "absent" /\ NoFault) \/ Fault("inspect")
        /\ JoinGate(c, "wantCreate") /\ UNCHANGED info
     \/ /\ oldImage[n] /\ CanRotateImage(c) /\ NoFault
        /\ JoinGate(c, "wantRotate")
        /\ info' = [info EXCEPT ![c] = IF container[n] = "running" THEN "running" ELSE "stopped"]
     \/ container[n] = "running" /\ NoFault /\ Goto(c, "resolve") /\ UNCHANGED <<gate, info>>
     \/ /\ container[n] \in {"created", "exited"} /\ NoFault
        /\ Goto(c, "startOld") /\ UNCHANGED <<gate, info>>
  /\ UNCHANGED <<docker, retried, provisioning, registry, sweep, rebuilds, restarts>>

\* Rotation re-checks the client inside the gate, and never the cap.
EnterRotate(c) ==
  /\ pc[c] = "wantRotate" /\ HoldsGate(c)
  /\ \/ CanRotateImage(c) /\ Goto(c, "rotStop") /\ UNCHANGED gate
     \/ /\ MayDecline(c)
        /\ LeaveGate
        /\ Goto(c, IF info[c] = "running" THEN "resolve" ELSE "startOld")
  /\ info' = [info EXCEPT ![c] = "none"]
  /\ UNCHANGED <<docker, retried, provisioning, registry, sweep, budget>>

RotateStop(c) ==
  /\ pc[c] = "rotStop"
  /\ StopContainer(NameOf[c])
  /\ Goto(c, "rotRemove")
  /\ UNCHANGED <<oldImage, volume, helper, gate, caller, registry, sweep, rebuilds, restarts>>

RotateRemove(c) ==
  /\ pc[c] = "rotRemove"
  /\ RemoveContainer(NameOf[c])
  /\ Goto(c, "volume")
  /\ UNCHANGED <<volume, helper, gate, caller, registry, sweep, rebuilds, restarts>>

\* The fleet carries one label, seed copies included.
RoomForOneMore(n) == Cardinality(Present \ {n}) <= MaxFleet   \* slip
RoomFor(n) == Cardinality(Present \ {n}) + Cardinality(Helpers) < MaxFleet

\* A new browser: count the fleet inside the gate, and refuse at the cap.
CheckCap(c) ==
  /\ pc[c] = "wantCreate" /\ HoldsGate(c)
  /\ \/ /\ RoomFor(NameOf[c])
        /\ Continue(c, "volume") /\ NoFault
        /\ UNCHANGED gate
     \/ /\ \/ ~RoomFor(NameOf[c]) /\ NoFault
           \/ Fault("list")
        /\ LeaveGate
        /\ Finish(c)
  /\ UNCHANGED <<docker, info, registry, sweep, rebuilds, restarts>>

\* slip: the early return for a volume that exists is gone
SeedsAnyVolume(c) ==
  /\ pc[c] = "volume"
  /\ volume' = [volume EXCEPT ![NameOf[c]] = IF @ = "absent" THEN "made" ELSE @]
  /\ Continue(c, "seed")
  /\ UNCHANGED <<container, oldImage, helper, gate, info, registry, sweep, budget>>

\* An inspect that fails for any reason is read as "no such volume": the
\* create is then a no-op on an existing volume, and the seed runs over it.
\* A create that fails ends the provision.
EnsureVolume(c) ==
  LET n == NameOf[c] IN
  /\ pc[c] = "volume"
  /\ \/ /\ volume[n] # "absent" /\ NoFault
        /\ Continue(c, "create")
        /\ UNCHANGED <<volume, gate>>
     \/ /\ \/ volume[n] = "absent" /\ NoFault
           \/ volume[n] # "absent" /\ Fault("inspectVolume")
        /\ volume' = [volume EXCEPT ![n] = IF @ = "absent" THEN "made" ELSE @]
        /\ Continue(c, "seed")
        /\ UNCHANGED gate
     \/ /\ volume[n] = "absent" /\ Fault("create")
        /\ LeaveGate
        /\ Finish(c)
        /\ UNCHANGED volume
  /\ UNCHANGED <<container, oldImage, helper, info, registry, sweep, rebuilds, restarts>>

\* The volume is as seeded as it will be.
Settled(n) == [volume EXCEPT ![n] = IF @ = "made" THEN "fresh" ELSE @]

\* Without a seed, or when its inspect or the creation of the helper fails,
\* the browser starts empty.  Bound: one helper per caller; as a helper pins
\* its volume, only a failing volume inspect asks for a second one.
SeedVolume(c) ==
  /\ pc[c] = "seed"
  /\ \/ volume' = Settled(NameOf[c]) /\ Goto(c, "create") /\ UNCHANGED helper
     \/ /\ helper[c] = "none"
        /\ helper' = [helper EXCEPT ![c] = "created"]
        /\ Goto(c, "seedStart") /\ UNCHANGED volume
  /\ UNCHANGED <<container, oldImage, gate, caller, registry, sweep, budget>>

\* A helper that does not start stays behind, and the browser starts empty.
SeedStart(c) ==
  LET n == NameOf[c] IN
  /\ pc[c] = "seedStart"
  /\ \/ /\ helper' = [helper EXCEPT ![c] = "running"]
        /\ volume' = [volume EXCEPT ![n] = IF @ \in {"used", "overwritten"} THEN "overwritten" ELSE "made"]
        /\ Goto(c, "seedWait") /\ NoFault
     \/ /\ volume' = Settled(n)
        /\ Goto(c, "create") /\ Fault("start")
        /\ UNCHANGED helper
  /\ UNCHANGED <<container, oldImage, gate, caller, registry, sweep, rebuilds, restarts>>

\* The script ends, well or not, and AutoRemove takes its container away.
CopyEnds(c) ==
  LET n == NameOf[c] IN
  /\ helper[c] = "running"
  /\ helper' = [helper EXCEPT ![c] = "none"]
  /\ volume' = IF \E d \in Callers \ {c} : Copying(d, n) THEN volume ELSE Settled(n)

\* A wait that fails is logged, and the provision goes on beside the copy.
SeedWait(c) ==
  /\ pc[c] = "seedWait"
  /\ \/ CopyEnds(c) /\ NoFault
     \/ Fault("wait") /\ UNCHANGED <<volume, helper>>
  /\ Goto(c, "create")
  /\ UNCHANGED <<container, oldImage, gate, caller, registry, sweep, rebuilds, restarts>>

\* Docker answers 409 while a container of that name exists, and makes an
\* empty volume of its own for a bind whose volume is missing.
CreateContainer(c) ==
  LET n == NameOf[c] IN
  /\ pc[c] = "create"
  /\ \/ /\ container[n] = "absent"
        /\ container' = [container EXCEPT ![n] = "created"]
        /\ volume' = [volume EXCEPT ![n] = IF @ = "absent" THEN "made" ELSE @]
        /\ Continue(c, "start") /\ NoFault
        /\ UNCHANGED gate
     \/ /\ (container[n] # "absent" /\ NoFault) \/ Fault("create")
        /\ LeaveGate
        /\ Finish(c)
        /\ UNCHANGED <<container, volume>>
  /\ UNCHANGED <<oldImage, helper, info, registry, sweep, rebuilds, restarts>>

\* start: Chrome comes up and writes its profile.  404 when it is gone.
Started(n) ==
  /\ container[n] # "absent"
  /\ container' = [container EXCEPT ![n] = "running"]
  /\ volume' = [volume EXCEPT ![n] =
                  IF @ = "overwritten" \/ (\E c \in Callers : Copying(c, n))
                  THEN "overwritten" ELSE "used"]
StartFails(n) ==
  /\ (container[n] = "absent" /\ NoFault) \/ Fault("start")
  /\ UNCHANGED <<container, volume>>

StartCreated(c) ==
  /\ pc[c] = "start"
  /\ LeaveGate
  /\ \/ Started(NameOf[c]) /\ Continue(c, "resolve") /\ NoFault
     \/ StartFails(NameOf[c]) /\ Finish(c)
  /\ UNCHANGED <<oldImage, helper, info, registry, sweep, rebuilds, restarts>>

\* An existing stopped container is started outside the gate.
StartExisting(c) ==
  /\ pc[c] = "startOld"
  /\ \/ Started(NameOf[c]) /\ Continue(c, "resolve") /\ NoFault
     \/ StartFails(NameOf[c]) /\ Finish(c)
  /\ UNCHANGED <<oldImage, helper, gate, info, registry, sweep, rebuilds, restarts>>

\* A ProvisionError is answered by one recreate; anything else ends it.
Unhealthy(c) ==
  IF retried[c] THEN Finish(c) ELSE Continue(c, "recStop")

ResolveIp(c) ==
  /\ pc[c] = "resolve"
  /\ CASE container[NameOf[c]] = "running" -> Continue(c, "wait")
       [] container[NameOf[c]] = "absent"  -> Finish(c)
       [] OTHER                            -> Unhealthy(c)
  /\ UNCHANGED <<docker, gate, info, registry, sweep, budget>>

WaitHealthy(c) ==
  /\ pc[c] = "wait"
  /\ \/ /\ container[NameOf[c]] = "running" /\ Finish(c) /\ NoFault
        /\ IF c \in Drivers THEN Touch(NameOf[c]) ELSE UNCHANGED activity
     \/ /\ Unhealthy(c) /\ UNCHANGED activity
        /\ (container[NameOf[c]] # "running" /\ NoFault) \/ Fault("unhealthy")
  /\ UNCHANGED <<docker, gate, info, attached, sweep, rebuilds, restarts>>

\* recreateContainer inside provision(): stop, remove, ensure once more.
RecreateStop(c) ==
  /\ pc[c] = "recStop"
  /\ StopContainer(NameOf[c])
  /\ Goto(c, "recRemove")
  /\ UNCHANGED <<oldImage, volume, helper, gate, caller, registry, sweep, rebuilds, restarts>>

RecreateRemove(c) ==
  /\ pc[c] = "recRemove"
  /\ RemoveContainer(NameOf[c])
  /\ retried' = [retried EXCEPT ![c] = TRUE]
  /\ Goto(c, "inspect")
  /\ UNCHANGED <<volume, helper, gate, info, provisioning, registry, sweep, rebuilds, restarts>>

\* chikin_reset and a failed respawn recreate outside any declared provision.
BeginReset(c) ==
  /\ pc[c] = "idle" /\ c \in Resetters
  /\ Touch(NameOf[c])
  /\ Goto(c, "resetStop")
  /\ UNCHANGED <<docker, gate, caller, attached, sweep, budget>>

ResetStop(c) ==
  /\ pc[c] = "resetStop"
  /\ StopContainer(NameOf[c])
  /\ Goto(c, "resetRemove")
  /\ UNCHANGED <<oldImage, volume, helper, gate, caller, registry, sweep, rebuilds, restarts>>

ResetRemove(c) ==
  /\ pc[c] = "resetRemove"
  /\ RemoveContainer(NameOf[c])
  /\ Goto(c, "idle")
  /\ UNCHANGED <<volume, helper, gate, caller, registry, sweep, rebuilds, restarts>>

Provision(c) ==
  \/ Inspect(c) \/ EnterRotate(c) \/ RotateStop(c) \/ RotateRemove(c)
  \/ CheckCap(c) \/ EnsureVolume(c) \/ SeedVolume(c) \/ SeedStart(c) \/ SeedWait(c)
  \/ CreateContainer(c) \/ StartCreated(c) \/ StartExisting(c) \/ ResolveIp(c) \/ WaitHealthy(c)
  \/ RecreateStop(c) \/ RecreateRemove(c) \/ ResetStop(c) \/ ResetRemove(c)

-----------------------------------------------------------------------------
(* Reaper.sweep.                                                           *)

NotAdopted == activity   \* slip
Adopted == [n \in Names |-> IF container[n] = "running" /\ activity[n] = "none"
                            THEN "recent" ELSE activity[n]]

\* listFleet; adopt running containers nobody tracks; list the records.
\* A failed list reaps on the records alone, as if every Name held one.
SweepList(s) ==
  /\ pc[s] = "idle"
  /\ \/ /\ listed' = [listed EXCEPT ![s] = Present]
        /\ activity' = Adopted
        /\ NoFault
     \/ /\ listed' = [listed EXCEPT ![s] = Names]
        /\ UNCHANGED activity /\ Fault("list")
  /\ todo' = [todo EXCEPT ![s] = { n \in Names : activity'[n] # "none" }]
  /\ Goto(s, "pick")
  /\ UNCHANGED <<docker, gate, caller, attached, target, rebuilds, restarts>>

\* mid-provision, or not idle by the clock of its tier.
Spared(n) == provisioning[n] > 0 \/ activity[n] # "idle"

\* The judgement on one Name, all of it synchronous.
\* A Name without a container is left alone while a session is live on it,
\* stream or not; sessions are Lanes' matter, so that skip is a choice.
SweepSkip(s, n) ==
  /\ Spared(n) \/ n \notin listed[s] \/ (attached[n] # "none" /\ ~ReapAttached)
  /\ Goto(s, "pick")
  /\ UNCHANGED target

SweepReclaim(s, n) ==
  /\ ~Spared(n)
  /\ \/ n \notin listed[s] /\ attached[n] = "none" /\ Goto(s, "forget")
     \/ n \in listed[s] /\ (ReapAttached \/ attached[n] = "none") /\ Goto(s, "stop")
  /\ target' = [target EXCEPT ![s] = n]

SweepJudge(s) ==
  /\ pc[s] = "pick"
  /\ \E n \in todo[s] :
       /\ SweepSkip(s, n) \/ SweepReclaim(s, n)
       /\ todo' = [todo EXCEPT ![s] = @ \ {n}]
  /\ UNCHANGED <<docker, gate, caller, registry, listed, budget>>

SweepEnd(s) ==
  /\ pc[s] = "pick" /\ todo[s] = {}
  /\ Goto(s, "idle")
  /\ listed' = [listed EXCEPT ![s] = {}]
  /\ UNCHANGED <<docker, gate, caller, registry, todo, target, budget>>

SweepStop(s) ==
  /\ pc[s] = "stop"
  /\ StopContainer(target[s])
  /\ Goto(s, "remove")
  /\ UNCHANGED <<oldImage, volume, helper, gate, caller, registry, sweep, rebuilds, restarts>>

SweepRemove(s) ==
  /\ pc[s] = "remove"
  /\ RemoveContainer(target[s])
  /\ Goto(s, "forget")
  /\ UNCHANGED <<volume, helper, gate, caller, registry, sweep, rebuilds, restarts>>

\* dropActivity, and on to the next Name.
DropActivity(s) ==
  /\ activity' = [activity EXCEPT ![target[s]] = "none"]
  /\ attached' = [attached EXCEPT ![target[s]] = "none"]
  /\ target' = [target EXCEPT ![s] = Parked]
  /\ Goto(s, "pick")

\* removeInstanceVolume keeps every profile that is not a disposable's.
SweepVolume(s) ==
  /\ pc[s] = "forget"
  /\ \/ /\ target[s] \notin Instances
        /\ DropActivity(s) /\ UNCHANGED gate
     \/ /\ target[s] \in Instances
        /\ JoinGate(s, "wantVolume") /\ UNCHANGED <<registry, target>>
  /\ UNCHANGED <<docker, caller, listed, todo, budget>>

\* The guard, asked again once the gate is ours.
SweepGuard(s) ==
  /\ pc[s] = "wantVolume" /\ HoldsGate(s)
  /\ \/ /\ provisioning[target[s]] > 0
        /\ LeaveGate
        /\ DropActivity(s)
     \/ /\ provisioning[target[s]] = 0
        /\ Goto(s, "discard") /\ UNCHANGED <<gate, registry, target>>
  /\ UNCHANGED <<docker, caller, listed, todo, budget>>

\* Docker refuses (409) while a container, of a browser or of a seed copy, has
\* the volume; any failure is logged, and the sweep carries on.
RemoveVolume(n) ==
  \/ /\ volume' = [volume EXCEPT ![n] = IF InUse(n) THEN @ ELSE "absent"]
     /\ NoFault
  \/ Fault("remove") /\ UNCHANGED volume

SweepDiscard(s) ==
  /\ pc[s] = "discard"
  /\ RemoveVolume(target[s])
  /\ LeaveGate
  /\ DropActivity(s)
  /\ UNCHANGED <<container, oldImage, helper, caller, listed, todo, rebuilds, restarts>>

Sweep(s) ==
  \/ SweepJudge(s) \/ SweepEnd(s) \/ SweepStop(s) \/ SweepRemove(s)
  \/ SweepVolume(s) \/ SweepGuard(s) \/ SweepDiscard(s)

-----------------------------------------------------------------------------
(* Startup: gcExited, then the orphan-volume sweep, then serving.          *)

\* Bound: of a pass over several removals at most the one of `kept` fails.
Missed(kept) == IF kept = {} THEN NoFault ELSE Fault("remove")
Misses(S) == { {} } \cup { {x} : x \in S }

BootGc ==
  /\ boot = "gc"
  /\ \/ \E kept \in Misses(Names), left \in Misses(Callers) :
        /\ kept = {} \/ left = {}
        /\ container' = [n \in Names |-> IF container[n] = "running" \/ n \in kept
                                        THEN container[n] ELSE "absent"]
        /\ oldImage' = [n \in Names |-> oldImage[n] /\ container'[n] # "absent"]
        /\ helper' = [c \in Callers |-> IF helper[c] = "running" \/ c \in left
                                        THEN helper[c] ELSE "none"]
        /\ Missed(kept \cup left)
     \/ Fault("list") /\ UNCHANGED <<container, oldImage, helper>>
  /\ boot' = "volumes"
  /\ UNCHANGED <<volume, gate, pc, caller, registry, sweep, rebuilds, restarts>>

OrphanVolumes == { n \in Instances : ~InUse(n) }

BootVolumes ==
  /\ boot = "volumes"
  /\ \/ /\ VolumeGc
        /\ \E kept \in Misses(Names) :
             /\ volume' = [n \in Names |-> IF n \in OrphanVolumes \ kept THEN "absent" ELSE volume[n]]
             /\ Missed(kept)
     \/ VolumeGc /\ Fault("list") /\ UNCHANGED volume
     \/ ~VolumeGc /\ NoFault /\ UNCHANGED volume
  /\ boot' = "up"
  /\ UNCHANGED <<container, oldImage, helper, gate, pc, caller, registry, sweep, rebuilds, restarts>>

\* The process dies: everything but Docker's state is lost.  A seed copy goes on.
Crash ==
  /\ boot = "up" /\ restarts < MaxRestarts
  /\ restarts' = restarts + 1
  /\ boot' = "gc"
  /\ gate' = <<>>
  /\ pc' = [a \in Agents |-> "idle"]
  /\ provisioning' = [n \in Names |-> 0]
  /\ activity' = [n \in Names |-> "none"]
  /\ attached' = [n \in Names |-> "none"]
  /\ info' = [c \in Callers |-> "none"]
  /\ retried' = [c \in Callers |-> FALSE]
  /\ listed' = [s \in Sweeps |-> {}]
  /\ todo' = [s \in Sweeps |-> {}]
  /\ target' = [s \in Sweeps |-> Parked]
  /\ UNCHANGED <<docker, faults, rebuilds>>

-----------------------------------------------------------------------------
(* The environment: clients, the clock, the operator.                      *)

\* A stream or a CDP socket opens or closes; either stamps the record.
Attach(n) ==
  /\ attached[n] = "none" /\ n \in Clients
  /\ \E kind \in {"stream", "socket"} : attached' = [attached EXCEPT ![n] = kind]
  /\ Touch(n)
  /\ UNCHANGED <<docker, gate, pc, caller, sweep, boot, budget>>

Detach(n) ==
  /\ attached[n] # "none"
  /\ attached' = [attached EXCEPT ![n] = "none"]
  /\ Touch(n)
  /\ UNCHANGED <<docker, gate, pc, caller, sweep, boot, budget>>

\* The TTL of the Name's tier passes with nothing to refresh it.
Age(n) ==
  /\ activity[n] = "recent"
  /\ activity' = [activity EXCEPT ![n] = "idle"]
  /\ UNCHANGED <<docker, gate, pc, caller, attached, sweep, boot, budget>>

RebuildImage ==
  /\ rebuilds < MaxRebuilds
  /\ rebuilds' = rebuilds + 1
  /\ oldImage' = [n \in Names |-> container[n] # "absent"]
  /\ UNCHANGED <<container, volume, helper, gate, pc, caller, registry, sweep, boot, faults, restarts>>

\* docker rm, or docker stop, behind the gateway's back.
OutOfBand(n) ==
  /\ \/ /\ container[n] # "absent" /\ Fault("vanish")
        /\ container' = [container EXCEPT ![n] = "absent"]
        /\ oldImage' = [oldImage EXCEPT ![n] = FALSE]
     \/ /\ container[n] = "running" /\ Fault("exit")
        /\ container' = [container EXCEPT ![n] = "exited"]
        /\ UNCHANGED oldImage
  /\ UNCHANGED <<volume, helper, gate, pc, caller, registry, sweep, boot, rebuilds, restarts>>

\* A seed copy that nobody waits for any more ends.
StrayCopyEnds(c) ==
  /\ pc[c] # "seedWait"
  /\ CopyEnds(c)
  /\ UNCHANGED <<container, oldImage, gate, pc, caller, registry, sweep, boot, budget>>

-----------------------------------------------------------------------------
Serve ==
  /\ boot = "up"
  /\ UNCHANGED boot
  /\ \/ \E c \in Callers : Begin(c) \/ BeginReset(c) \/ Provision(c)
     \/ \E s \in Sweeps : SweepList(s) \/ Sweep(s)

Next ==
  \/ Serve \/ BootGc \/ BootVolumes \/ Crash \/ RebuildImage
  \/ \E n \in Names :
       \/ boot = "up" /\ (Attach(n) \/ Detach(n))
       \/ Age(n) \/ OutOfBand(n)
  \/ \E c \in Callers : StrayCopyEnds(c)

\* Docker answers, the event loop runs what is ready, the sweep timer fires
\* and the clock advances; no client is obliged to call.
Fairness ==
  /\ WF_vars(BootGc) /\ WF_vars(BootVolumes)
  /\ \A c \in Callers : WF_vars(boot = "up" /\ UNCHANGED boot /\ Provision(c))
  /\ \A s \in Sweeps : /\ WF_vars(boot = "up" /\ UNCHANGED boot /\ Sweep(s))
                       /\ WF_vars(boot = "up" /\ UNCHANGED boot /\ SweepList(s))
  /\ \A n \in Names : WF_vars(Age(n))
  /\ \A c \in Callers : WF_vars(StrayCopyEnds(c))

Spec == Init /\ [][Next]_vars
FairSpec == Spec /\ Fairness

-----------------------------------------------------------------------------
(* Properties.                                                             *)

(* Each provision of a Name is declared from its first await to its last,  *)
(* no longer, and no other's end takes it back: isPending is what the      *)
(* sweep asks before it takes a volume (markProvisioning, CHK-015).        *)
Provisioning(n) ==
  { c \in Callers : NameOf[c] = n /\ pc[c] \notin {"idle", "resetStop", "resetRemove"} }
ProvisionsDeclared == \A n \in Names : provisioning[n] = Cardinality(Provisioning(n))

(* MAX_FLEET bounds the browsers that exist, in whatever state: the count  *)
(* and the create are one hold of the create gate (CHK-010).               *)
CapRespected == Cardinality(Present) <= MaxFleet

(* While volume inspects and waits for seed copies succeed and the gateway *)
(* stays up, no container mounts a profile volume that Docker had to invent*)
(* or that is still being seeded: nothing removes or refills a volume      *)
(* between ensureVolume and the container that mounts it (CHK-015).        *)
MountedProfileReady == \A n \in Present : volume[n] \in {"fresh", "used"}

\* A seed copy of the Name's profile runs, and no provision waits for its end.
Abandoned(n) == \E c \in Callers : Copying(c, n) /\ pc[c] # "seedWait"

(* What a browser wrote into its profile is lost only when an idle         *)
(* disposable Name is discarded: never reseeded, never removed under a     *)
(* container, never for a sticky Name.  A seed copy runs under a browser   *)
(* only if its provision gave up waiting for it or died.                   *)
ProfilePreserved ==
  [][\A n \in Names :
       /\ volume[n] \in {"used", "overwritten"} /\ volume'[n] # volume[n] =>
            n \in Instances /\ n \notin Present /\ volume'[n] = "absent"
       /\ volume'[n] = "overwritten" /\ volume[n] # "overwritten" => Abandoned(n)]_vars

(* While no image is rebuilt, the volume inspect and the wait for the seed *)
(* copy are reliable and the gateway stays up, the whole fleet keeps the   *)
(* ProfileStore's promise.                                                 *)
Store == INSTANCE ProfileStore WITH
  profile <- [n \in Names |-> IF volume[n] \in {"absent", "made"} THEN "none" ELSE volume[n]],
  mounted <- Present
StoreSpec == Store!Spec

(* A provision that began is answered: a failing one cannot wedge the gate *)
(* for those behind it.                                                    *)
ProvisionEnds ==
  \A c \in Callers : pc[c] \notin {"idle"} ~> pc[c] = "idle"

(* A browser nobody uses any more gives its slot back.                     *)
Unused(n) == attached[n] = "none" /\ \A c \in Callers : NameOf[c] = n => pc[c] = "idle"
SlotReclaimed ==
  \A n \in Names : <>[]Unused(n) => <>[](container[n] = "absent")
=============================================================================
