----------------------------- MODULE FleetProofs -----------------------------
(***************************************************************************)
(* What holds of the fleet for every set of Names, callers and sweeps.     *)
(***************************************************************************)
EXTENDS Fleet, FiniteSetTheorems, TLAPS

-----------------------------------------------------------------------------
(* Types.                                                                  *)

\* A provisioning step changes the places it names and no count but these.
LEMMA CallerStates ==
  ASSUME StatesOK, NEW c \in Callers, Begin(c) \/ BeginReset(c) \/ Provision(c), UNCHANGED boot
  PROVE  StatesOK'
<1> DEFINE n == NameOf[c]
<1>0. n \in Names  BY FleetAssumption DEF FleetAssumption
<1> USE <1>0 DEF StatesOK, docker, caller, registry, sweep, budget, Touch
<1>1. CASE Begin(c)       BY <1>1 DEF Begin
<1>2. CASE BeginReset(c)  BY <1>2 DEF BeginReset
<1>3. CASE Inspect(c)     BY <1>3 DEF Inspect
<1>4. CASE EnterRotate(c) BY <1>4 DEF EnterRotate
<1>5. CASE RotateStop(c) \/ RecreateStop(c) \/ ResetStop(c)
  BY <1>5 DEF RotateStop, RecreateStop, ResetStop, StopContainer
<1>6. CASE RotateRemove(c) \/ ResetRemove(c)
  BY <1>6 DEF RotateRemove, ResetRemove, RemoveContainer
<1>7. CASE RecreateRemove(c)  BY <1>7 DEF RecreateRemove, RemoveContainer
<1>8. CASE CheckCap(c)     BY <1>8 DEF CheckCap, Continue, Finish
<1>9. CASE EnsureVolume(c) BY <1>9 DEF EnsureVolume
<1>10. CASE SeedVolume(c) \/ SeedStart(c) \/ SeedWait(c)
  BY <1>10 DEF SeedVolume, SeedStart, SeedWait, CopyEnds, Settled
<1>11. CASE CreateContainer(c)  BY <1>11 DEF CreateContainer, Continue, Finish
<1>12. CASE StartCreated(c) \/ StartExisting(c)
  BY <1>12 DEF StartCreated, StartExisting, Started, StartFails, Continue, Finish
<1>13. CASE ResolveIp(c) \/ WaitHealthy(c)
  BY <1>13 DEF ResolveIp, WaitHealthy, Unhealthy, Continue, Finish
<1> QED BY <1>1, <1>2, <1>3, <1>4, <1>5, <1>6, <1>7, <1>8, <1>9, <1>10, <1>11, <1>12, <1>13
       DEF Provision

LEMMA SweepStates ==
  ASSUME StatesOK, NEW s \in Sweeps, SweepList(s) \/ Sweep(s), UNCHANGED boot
  PROVE  StatesOK'
<1>0. target[s] \in Names /\ Parked \in Names
  BY FleetAssumption DEF FleetAssumption, StatesOK, Parked
<1> USE <1>0 DEF StatesOK, docker, caller, registry, sweep, budget
<1>1. CASE SweepList(s)    BY <1>1 DEF SweepList, Present, Adopted
<1>2. CASE SweepJudge(s)   BY <1>2 DEF SweepJudge, SweepSkip, SweepReclaim
<1>3. CASE SweepEnd(s)     BY <1>3 DEF SweepEnd
<1>4. CASE SweepStop(s)    BY <1>4 DEF SweepStop, StopContainer
<1>5. CASE SweepRemove(s)  BY <1>5 DEF SweepRemove, RemoveContainer
<1>6. CASE SweepVolume(s)  BY <1>6 DEF SweepVolume, DropActivity
<1>7. CASE SweepGuard(s)   BY <1>7 DEF SweepGuard, DropActivity
<1>8. CASE SweepDiscard(s) BY <1>8 DEF SweepDiscard, DropActivity, RemoveVolume
<1> QED BY <1>1, <1>2, <1>3, <1>4, <1>5, <1>6, <1>7, <1>8 DEF Sweep

\* The boot takes containers and helpers away, and nothing that runs.
LEMMA BootCollects ==
  ASSUME StatesOK, BootGc
  PROVE  /\ container' \in [Names -> {"absent", "created", "running", "exited"}]
         /\ helper' \in [Callers -> {"none", "created", "running"}]
         /\ \A n \in Names : container'[n] \in {container[n], "absent"}
         /\ \A c \in Callers : helper'[c] = helper[c] \/ (helper[c] = "created" /\ helper'[c] = "none")
<1> USE DEF StatesOK
<1>1. ASSUME NEW kept, NEW left,
             container' = [n \in Names |-> IF container[n] = "running" \/ n \in kept
                                           THEN container[n] ELSE "absent"],
             helper' = [c \in Callers |-> IF helper[c] = "running" \/ c \in left
                                          THEN helper[c] ELSE "none"]
      PROVE  /\ container' \in [Names -> {"absent", "created", "running", "exited"}]
             /\ helper' \in [Callers -> {"none", "created", "running"}]
             /\ \A n \in Names : container'[n] \in {container[n], "absent"}
             /\ \A c \in Callers : helper'[c] = helper[c] \/ (helper[c] = "created" /\ helper'[c] = "none")
  <2>1. \A n \in Names : container'[n] \in {container[n], "absent"}  BY <1>1
  <2>2. \A c \in Callers : helper'[c] = helper[c] \/ (helper[c] = "created" /\ helper'[c] = "none")
    BY <1>1
  <2>3. container' \in [Names -> {"absent", "created", "running", "exited"}]
    BY <1>1
  <2>4. helper' \in [Callers -> {"none", "created", "running"}]
    BY <1>1
  <2> QED BY <2>1, <2>2, <2>3, <2>4
<1>2. CASE UNCHANGED <<container, oldImage, helper>>  BY <1>2
<1>3. CASE \E kept \in Misses(Names), left \in Misses(Callers) :
             /\ container' = [n \in Names |-> IF container[n] = "running" \/ n \in kept
                                             THEN container[n] ELSE "absent"]
             /\ helper' = [c \in Callers |-> IF helper[c] = "running" \/ c \in left
                                            THEN helper[c] ELSE "none"]
  BY <1>1, <1>3
<1>4. \/ UNCHANGED <<container, oldImage, helper>>
      \/ \E kept \in Misses(Names), left \in Misses(Callers) :
           /\ container' = [n \in Names |-> IF container[n] = "running" \/ n \in kept
                                           THEN container[n] ELSE "absent"]
           /\ helper' = [c \in Callers |-> IF helper[c] = "running" \/ c \in left
                                          THEN helper[c] ELSE "none"]
  BY ZenonT(60) DEF BootGc
<1> QED BY <1>2, <1>3, <1>4

LEMMA StatesStep ==
  ASSUME StatesOK, [Next]_vars
  PROVE  StatesOK'
<1>1. CASE Serve
  BY <1>1, CallerStates, SweepStates DEF Serve
<1> USE DEF StatesOK, docker, caller, registry, sweep, budget, Touch
<1>2. CASE BootGc  BY <1>2, BootCollects DEF BootGc
<1>3. CASE BootVolumes  BY <1>3 DEF BootVolumes
<1>4. CASE Crash
  <2>1. Parked \in Names  BY FleetAssumption DEF FleetAssumption, Parked
  <2> QED BY <1>4, <2>1 DEF Crash
<1>5. CASE RebuildImage  BY <1>5 DEF RebuildImage
<1>6. ASSUME NEW n \in Names, Attach(n) \/ Detach(n) \/ Age(n) PROVE StatesOK'
  BY <1>6 DEF Attach, Detach, Age
<1>9. ASSUME NEW c \in Callers, StrayCopyEnds(c) PROVE StatesOK'
  BY <1>9, FleetAssumption DEF StrayCopyEnds, CopyEnds, Settled, FleetAssumption
<1>7. ASSUME NEW n \in Names, OutOfBand(n) PROVE StatesOK'
  BY <1>7 DEF OutOfBand
<1>8. CASE UNCHANGED vars  BY <1>8 DEF vars
<1> QED BY <1>1, <1>2, <1>3, <1>4, <1>5, <1>6, <1>7, <1>8, <1>9 DEF Next

LEMMA FlagsStep ==
  ASSUME FlagsOK, [Next]_vars
  PROVE  FlagsOK'
<1> USE DEF FlagsOK, docker, caller, registry, sweep, budget
<1>1. ASSUME NEW c \in Callers, Begin(c) \/ BeginReset(c) \/ Provision(c) PROVE FlagsOK'
  <2>1. CASE Begin(c) \/ BeginReset(c) \/ Inspect(c) \/ EnterRotate(c)
    BY <2>1 DEF Begin, BeginReset, Inspect, EnterRotate
  <2>2. CASE RotateStop(c) \/ RecreateStop(c) \/ ResetStop(c) \/ EnsureVolume(c)
          \/ SeedVolume(c) \/ SeedStart(c) \/ SeedWait(c)
    BY <2>2 DEF RotateStop, RecreateStop, ResetStop, EnsureVolume, SeedVolume, SeedStart, SeedWait,
         Continue, Finish
  <2>3. CASE RotateRemove(c) \/ ResetRemove(c)
    BY <2>3 DEF RotateRemove, ResetRemove, RemoveContainer
  <2>4. CASE RecreateRemove(c)
    BY <2>4 DEF RecreateRemove, RemoveContainer
  <2>5. CASE CheckCap(c) \/ CreateContainer(c) \/ StartCreated(c) \/ StartExisting(c)
    BY <2>5 DEF CheckCap, CreateContainer, StartCreated, StartExisting, Continue, Finish
  <2>6. CASE ResolveIp(c) \/ WaitHealthy(c)
    BY <2>6 DEF ResolveIp, WaitHealthy, Unhealthy, Continue, Finish
  <2> QED BY <1>1, <2>1, <2>2, <2>3, <2>4, <2>5, <2>6 DEF Provision
<1>2. ASSUME NEW s \in Sweeps, SweepList(s) \/ Sweep(s) PROVE FlagsOK'
  <2>1. CASE SweepList(s) \/ SweepJudge(s) \/ SweepEnd(s) \/ SweepStop(s)
    BY <2>1 DEF SweepList, SweepJudge, SweepEnd, SweepStop
  <2>2. CASE SweepRemove(s)
    BY <2>2 DEF SweepRemove, RemoveContainer
  <2>3. CASE SweepVolume(s) \/ SweepGuard(s) \/ SweepDiscard(s)
    BY <2>3 DEF SweepVolume, SweepGuard, SweepDiscard, DropActivity
  <2> QED BY <1>2, <2>1, <2>2, <2>3 DEF Sweep
<1>3. CASE BootGc \/ BootVolumes
  BY <1>3 DEF BootGc, BootVolumes
<1>4. CASE Crash  BY <1>4 DEF Crash
<1>5. CASE RebuildImage  BY <1>5 DEF RebuildImage
<1>6. ASSUME NEW n \in Names, Attach(n) \/ Detach(n) \/ Age(n) \/ OutOfBand(n) PROVE FlagsOK'
  BY <1>6 DEF Attach, Detach, Age, OutOfBand
<1>7. CASE UNCHANGED vars  BY <1>7 DEF vars
<1>8. ASSUME NEW c \in Callers, StrayCopyEnds(c) PROVE FlagsOK'
  BY <1>8 DEF StrayCopyEnds
<1> QED BY <1>1, <1>2, <1>3, <1>4, <1>5, <1>6, <1>7, <1>8 DEF Next, Serve

LEMMA CountsStep ==
  ASSUME CountsOK, [Next]_vars
  PROVE  CountsOK'
<1> USE DEF CountsOK, docker, caller, registry, sweep, budget, Fault, NoFault
<1>1. ASSUME NEW c \in Callers, Begin(c) \/ BeginReset(c) \/ Provision(c) PROVE CountsOK'
  <2>0. NameOf[c] \in Names  BY FleetAssumption DEF FleetAssumption
  <2>1. CASE Begin(c) \/ BeginReset(c) \/ Inspect(c) \/ EnterRotate(c)
    BY <2>0, <2>1 DEF Begin, BeginReset, Inspect, EnterRotate
  <2>2. CASE RotateStop(c) \/ RecreateStop(c) \/ ResetStop(c)
          \/ SeedVolume(c) \/ SeedStart(c) \/ SeedWait(c)
    BY <2>2 DEF RotateStop, RecreateStop, ResetStop, SeedVolume, SeedStart, SeedWait, StopContainer
  <2>3. CASE RotateRemove(c) \/ ResetRemove(c) \/ RecreateRemove(c)
    BY <2>3 DEF RotateRemove, ResetRemove, RecreateRemove, RemoveContainer
  <2> USE DEF Continue, Finish, ClearProvisioning
  <2>4. CASE CheckCap(c) \/ EnsureVolume(c) \/ CreateContainer(c)
    BY <2>0, <2>4 DEF CheckCap, EnsureVolume, CreateContainer
  <2>5. CASE StartCreated(c) \/ StartExisting(c)
    BY <2>0, <2>5 DEF StartCreated, StartExisting, StartFails
  <2>6. CASE ResolveIp(c) \/ WaitHealthy(c)
    BY <2>0, <2>6 DEF ResolveIp, WaitHealthy, Unhealthy
  <2> QED BY <1>1, <2>1, <2>2, <2>3, <2>4, <2>5, <2>6 DEF Provision
<1>2. ASSUME NEW s \in Sweeps, SweepList(s) \/ Sweep(s) PROVE CountsOK'
  BY <1>2 DEF Sweep, SweepList, SweepJudge, SweepEnd, SweepStop, SweepRemove, SweepVolume,
       SweepGuard, SweepDiscard, StopContainer, RemoveContainer, RemoveVolume
<1>3. CASE BootGc \/ BootVolumes \/ Crash \/ RebuildImage \/ UNCHANGED vars
  BY <1>3 DEF BootGc, BootVolumes, Missed, Crash, RebuildImage, vars
<1>4. ASSUME NEW n \in Names, Attach(n) \/ Detach(n) \/ Age(n) \/ OutOfBand(n) PROVE CountsOK'
  BY <1>4 DEF Attach, Detach, Age, OutOfBand
<1>5. ASSUME NEW c \in Callers, StrayCopyEnds(c) PROVE CountsOK'
  BY <1>5 DEF StrayCopyEnds
<1> QED BY <1>1, <1>2, <1>3, <1>4, <1>5 DEF Next, Serve

-----------------------------------------------------------------------------
(* The create gate.                                                        *)

\* Where an agent runs inside the gate.
Inside == InGateCaller \cup {"discard"}

\* Whoever runs inside the gate is at the head of its queue: alone.
GateInv == \A a \in Agents : pc[a] \in Inside => HoldsGate(a)

\* What an agent's step may do to the gate: queue up behind the others, settle
\* its own turn, or leave the queue alone and be inside only in its turn.
Moves(a, l) ==
  /\ pc' = [pc EXCEPT ![a] = l]
  /\ \/ gate' = Append(gate, a) /\ l \notin Inside
     \/ HoldsGate(a) /\ LeaveGate /\ l \notin Inside
     \/ UNCHANGED gate /\ (l \in Inside => HoldsGate(a))

LEMMA GateMove ==
  ASSUME QueueOK, GateInv, NEW a \in Agents, NEW l, Moves(a, l),
         a \in Callers => l \in CallerPC, a \in Sweeps => l \in SweepPC
  PROVE  QueueOK' /\ GateInv'
<1>1. /\ pc' \in [Agents -> CallerPC \cup SweepPC]
      /\ \A c \in Callers : pc'[c] \in CallerPC
      /\ \A s \in Sweeps : pc'[s] \in SweepPC
  BY DEF Moves, QueueOK, Agents
<1>2. \A b \in Agents : b # a => pc'[b] = pc[b]
  BY DEF Moves, QueueOK
<1>3. pc'[a] = l
  BY DEF Moves, QueueOK
<1>4. CASE gate' = Append(gate, a) /\ l \notin Inside
  <2>1. gate' \in Seq(Agents)  BY <1>4 DEF QueueOK
  <2>2. gate # <<>> => gate' # <<>> /\ Head(gate') = Head(gate)
    BY <1>4 DEF QueueOK
  <2> QED BY <1>1, <1>2, <1>3, <1>4, <2>1, <2>2 DEF GateInv, HoldsGate, QueueOK
<1>5. CASE HoldsGate(a) /\ LeaveGate /\ l \notin Inside
  <2>1. gate' \in Seq(Agents)  BY <1>5 DEF QueueOK, HoldsGate, LeaveGate
  <2>2. \A b \in Agents : b # a => pc[b] \notin Inside
    BY <1>5 DEF GateInv, HoldsGate
  <2>3. \A b \in Agents : pc'[b] \notin Inside
    BY <1>2, <1>3, <1>5, <2>2
  <2> QED BY <1>1, <2>1, <2>3 DEF GateInv, QueueOK
<1>6. CASE UNCHANGED gate /\ (l \in Inside => HoldsGate(a))
  BY <1>1, <1>2, <1>3, <1>6 DEF GateInv, HoldsGate, QueueOK
<1> QED BY <1>4, <1>5, <1>6 DEF Moves

LEMMA CallerGate ==
  ASSUME QueueOK, GateInv, NEW c \in Callers, Begin(c) \/ BeginReset(c) \/ Provision(c)
  PROVE  \E l \in CallerPC : Moves(c, l)
<1>0. pc[c] \in Inside => HoldsGate(c)
  BY DEF GateInv, Agents
<1> USE <1>0 DEF Moves, Goto, Inside, InGateCaller, Seeding, CallerPC
<1>1. CASE Begin(c) \/ BeginReset(c)  BY <1>1 DEF Begin, BeginReset
<1>2. CASE Inspect(c)  BY <1>2 DEF Inspect, JoinGate
<1>3. CASE EnterRotate(c)  BY <1>3 DEF EnterRotate
<1>4. CASE RotateStop(c) \/ RecreateStop(c) \/ ResetStop(c)
  BY <1>4 DEF RotateStop, RecreateStop, ResetStop
<1>5. CASE RotateRemove(c) \/ RecreateRemove(c) \/ ResetRemove(c)
  BY <1>5 DEF RotateRemove, RecreateRemove, ResetRemove
<1>6. CASE CheckCap(c)  BY <1>6 DEF CheckCap, Continue, Finish
<1>7. CASE EnsureVolume(c) \/ SeedVolume(c) \/ SeedStart(c) \/ SeedWait(c)
  BY <1>7 DEF EnsureVolume, SeedVolume, SeedStart, SeedWait, Continue, Finish
<1>8. CASE CreateContainer(c)  BY <1>8 DEF CreateContainer, Continue, Finish
<1>9. CASE StartCreated(c)  BY <1>9 DEF StartCreated, Continue, Finish
<1>10. CASE StartExisting(c)  BY <1>10 DEF StartExisting, Continue, Finish
<1>11. CASE ResolveIp(c) \/ WaitHealthy(c)
  BY <1>11 DEF ResolveIp, WaitHealthy, Unhealthy, Continue, Finish
<1> QED BY <1>1, <1>2, <1>3, <1>4, <1>5, <1>6, <1>7, <1>8, <1>9, <1>10, <1>11 DEF Provision

LEMMA SweepGate ==
  ASSUME QueueOK, GateInv, NEW s \in Sweeps, SweepList(s) \/ Sweep(s)
  PROVE  \E l \in SweepPC : Moves(s, l)
<1>0. pc[s] \in Inside => HoldsGate(s)
  BY DEF GateInv, Agents
<1> USE <1>0 DEF Moves, Goto, Inside, InGateCaller, Seeding, SweepPC
<1>1. CASE SweepList(s)    BY <1>1 DEF SweepList
<1>2. CASE SweepJudge(s)   BY <1>2 DEF SweepJudge, SweepSkip, SweepReclaim
<1>3. CASE SweepEnd(s) \/ SweepStop(s) \/ SweepRemove(s)
  BY <1>3 DEF SweepEnd, SweepStop, SweepRemove
<1>4. CASE SweepVolume(s)  BY <1>4 DEF SweepVolume, DropActivity, JoinGate
<1>5. CASE SweepGuard(s)   BY <1>5 DEF SweepGuard, DropActivity
<1>6. CASE SweepDiscard(s) BY <1>6 DEF SweepDiscard, DropActivity
<1> QED BY <1>1, <1>2, <1>3, <1>4, <1>5, <1>6 DEF Sweep

LEMMA GateStep ==
  ASSUME QueueOK, GateInv, [Next]_vars
  PROVE  QueueOK' /\ GateInv'
<1>1. ASSUME NEW c \in Callers, Begin(c) \/ BeginReset(c) \/ Provision(c)
      PROVE  QueueOK' /\ GateInv'
  <2>1. PICK l \in CallerPC : Moves(c, l)  BY <1>1, CallerGate
  <2>2. c \in Agents /\ c \notin Sweeps  BY FleetAssumption DEF FleetAssumption, Agents
  <2> QED BY <2>1, <2>2, GateMove
<1>2. ASSUME NEW s \in Sweeps, SweepList(s) \/ Sweep(s) PROVE QueueOK' /\ GateInv'
  <2>1. PICK l \in SweepPC : Moves(s, l)  BY <1>2, SweepGate
  <2>2. s \in Agents /\ s \notin Callers  BY FleetAssumption DEF FleetAssumption, Agents
  <2> QED BY <2>1, <2>2, GateMove
<1>3. CASE Crash
  <2>1. gate' = <<>> /\ \A a \in Agents : pc'[a] = "idle"  BY <1>3 DEF Crash
  <2>2. pc' \in [Agents -> CallerPC \cup SweepPC]  BY <1>3 DEF Crash, SweepPC
  <2> QED BY <2>1, <2>2 DEF QueueOK, GateInv, Inside, InGateCaller, Seeding, CallerPC, SweepPC, Agents
<1>4. CASE UNCHANGED <<gate, pc>>
  BY <1>4 DEF QueueOK, GateInv, HoldsGate
<1>5. Next => \/ UNCHANGED <<gate, pc>> \/ Crash
              \/ \E c \in Callers : Begin(c) \/ BeginReset(c) \/ Provision(c)
              \/ \E s \in Sweeps : SweepList(s) \/ Sweep(s)
  BY DEF Next, Serve, BootGc, BootVolumes, RebuildImage, Attach, Detach, Age, OutOfBand, StrayCopyEnds
<1> QED BY <1>1, <1>2, <1>3, <1>4, <1>5 DEF vars

\* While the gateway boots nobody is at work.
BootInv == boot # "up" => \A a \in Agents : pc[a] = "idle"

LEMMA BootStep ==
  ASSUME BootInv, [Next]_vars
  PROVE  BootInv'
<1>1. CASE Serve  BY <1>1 DEF Serve, BootInv
<1>2. CASE Crash  BY <1>2 DEF Crash, BootInv
<1>3. CASE RebuildImage \/ BootGc \/ BootVolumes \/ UNCHANGED vars
  BY <1>3 DEF RebuildImage, BootGc, BootVolumes, vars, BootInv
<1>4. ASSUME NEW n \in Names, Attach(n) \/ Detach(n) \/ Age(n) \/ OutOfBand(n) PROVE BootInv'
  BY <1>4 DEF Attach, Detach, Age, OutOfBand, BootInv
<1>5. ASSUME NEW c \in Callers, StrayCopyEnds(c) PROVE BootInv'
  BY <1>5 DEF StrayCopyEnds, BootInv
<1> QED BY <1>1, <1>2, <1>3, <1>4, <1>5 DEF Next

\* Types and the gate, together: the invariant every theorem here rests on.
BaseInv == StatesOK /\ FlagsOK /\ QueueOK /\ CountsOK /\ GateInv /\ BootInv

LEMMA BaseInit == Init => BaseInv
<1> SUFFICES ASSUME Init PROVE BaseInv
  OBVIOUS
<1>1. StatesOK
  <2>1. Parked \in Names  BY FleetAssumption DEF FleetAssumption, Parked
  <2> QED BY <2>1 DEF Init, StatesOK
<1>2. FlagsOK  BY DEF Init, FlagsOK
<1>3. CountsOK  BY DEF Init, CountsOK
<1>4. gate \in Seq(Agents) /\ pc \in [Agents -> CallerPC \cup SweepPC]
  BY DEF Init, SweepPC
<1>5. QueueOK /\ GateInv
  BY <1>4 DEF Init, QueueOK, GateInv, Inside, InGateCaller, Seeding, CallerPC, SweepPC, Agents
<1>6. BootInv  BY DEF Init, BootInv
<1> QED BY <1>1, <1>2, <1>3, <1>5, <1>6 DEF BaseInv

LEMMA BaseStep ==
  ASSUME BaseInv, [Next]_vars
  PROVE  BaseInv'
BY StatesStep, FlagsStep, CountsStep, GateStep, BootStep DEF BaseInv

LEMMA BaseInvariant == Spec => []BaseInv
BY BaseInit, BaseStep, PTL DEF Spec

(* Every variable keeps its type; in particular no agent ever settles a    *)
(* turn of the create gate that is not there.                              *)
THEOREM TypeCorrect == Spec => []TypeOK
<1>1. BaseInv => TypeOK
  BY DEF BaseInv, TypeOK
<1> QED BY <1>1, BaseInvariant, PTL

-----------------------------------------------------------------------------
(* Declared provisions.                                                    *)

\* Where a caller has no provision under way.
Off == {"idle", "resetStop", "resetRemove"}

\* What a caller's step may do to the counts: declare its provision as it
\* begins, take its own back as it ends, or touch neither.
Declares(c) ==
  /\ pc[c] \in Off /\ pc'[c] \notin Off
  /\ provisioning' = [provisioning EXCEPT ![NameOf[c]] = @ + 1]
Ends(c) ==
  /\ pc[c] \notin Off /\ pc'[c] \in Off
  /\ ClearProvisioning(NameOf[c])
Keeps(c) ==
  /\ pc[c] \in Off <=> pc'[c] \in Off
  /\ UNCHANGED provisioning

LEMMA CallerDeclares ==
  ASSUME QueueOK, NEW c \in Callers, Begin(c) \/ BeginReset(c) \/ Provision(c)
  PROVE  Declares(c) \/ Ends(c) \/ Keeps(c)
<1>0. c \in Agents /\ pc \in [Agents -> CallerPC \cup SweepPC]
  BY DEF Agents, QueueOK
<1> USE <1>0 DEF Keeps, Off, Goto, caller
<1>1. CASE Begin(c)  BY <1>1 DEF Begin, Declares
<1>2. CASE BeginReset(c) \/ ResetStop(c) \/ ResetRemove(c)
  BY <1>2 DEF BeginReset, ResetStop, ResetRemove
<1>3. CASE Inspect(c) \/ EnterRotate(c)  BY <1>3 DEF Inspect, EnterRotate, JoinGate
<1>4. CASE RotateStop(c) \/ RotateRemove(c) \/ RecreateStop(c) \/ RecreateRemove(c)
  BY <1>4 DEF RotateStop, RotateRemove, RecreateStop, RecreateRemove
<1>5. CASE SeedVolume(c) \/ SeedStart(c) \/ SeedWait(c)
  BY <1>5 DEF SeedVolume, SeedStart, SeedWait
<1> USE DEF Ends, Continue, Finish
<1>6. CASE CheckCap(c)  BY <1>6 DEF CheckCap
<1>7. CASE EnsureVolume(c)  BY <1>7 DEF EnsureVolume
<1>8. CASE CreateContainer(c)  BY <1>8 DEF CreateContainer
<1>9. CASE StartCreated(c) \/ StartExisting(c)  BY <1>9 DEF StartCreated, StartExisting
<1>10. CASE ResolveIp(c) \/ WaitHealthy(c)  BY <1>10 DEF ResolveIp, WaitHealthy, Unhealthy
<1> QED BY <1>1, <1>2, <1>3, <1>4, <1>5, <1>6, <1>7, <1>8, <1>9, <1>10 DEF Provision

LEMMA ProvisioningFinite ==
  \A n : IsFiniteSet(Provisioning(n)) /\ Cardinality(Provisioning(n)) \in Nat
<1> TAKE n
<1>1. Provisioning(n) \subseteq Callers  BY DEF Provisioning
<1> QED BY <1>1, FS_Subset, FS_CardinalityType, FleetAssumption DEF FleetAssumption

LEMMA DeclaredStep ==
  ASSUME BaseInv, ProvisionsDeclared, [Next]_vars
  PROVE  ProvisionsDeclared'
<1> USE DEF BaseInv, ProvisionsDeclared
<1>0. \A c \in Callers : NameOf[c] \in Names /\ c \in Agents /\ c \notin Sweeps
  BY FleetAssumption DEF FleetAssumption, Agents
<1>1. ASSUME NEW c \in Callers, Begin(c) \/ BeginReset(c) \/ Provision(c)
      PROVE  ProvisionsDeclared'
  <2>1. PICK l \in CallerPC : Moves(c, l)  BY <1>1, CallerGate
  <2>2. \A d \in Callers : d # c => pc'[d] = pc[d]
    BY <1>0, <2>1 DEF Moves, QueueOK
  <2>3. \A n \in Names : n # NameOf[c] => Provisioning(n)' = Provisioning(n)
    BY <2>2 DEF Provisioning
  <2>4. provisioning \in [Names -> Nat]  BY DEF CountsOK
  <2>5. CASE Declares(c)
    <3>1. /\ c \notin Provisioning(NameOf[c])
          /\ Provisioning(NameOf[c])' = Provisioning(NameOf[c]) \cup {c}
      BY <2>2, <2>5 DEF Declares, Provisioning, Off
    <3>2. Cardinality(Provisioning(NameOf[c])') = Cardinality(Provisioning(NameOf[c])) + 1
      BY <3>1, ProvisioningFinite, FS_AddElement
    <3> QED BY <1>0, <2>3, <2>4, <2>5, <3>2 DEF Declares
  <2>6. CASE Ends(c)
    <3>1. /\ c \in Provisioning(NameOf[c])
          /\ Provisioning(NameOf[c])' = Provisioning(NameOf[c]) \ {c}
      BY <2>2, <2>6 DEF Ends, Provisioning, Off
    <3>2. Cardinality(Provisioning(NameOf[c])') = Cardinality(Provisioning(NameOf[c])) - 1
      BY <3>1, ProvisioningFinite, FS_RemoveElement
    <3>3. Cardinality(Provisioning(NameOf[c])) > 0
      BY <3>1, ProvisioningFinite, FS_EmptySet
    <3>4. provisioning' = [provisioning EXCEPT ![NameOf[c]] = @ - 1]
      BY <1>0, <2>4, <2>6, <3>3, ProvisioningFinite DEF Ends, ClearProvisioning
    <3> QED BY <1>0, <2>3, <2>4, <3>2, <3>4
  <2>7. CASE Keeps(c)
    <3>1. Provisioning(NameOf[c])' = Provisioning(NameOf[c])
      BY <2>2, <2>7 DEF Keeps, Provisioning, Off
    <3> QED BY <1>0, <2>3, <2>7, <3>1 DEF Keeps
  <2> QED BY <1>1, <2>5, <2>6, <2>7, CallerDeclares
<1>2. CASE UNCHANGED provisioning /\ \A c \in Callers : pc'[c] = pc[c]
  <2>1. \A n \in Names : Provisioning(n)' = Provisioning(n)
    BY <1>2 DEF Provisioning
  <2> QED BY <1>2, <2>1
<1>3. ASSUME NEW s \in Sweeps, SweepList(s) \/ Sweep(s) PROVE ProvisionsDeclared'
  <2>1. PICK l \in SweepPC : Moves(s, l)  BY <1>3, SweepGate
  <2>2. \A c \in Callers : pc'[c] = pc[c]
    BY <1>0, <2>1 DEF Moves, QueueOK
  <2>3. UNCHANGED provisioning
    BY <1>3 DEF Sweep, SweepList, SweepJudge, SweepEnd, SweepStop, SweepRemove, SweepVolume,
         SweepGuard, SweepDiscard, caller
  <2> QED BY <1>2, <2>2, <2>3
<1>4. CASE Crash
  <2>1. \A n \in Names : Provisioning(n)' = {}
    BY <1>0, <1>4 DEF Crash, Provisioning
  <2> QED BY <1>4, <2>1, FS_EmptySet DEF Crash
<1>5. CASE BootGc \/ BootVolumes \/ RebuildImage \/ UNCHANGED vars
  BY <1>2, <1>5 DEF BootGc, BootVolumes, RebuildImage, vars, caller
<1>6. ASSUME NEW n \in Names, Attach(n) \/ Detach(n) \/ Age(n) \/ OutOfBand(n)
      PROVE  ProvisionsDeclared'
  BY <1>2, <1>6 DEF Attach, Detach, Age, OutOfBand, caller
<1>7. ASSUME NEW c \in Callers, StrayCopyEnds(c) PROVE ProvisionsDeclared'
  BY <1>2, <1>7 DEF StrayCopyEnds, caller
<1> QED BY <1>1, <1>3, <1>4, <1>5, <1>6, <1>7 DEF Next, Serve

(* However many provisions of one Name overlap, fail or retry, the count   *)
(* the reaper asks is the number of those under way: no provision is ever  *)
(* left unshielded by the end of another, nor shields after its own end.   *)
THEOREM Declared == Spec => []ProvisionsDeclared
<1>1. Init => ProvisionsDeclared
  <2> SUFFICES ASSUME Init PROVE ProvisionsDeclared
    OBVIOUS
  <2>1. \A n \in Names : Provisioning(n) = {}
    BY DEF Init, Provisioning, Agents
  <2> QED BY <2>1, FS_EmptySet DEF Init, ProvisionsDeclared
<1>2. BaseInv /\ ProvisionsDeclared /\ [Next]_vars => ProvisionsDeclared'
  BY DeclaredStep
<1> QED BY <1>1, <1>2, BaseInvariant, PTL DEF Spec

-----------------------------------------------------------------------------
(* Profiles.                                                               *)

\* Only a disposable Name's profile is ever queued for removal.
TargetInv == \A s \in Sweeps : pc[s] \in {"wantVolume", "discard"} => target[s] \in Instances

\* Containers and seed copies have a volume.  A provision seeds a volume it has
\* just made, before there is a container, and has the Name's only seed copy.
\* What a running copy writes into is not anybody's profile, or no longer.
SeedInv ==
  /\ \A n \in Present : volume[n] # "absent"
  /\ \A c \in Helpers : volume[NameOf[c]] # "absent"
  /\ \A c \in Callers : pc[c] \in Seeding =>
       /\ volume[NameOf[c]] = "made" /\ NameOf[c] \notin Present
       /\ \A d \in Helpers : NameOf[d] = NameOf[c] => d = c /\ pc[c] # "seed"
  /\ \A c \in Callers :
       /\ helper[c] = "running" => volume[NameOf[c]] \in {"made", "overwritten"}
       /\ pc[c] = "seedStart" => helper[c] # "running"

\* The agent inside the gate is the only one.
LEMMA Alone ==
  ASSUME GateInv, NEW a \in Agents, NEW b \in Agents, pc[a] \in Inside, pc[b] \in Inside
  PROVE  a = b
BY DEF GateInv, HoldsGate

\* The steps that write a profile, make a container or run a seed copy.
Fills(c) == SeedVolume(c) \/ SeedStart(c) \/ SeedWait(c)
VolumeStep ==
  \/ \E c \in Callers : EnsureVolume(c) \/ Fills(c) \/ CreateContainer(c)
                         \/ StartCreated(c) \/ StartExisting(c) \/ StrayCopyEnds(c)
  \/ \E s \in Sweeps : SweepDiscard(s)
  \/ BootVolumes

\* All others leave the profiles alone and at most take containers away.
Quiet ==
  /\ UNCHANGED volume
  /\ Present' \subseteq Present
  /\ \A c \in Callers :
       /\ pc'[c] \in Seeding \cup {"create"} => pc[c] = pc'[c]
       /\ helper'[c] = helper[c] \/ (helper[c] = "created" /\ helper'[c] = "none" /\ pc'[c] = "idle")

LEMMA QuietOrNot ==
  ASSUME BaseInv, [Next]_vars
  PROVE  Quiet \/ VolumeStep
<1> USE DEF BaseInv, StatesOK, QueueOK, docker, caller, registry, sweep, budget, Goto, Quiet, Present,
      Seeding, Agents
<1>1. ASSUME NEW c \in Callers, Begin(c) \/ BeginReset(c) \/ Provision(c) PROVE Quiet \/ VolumeStep
  <2>1. CASE Begin(c) \/ BeginReset(c)  BY <2>1 DEF Begin, BeginReset
  <2>2. CASE Inspect(c) \/ EnterRotate(c)  BY <2>2 DEF Inspect, EnterRotate, JoinGate
  <2>3. CASE RotateStop(c) \/ RecreateStop(c) \/ ResetStop(c)
    BY <2>3 DEF RotateStop, RecreateStop, ResetStop, StopContainer
  <2>4. CASE RotateRemove(c) \/ RecreateRemove(c) \/ ResetRemove(c)
    BY <2>4 DEF RotateRemove, RecreateRemove, ResetRemove, RemoveContainer
  <2>5. CASE CheckCap(c)  BY <2>5 DEF CheckCap, Continue, Finish
  <2>6. CASE ResolveIp(c) \/ WaitHealthy(c)
    BY <2>6 DEF ResolveIp, WaitHealthy, Unhealthy, Continue, Finish
  <2> QED BY <1>1, <2>1, <2>2, <2>3, <2>4, <2>5, <2>6 DEF Provision, VolumeStep, Fills
<1>2. ASSUME NEW s \in Sweeps, SweepList(s) \/ Sweep(s) PROVE Quiet \/ VolumeStep
  <2>0. s \notin Callers  BY FleetAssumption DEF FleetAssumption
  <2>1. CASE SweepList(s) \/ SweepJudge(s) \/ SweepEnd(s)
    BY <2>0, <2>1 DEF SweepList, SweepJudge, SweepSkip, SweepReclaim, SweepEnd
  <2>2. CASE SweepStop(s) \/ SweepRemove(s)
    BY <2>0, <2>2 DEF SweepStop, SweepRemove, StopContainer, RemoveContainer
  <2>3. CASE SweepVolume(s) \/ SweepGuard(s)
    BY <2>0, <2>3 DEF SweepVolume, SweepGuard, DropActivity, JoinGate
  <2> QED BY <1>2, <2>1, <2>2, <2>3 DEF Sweep, VolumeStep
<1>3. CASE BootGc
  <2>1. \A c \in Callers : pc[c] = "idle" /\ pc'[c] = "idle"  BY <1>3 DEF BootGc, BootInv
  <2>2. \A c \in Callers : helper'[c] = helper[c] \/ (helper[c] = "created" /\ helper'[c] = "none")
    BY <1>3, BootCollects
  <2>3. \A n \in Names : container'[n] # "absent" => container[n] # "absent"
    BY <1>3, BootCollects
  <2>4. UNCHANGED volume  BY <1>3 DEF BootGc
  <2> QED BY <2>1, <2>2, <2>3, <2>4
<1>4. CASE Crash  BY <1>4 DEF Crash
<1>5. CASE RebuildImage \/ UNCHANGED vars  BY <1>5 DEF RebuildImage, vars
<1>6. ASSUME NEW n \in Names, Attach(n) \/ Detach(n) \/ Age(n) \/ OutOfBand(n) PROVE Quiet
  BY <1>6 DEF Attach, Detach, Age, OutOfBand
<1> QED BY <1>1, <1>2, <1>3, <1>4, <1>5, <1>6 DEF Next, Serve, VolumeStep

LEMMA TargetStep ==
  ASSUME BaseInv, TargetInv, [Next]_vars
  PROVE  TargetInv'
<1> USE DEF BaseInv, QueueOK, StatesOK, TargetInv, docker, caller, registry, sweep, budget, Goto, Agents
<1>1. ASSUME NEW c \in Callers, Begin(c) \/ BeginReset(c) \/ Provision(c) PROVE TargetInv'
  <2>1. PICK l \in CallerPC : Moves(c, l)  BY <1>1, CallerGate
  <2>2. c \notin Sweeps  BY FleetAssumption DEF FleetAssumption
  <2>3. \A s \in Sweeps : pc'[s] = pc[s]  BY <2>1, <2>2 DEF Moves
  <2>4. UNCHANGED target
    BY <1>1 DEF Provision, Begin, BeginReset, Inspect, EnterRotate, RotateStop, RotateRemove,
         CheckCap, EnsureVolume, SeedVolume, SeedStart, SeedWait, CreateContainer, StartCreated,
         StartExisting, ResolveIp, WaitHealthy, RecreateStop, RecreateRemove, ResetStop, ResetRemove
  <2> QED BY <2>3, <2>4
<1>2. ASSUME NEW s \in Sweeps, SweepList(s) \/ Sweep(s) PROVE TargetInv'
  <2>1. CASE SweepList(s) \/ SweepJudge(s)
    BY <2>1 DEF SweepList, SweepJudge, SweepSkip, SweepReclaim
  <2>2. CASE SweepEnd(s) \/ SweepStop(s) \/ SweepRemove(s)
    BY <2>2 DEF SweepEnd, SweepStop, SweepRemove
  <2>3. CASE SweepVolume(s)
    BY <2>3 DEF SweepVolume, DropActivity, JoinGate
  <2>4. CASE SweepGuard(s) \/ SweepDiscard(s)
    BY <2>4 DEF SweepGuard, SweepDiscard, DropActivity
  <2> QED BY <1>2, <2>1, <2>2, <2>3, <2>4 DEF Sweep
<1>3. CASE Crash  BY <1>3 DEF Crash
<1>4. CASE BootGc \/ BootVolumes \/ RebuildImage \/ UNCHANGED vars
  BY <1>4 DEF BootGc, BootVolumes, RebuildImage, vars
<1>5. ASSUME NEW n \in Names, Attach(n) \/ Detach(n) \/ Age(n) \/ OutOfBand(n) PROVE TargetInv'
  BY <1>5 DEF Attach, Detach, Age, OutOfBand
<1>6. ASSUME NEW c \in Callers, StrayCopyEnds(c) PROVE TargetInv'
  BY <1>6 DEF StrayCopyEnds
<1> QED BY <1>1, <1>2, <1>3, <1>4, <1>5, <1>6 DEF Next, Serve

\* A volume is settled only if it was made and nothing was in it.
LEMMA SettledVolume ==
  ASSUME StatesOK, NEW n \in Names, volume' = Settled(n)
  PROVE  \A m \in Names : volume'[m] = IF m = n /\ volume[m] = "made" THEN "fresh" ELSE volume[m]
BY DEF StatesOK, Settled

\* The end of a copy settles its volume, or nothing while another one runs.
LEMMA CopyEnded ==
  ASSUME StatesOK, NEW c \in Callers, CopyEnds(c)
  PROVE  /\ \A d \in Callers : helper'[d] = IF d = c THEN "none" ELSE helper[d]
         /\ \A m \in Names : \/ volume'[m] = volume[m]
                             \/ /\ m = NameOf[c] /\ volume[m] = "made" /\ volume'[m] = "fresh"
                                /\ \A d \in Callers : helper'[d] = "running" => NameOf[d] # m
<1>0. NameOf[c] \in Names  BY FleetAssumption DEF FleetAssumption
<1>1. \A d \in Callers : helper'[d] = IF d = c THEN "none" ELSE helper[d]
  BY DEF CopyEnds, StatesOK
<1>2. CASE \E d \in Callers \ {c} : Copying(d, NameOf[c])
  BY <1>1, <1>2 DEF CopyEnds
<1>3. CASE ~\E d \in Callers \ {c} : Copying(d, NameOf[c])
  <2>1. volume' = Settled(NameOf[c])  BY <1>3 DEF CopyEnds
  <2>2. \A d \in Callers : helper'[d] = "running" => NameOf[d] # NameOf[c]
    BY <1>1, <1>3 DEF Copying
  <2> QED BY <1>0, <1>1, <2>1, <2>2, SettledVolume
<1> QED BY <1>2, <1>3

\* Chrome's start writes the profile of the one container it starts.
LEMMA ChromeWrites ==
  ASSUME StatesOK, NEW n \in Names, Started(n) \/ StartFails(n)
  PROVE  /\ Present' = Present
         /\ \A m \in Names : m # n => volume'[m] = volume[m]
         /\ \/ volume'[n] = volume[n]
            \/ /\ n \in Present /\ volume'[n] = "used" /\ volume[n] # "overwritten"
               /\ \A c \in Callers : ~Copying(c, n)
            \/ /\ n \in Present /\ volume'[n] = "overwritten"
               /\ \E c \in Callers : Copying(c, n)
BY DEF StatesOK, Started, StartFails, Present

LEMMA SeedStep ==
  ASSUME "inspectVolume" \notin Faults, BaseInv, SeedInv, [Next]_vars
  PROVE  SeedInv'
<1> USE DEF BaseInv, StatesOK, QueueOK, Present, Helpers
<1>0. \A c \in Callers : NameOf[c] \in Names /\ c \in Agents
  BY FleetAssumption DEF FleetAssumption, Agents
<1>1. CASE Quiet
  <2>1. \A c \in Callers : helper'[c] # "none" => helper'[c] = helper[c]  BY <1>1 DEF Quiet
  <2>2. \A c \in Callers : pc'[c] \in Seeding => pc'[c] = pc[c]  BY <1>1 DEF Quiet
  <2>3. UNCHANGED volume /\ Present' \subseteq Present  BY <1>1 DEF Quiet
  <2>4. \A c \in Callers : pc'[c] = "seedStart" => pc[c] = "seedStart"
    BY <2>2 DEF Seeding
  <2> QED BY <1>0, <2>1, <2>2, <2>3, <2>4 DEF SeedInv
<1>2. ASSUME NEW c \in Callers, pc[c] \in Inside,
             EnsureVolume(c) \/ Fills(c) \/ CreateContainer(c) \/ StartCreated(c)
      PROVE  SeedInv'
  <2>1. \A d \in Callers : d # c => pc[d] \notin Seeding
    BY <1>0, <1>2, Alone DEF Inside, InGateCaller
  <2>2. CASE EnsureVolume(c)
    <3>1. UNCHANGED <<container, helper>> /\ pc' = [pc EXCEPT ![c] = pc'[c]]
      BY <1>0, <2>2 DEF EnsureVolume, Continue, Finish, Goto
    <3>2. CASE UNCHANGED volume /\ pc'[c] \notin Seeding
      BY <1>0, <2>1, <3>1, <3>2 DEF SeedInv, Seeding
    <3>3. CASE /\ volume[NameOf[c]] = "absent" /\ pc'[c] = "seed"
               /\ volume' = [volume EXCEPT ![NameOf[c]] = "made"]
      <4>1. NameOf[c] \notin Present /\ \A d \in Helpers : NameOf[d] # NameOf[c]
        BY <1>0, <3>3 DEF SeedInv
      <4> QED BY <1>0, <2>1, <3>1, <3>3, <4>1 DEF SeedInv, Seeding
    <3> QED BY <1>0, <2>2, <3>2, <3>3 DEF EnsureVolume, Fault, Continue, Finish, Goto, Seeding
  <2>3. CASE SeedVolume(c)
    <3>1. pc[c] = "seed" /\ UNCHANGED container /\ pc' = [pc EXCEPT ![c] = pc'[c]]
      BY <1>0, <2>3 DEF SeedVolume, Goto
    <3>2. \A d \in Helpers : NameOf[d] # NameOf[c]
      BY <3>1 DEF SeedInv, Seeding
    <3>3. CASE volume' = Settled(NameOf[c]) /\ pc'[c] = "create" /\ UNCHANGED helper
      <4>1. \A m \in Names : m # NameOf[c] => volume'[m] = volume[m]
        BY <1>0, <3>3, SettledVolume
      <4>2. volume'[NameOf[c]] # "absent"
        BY <1>0, <3>1, <3>3, SettledVolume DEF SeedInv, Seeding
      <4> QED BY <1>0, <2>1, <3>1, <3>2, <3>3, <4>1, <4>2 DEF SeedInv, Seeding
    <3>4. CASE helper' = [helper EXCEPT ![c] = "created"] /\ pc'[c] = "seedStart" /\ UNCHANGED volume
      BY <1>0, <2>1, <3>1, <3>2, <3>4 DEF SeedInv, Seeding
    <3> QED BY <1>0, <2>3, <3>3, <3>4 DEF SeedVolume, Goto
  <2>4. CASE SeedStart(c)
    <3>1. pc[c] = "seedStart" /\ UNCHANGED container /\ pc' = [pc EXCEPT ![c] = pc'[c]]
      BY <1>0, <2>4 DEF SeedStart, Goto
    <3>2. /\ volume[NameOf[c]] = "made"
          /\ \A d \in Helpers : NameOf[d] = NameOf[c] => d = c
      BY <3>1 DEF SeedInv, Seeding
    <3>3. CASE /\ helper' = [helper EXCEPT ![c] = "running"] /\ pc'[c] = "seedWait"
               /\ UNCHANGED volume
      BY <1>0, <2>1, <3>1, <3>2, <3>3 DEF SeedInv, Seeding
    <3>4. CASE volume' = Settled(NameOf[c]) /\ pc'[c] = "create" /\ UNCHANGED helper
      <4>1. \A m \in Names : m # NameOf[c] => volume'[m] = volume[m]
        BY <1>0, <3>4, SettledVolume
      <4>2. volume'[NameOf[c]] # "absent"
        BY <1>0, <3>2, <3>4, SettledVolume
      <4>3. \A d \in Callers : helper[d] = "running" => NameOf[d] # NameOf[c]
        BY <1>0, <3>1, <3>2 DEF SeedInv
      <4> QED BY <1>0, <2>1, <3>1, <3>4, <4>1, <4>2, <4>3 DEF SeedInv, Seeding
    <3> QED BY <1>0, <2>4, <3>2, <3>3, <3>4 DEF SeedStart, Goto
  <2>5. CASE SeedWait(c)
    <3>1. pc'[c] = "create" /\ UNCHANGED container /\ pc' = [pc EXCEPT ![c] = pc'[c]]
      BY <1>0, <2>5 DEF SeedWait, Goto
    <3>2. \A d \in Callers : pc'[d] \notin Seeding  BY <1>0, <2>1, <3>1 DEF Seeding
    <3>3. CASE UNCHANGED <<volume, helper>>
      BY <1>0, <3>1, <3>2, <3>3 DEF SeedInv, Seeding
    <3>4. CASE CopyEnds(c)
      BY <1>0, <3>1, <3>2, <3>4, CopyEnded DEF SeedInv, Seeding
    <3> QED BY <2>5, <3>3, <3>4 DEF SeedWait
  <2>6. CASE CreateContainer(c)
    <3>1. \A d \in Callers : pc'[d] \notin Seeding
      BY <1>0, <2>1, <2>6 DEF CreateContainer, Goto, Continue, Finish, Seeding
    <3>2. \A n \in Names : volume'[n] = IF n \in Present' /\ volume[n] = "absent" /\ volume'[n] # "absent"
                                        THEN "made" ELSE volume[n]
      BY <1>0, <2>6 DEF CreateContainer
    <3>3. \A n \in Present' : volume'[n] # "absent"
      BY <1>0, <2>6 DEF CreateContainer, SeedInv
    <3>4. UNCHANGED helper  BY <2>6 DEF CreateContainer
    <3> QED BY <1>0, <3>1, <3>2, <3>3, <3>4 DEF SeedInv, Seeding
  <2>7. CASE StartCreated(c)
    <3>1. \A d \in Callers : pc'[d] \notin Seeding
      BY <1>0, <2>1, <2>7 DEF StartCreated, Goto, Continue, Finish, Seeding
    <3>2. Started(NameOf[c]) \/ StartFails(NameOf[c])  BY <2>7 DEF StartCreated
    <3>3. UNCHANGED helper  BY <2>7 DEF StartCreated
    <3> QED BY <1>0, <3>1, <3>2, <3>3, ChromeWrites DEF SeedInv, Seeding, Copying
  <2> QED BY <1>2, <2>2, <2>3, <2>4, <2>5, <2>6, <2>7 DEF Fills
<1>3. ASSUME NEW c \in Callers, StartExisting(c) PROVE SeedInv'
  <2>1. \A d \in Callers : pc'[d] \in Seeding => pc[d] = pc'[d]
    BY <1>0, <1>3 DEF StartExisting, Goto, Continue, Finish, Seeding
  <2>2. Started(NameOf[c]) \/ StartFails(NameOf[c])  BY <1>3 DEF StartExisting
  <2>3. UNCHANGED helper  BY <1>3 DEF StartExisting
  <2>4. \A d \in Callers : pc[d] \in Seeding => volume'[NameOf[d]] = volume[NameOf[d]]
    BY <1>0, <2>2, ChromeWrites DEF SeedInv
  <2>5. \A n \in Present' : volume'[n] # "absent"
    BY <1>0, <2>2, ChromeWrites DEF SeedInv
  <2>6. \A d \in Callers : helper[d] = "running" => volume'[NameOf[d]] \in {"made", "overwritten"}
    BY <1>0, <2>2, ChromeWrites DEF SeedInv, Copying
  <2>7. \A d \in Helpers : volume'[NameOf[d]] # "absent"
    BY <1>0, <2>2, ChromeWrites DEF SeedInv
  <2>8. Present' = Present  BY <1>0, <2>2, ChromeWrites
  <2> QED BY <1>0, <2>1, <2>3, <2>4, <2>5, <2>6, <2>7, <2>8 DEF SeedInv, Seeding
<1>4. ASSUME NEW s \in Sweeps, SweepDiscard(s) PROVE SeedInv'
  <2>1. s \in Agents /\ pc[s] = "discard" /\ s \notin Callers
    BY <1>4, FleetAssumption DEF SweepDiscard, Agents, FleetAssumption
  <2>2. \A d \in Callers : pc[d] \notin Seeding /\ pc'[d] = pc[d]
    BY <1>0, <1>4, <2>1, Alone DEF Inside, InGateCaller, SweepDiscard, DropActivity, Goto
  <2>3. UNCHANGED <<container, helper>>  BY <1>4 DEF SweepDiscard
  <2>4. \A n \in Names : volume'[n] = volume[n] \/ ~InUse(n)
    BY <1>4 DEF SweepDiscard, RemoveVolume
  <2> QED BY <1>0, <2>2, <2>3, <2>4 DEF SeedInv, Seeding, InUse
<1>5. CASE BootVolumes
  <2>1. \A c \in Callers : pc'[c] = "idle"
    BY <1>0, <1>5 DEF BootVolumes, BootInv
  <2>2. UNCHANGED <<container, helper>>  BY <1>5 DEF BootVolumes
  <2>3. \A n \in Names : volume'[n] = volume[n] \/ ~InUse(n)
    BY <1>5 DEF BootVolumes, OrphanVolumes
  <2> QED BY <1>0, <2>1, <2>2, <2>3 DEF SeedInv, Seeding, InUse
<1>6. ASSUME NEW c \in Callers, StrayCopyEnds(c) PROVE SeedInv'
  <2>1. CopyEnds(c) /\ pc[c] # "seedWait" /\ UNCHANGED <<container, pc>>
    BY <1>6 DEF StrayCopyEnds
  <2>2. \A d \in Callers : pc[d] \in Seeding => NameOf[d] # NameOf[c]
    BY <2>1 DEF SeedInv, CopyEnds, Seeding
  <2> QED BY <1>0, <2>1, <2>2, CopyEnded DEF SeedInv, Seeding
<1>7. \A c \in Callers : EnsureVolume(c) \/ Fills(c) \/ CreateContainer(c) \/ StartCreated(c)
                          => pc[c] \in Inside
  BY DEF EnsureVolume, Fills, SeedVolume, SeedStart, SeedWait, CreateContainer, StartCreated,
       Inside, InGateCaller, Seeding
<1> QED BY <1>1, <1>2, <1>3, <1>4, <1>5, <1>6, <1>7, QuietOrNot DEF VolumeStep

\* One step of ProfilePreserved.
Preserved ==
  \A n \in Names :
    /\ volume[n] \in {"used", "overwritten"} /\ volume'[n] # volume[n] =>
         n \in Instances /\ n \notin Present /\ volume'[n] = "absent"
    /\ volume'[n] = "overwritten" /\ volume[n] # "overwritten" => Abandoned(n)

LEMMA PreservedStep ==
  ASSUME "inspectVolume" \notin Faults, BaseInv, TargetInv, SeedInv, [Next]_vars
  PROVE  Preserved
<1> USE DEF BaseInv, StatesOK, Preserved
<1>0. \A c \in Callers : NameOf[c] \in Names
  BY FleetAssumption DEF FleetAssumption
<1>1. CASE Quiet  BY <1>1 DEF Quiet
<1>2. ASSUME NEW c \in Callers, EnsureVolume(c) \/ SeedVolume(c) \/ CreateContainer(c)
      PROVE  Preserved
  BY <1>0, <1>2 DEF EnsureVolume, SeedVolume, Settled, CreateContainer, Fault
<1>3. ASSUME NEW c \in Callers, SeedStart(c) PROVE Preserved
  <2>1. volume[NameOf[c]] = "made"  BY <1>3 DEF SeedStart, SeedInv, Seeding
  <2> QED BY <1>0, <1>3, <2>1 DEF SeedStart, Settled
<1>4. ASSUME NEW c \in Callers, SeedWait(c) \/ StrayCopyEnds(c) PROVE Preserved
  <2>1. CASE UNCHANGED volume  BY <2>1
  <2>2. CASE CopyEnds(c)  BY <1>0, <2>2, CopyEnded
  <2> QED BY <1>4, <2>1, <2>2 DEF SeedWait, StrayCopyEnds
<1>5. ASSUME NEW c \in Callers, StartCreated(c) \/ StartExisting(c) PROVE Preserved
  <2>1. Started(NameOf[c]) \/ StartFails(NameOf[c])
    BY <1>5 DEF StartCreated, StartExisting
  <2>2. ASSUME NEW d \in Callers, Copying(d, NameOf[c]) PROVE volume[NameOf[c]] \in {"made", "overwritten"}
    BY <2>2 DEF SeedInv, Copying
  <2>3. ASSUME NEW d \in Callers, Copying(d, NameOf[c]), NameOf[c] \in Present
        PROVE  Abandoned(NameOf[c])
    BY <2>3 DEF SeedInv, Copying, Abandoned, Seeding
  <2>4. \A m \in Names : m # NameOf[c] => volume'[m] = volume[m]
    BY <1>0, <2>1, ChromeWrites
  <2>5. \/ volume'[NameOf[c]] = volume[NameOf[c]]
        \/ volume'[NameOf[c]] = "used" /\ volume[NameOf[c]] # "overwritten"
        \/ /\ NameOf[c] \in Present /\ volume'[NameOf[c]] = "overwritten"
           /\ \E d \in Callers : Copying(d, NameOf[c])
    BY <1>0, <2>1, ChromeWrites
  <2> QED BY <1>0, <2>2, <2>3, <2>4, <2>5
<1>6. ASSUME NEW s \in Sweeps, SweepDiscard(s) PROVE Preserved
  BY <1>6 DEF SweepDiscard, RemoveVolume, TargetInv, InUse, Present
<1>7. CASE BootVolumes  BY <1>7 DEF BootVolumes, OrphanVolumes, InUse, Present
<1> QED BY <1>1, <1>2, <1>3, <1>4, <1>5, <1>6, <1>7, QuietOrNot DEF VolumeStep, Fills

ProfileInv == BaseInv /\ TargetInv /\ SeedInv

LEMMA ProfileInvariant == "inspectVolume" \notin Faults => (Spec => []ProfileInv)
<1> SUFFICES ASSUME "inspectVolume" \notin Faults PROVE Spec => []ProfileInv
  OBVIOUS
<1>1. Init => ProfileInv
  <2> SUFFICES ASSUME Init PROVE TargetInv /\ SeedInv
    BY BaseInit DEF ProfileInv
  <2>1. Present = {} /\ Helpers = {}  BY DEF Init, Present, Helpers
  <2>2. \A c \in Callers : pc[c] = "idle" /\ helper[c] = "none"  BY DEF Init, Agents
  <2>3. \A s \in Sweeps : pc[s] = "idle"  BY DEF Init, Agents
  <2> QED BY <2>1, <2>2, <2>3 DEF TargetInv, SeedInv, Seeding
<1>2. ProfileInv /\ [Next]_vars => ProfileInv'
  BY BaseStep, TargetStep, SeedStep DEF ProfileInv
<1> QED BY <1>1, <1>2, PTL DEF Spec

(* As long as no volume inspect fails on a volume that exists, what a      *)
(* browser wrote is lost only with an idle disposable Name, through any    *)
(* number of crashes, image rebuilds and other Docker failures, and only a *)
(* seed copy that nobody waits for ever runs under a browser.              *)
THEOREM ProfilesKept == "inspectVolume" \notin Faults => (Spec => ProfilePreserved)
<1> SUFFICES ASSUME "inspectVolume" \notin Faults PROVE Spec => ProfilePreserved
  OBVIOUS
<1>1. ProfileInv /\ [Next]_vars => [Preserved]_vars
  BY PreservedStep DEF ProfileInv
<1>2. [Preserved]_vars <=> [\A n \in Names :
        /\ volume[n] \in {"used", "overwritten"} /\ volume'[n] # volume[n] =>
             n \in Instances /\ n \notin Present /\ volume'[n] = "absent"
        /\ volume'[n] = "overwritten" /\ volume[n] # "overwritten" => Abandoned(n)]_vars
  BY DEF Preserved
<1> QED BY <1>1, <1>2, ProfileInvariant, PTL DEF Spec, ProfilePreserved

-----------------------------------------------------------------------------
(* What a container mounts.                                                *)

\* A profile is seeded only while a provision seeds it and waits for its copy,
\* and is ready before the container that mounts it is made.
ReadyInv ==
  /\ MountedProfileReady
  /\ \A n \in Names : volume[n] # "overwritten"
  /\ \A n \in Names : volume[n] = "made" =>
       \E c \in Callers : NameOf[c] = n /\ pc[c] \in Seeding
  /\ \A c \in Callers :
       /\ pc[c] = "create" => volume[NameOf[c]] \in {"fresh", "used"}
       /\ helper[c] = "running" => pc[c] = "seedWait"

\* Without crashes a provision seeds its volume to the end.
LEMMA SeedStays ==
  ASSUME BaseInv, [Next]_vars, MaxRestarts = 0, NEW c \in Callers, pc[c] \in Seeding
  PROVE  pc'[c] = pc[c] \/ Fills(c)
<1> USE DEF BaseInv, QueueOK
<1>0. c \in Agents /\ c \notin Sweeps  BY FleetAssumption DEF FleetAssumption, Agents
<1>1. ASSUME NEW d \in Callers, Begin(d) \/ BeginReset(d) \/ Provision(d)
      PROVE  pc'[c] = pc[c] \/ Fills(c)
  <2>1. PICK l \in CallerPC : Moves(d, l)  BY <1>1, CallerGate
  <2>2. CASE d # c  BY <1>0, <2>1, <2>2 DEF Moves, Agents
  <2>3. CASE d = c
    BY <1>1, <2>3 DEF Provision, Begin, BeginReset, Inspect, EnterRotate, RotateStop,
         RotateRemove, CheckCap, EnsureVolume, CreateContainer, StartCreated, StartExisting,
         ResolveIp, WaitHealthy, RecreateStop, RecreateRemove, ResetStop, ResetRemove, Fills, Seeding
  <2> QED BY <2>2, <2>3
<1>2. ASSUME NEW s \in Sweeps, SweepList(s) \/ Sweep(s) PROVE pc'[c] = pc[c]
  <2>1. PICK l \in SweepPC : Moves(s, l)  BY <1>2, SweepGate
  <2> QED BY <1>0, <2>1 DEF Moves, Agents
<1>3. ~Crash  BY DEF Crash, CountsOK
<1>4. CASE BootGc \/ BootVolumes \/ RebuildImage \/ UNCHANGED vars
  BY <1>4 DEF BootGc, BootVolumes, RebuildImage, vars
<1>5. ASSUME NEW n \in Names, Attach(n) \/ Detach(n) \/ Age(n) \/ OutOfBand(n) PROVE pc'[c] = pc[c]
  BY <1>5 DEF Attach, Detach, Age, OutOfBand
<1>6. ASSUME NEW d \in Callers, StrayCopyEnds(d) PROVE pc'[c] = pc[c]
  BY <1>6 DEF StrayCopyEnds
<1> QED BY <1>1, <1>2, <1>3, <1>4, <1>5, <1>6 DEF Next, Serve

\* Whoever starts a ready browser finds no copy at work on its profile.
LEMMA ReadyStarts ==
  ASSUME StatesOK, SeedInv, ReadyInv, NEW n \in Names, Started(n) \/ StartFails(n)
  PROVE  /\ Present' = Present
         /\ \A m \in Names : volume'[m] = volume[m] \/ (m \in Present /\ volume'[m] = "used")
<1>1. ASSUME NEW c \in Callers, Copying(c, n) PROVE n \notin Present
  BY <1>1 DEF ReadyInv, SeedInv, Seeding, Copying
<1> QED BY <1>1, ChromeWrites

LEMMA ReadyStep ==
  ASSUME "inspectVolume" \notin Faults, "wait" \notin Faults, MaxRestarts = 0,
         ProfileInv, ReadyInv, [Next]_vars
  PROVE  ReadyInv'
<1> USE DEF ProfileInv, BaseInv, StatesOK, QueueOK
<1>0. \A c \in Callers : NameOf[c] \in Names /\ c \in Agents
  BY FleetAssumption DEF FleetAssumption, Agents
<1>1. CASE Quiet /\ ~\E c \in Callers : Fills(c)
  <2>1. \A c \in Callers : pc[c] \in Seeding => pc'[c] = pc[c]  BY <1>1, SeedStays
  <2>2. \A c \in Callers : helper'[c] = "running" => helper[c] = "running"  BY <1>1 DEF Quiet
  <2>3. \A c \in Callers : pc'[c] = "create" => pc[c] = "create"  BY <1>1 DEF Quiet
  <2>4. UNCHANGED volume /\ Present' \subseteq Present  BY <1>1 DEF Quiet
  <2> QED BY <1>0, <2>1, <2>2, <2>3, <2>4 DEF ReadyInv, MountedProfileReady, Seeding
<1>2. ASSUME NEW c \in Callers, pc[c] \in Inside,
             EnsureVolume(c) \/ Fills(c) \/ CreateContainer(c) \/ StartCreated(c)
      PROVE  ReadyInv'
  <2>1. \A d \in Callers : d # c => pc[d] \notin Seeding \cup {"create"} /\ helper[d] # "running"
    BY <1>0, <1>2, Alone DEF Inside, InGateCaller, ReadyInv, Seeding
  <2>2. \A d \in Callers : d # c => pc'[d] = pc[d]
    <3>1. pc' = [pc EXCEPT ![c] = pc'[c]]
      BY <1>0, <1>2 DEF EnsureVolume, Fills, SeedVolume, SeedStart, SeedWait, CreateContainer,
           StartCreated, Continue, Finish, Goto
    <3> QED BY <1>0, <3>1
  <2>3. \A n \in Names : n # NameOf[c] => volume[n] # "made"
    BY <2>1 DEF ReadyInv
  <2> SUFFICES
        /\ \A n \in Names : n # NameOf[c] => volume'[n] = volume[n]
        /\ volume'[NameOf[c]] # "overwritten"
        /\ NameOf[c] \in Present' => volume'[NameOf[c]] \in {"fresh", "used"}
        /\ \A n \in Present' : n \in Present \/ n = NameOf[c]
        /\ volume'[NameOf[c]] = "made" => pc'[c] \in Seeding
        /\ pc'[c] = "create" => volume'[NameOf[c]] \in {"fresh", "used"}
        /\ \A d \in Callers : helper'[d] = "running" => d = c /\ pc'[c] = "seedWait"
    BY <1>0, <2>1, <2>2, <2>3 DEF ReadyInv, MountedProfileReady, Present, Seeding
  <2>4. CASE EnsureVolume(c)
    <3>1. UNCHANGED <<container, helper>> /\ helper[c] # "running"
      BY <2>4 DEF EnsureVolume, ReadyInv
    <3>2. CASE volume[NameOf[c]] # "absent"
      <4>1. UNCHANGED volume /\ volume[NameOf[c]] \in {"fresh", "used"} /\ pc'[c] = "create"
        <5>1. volume[NameOf[c]] # "made"
          BY <1>0, <2>1, <2>4 DEF EnsureVolume, ReadyInv, Seeding
        <5> QED BY <1>0, <2>4, <3>2, <5>1 DEF EnsureVolume, Fault, Continue, Goto, ReadyInv
      <4> QED BY <2>1, <3>1, <4>1 DEF Present
    <3>3. CASE volume[NameOf[c]] = "absent"
      <4>1. NameOf[c] \notin Present
        BY <1>0, <3>3 DEF SeedInv
      <4>2. CASE volume' = [volume EXCEPT ![NameOf[c]] = "made"] /\ pc'[c] = "seed"
        BY <1>0, <2>1, <3>1, <4>1, <4>2 DEF Present, Seeding
      <4>3. CASE UNCHANGED volume /\ pc'[c] = "idle"
        BY <1>0, <2>1, <3>1, <3>3, <4>1, <4>3 DEF Present
      <4> QED BY <1>0, <2>4, <3>3, <4>2, <4>3 DEF EnsureVolume, Goto, Continue, Finish
    <3> QED BY <3>2, <3>3
  <2>5. CASE Fills(c)
    <3>1. pc[c] \in Seeding /\ volume[NameOf[c]] = "made" /\ NameOf[c] \notin Present
      BY <2>5 DEF Fills, SeedVolume, SeedStart, SeedWait, Seeding, SeedInv
    <3>2. UNCHANGED container
      BY <2>5 DEF Fills, SeedVolume, SeedStart, SeedWait
    <3>3. CASE UNCHANGED volume /\ pc'[c] \in {"seedStart", "seedWait"} /\
               (\A d \in Callers : helper'[d] = "running" => d = c /\ pc'[c] = "seedWait")
      BY <1>0, <3>1, <3>2, <3>3 DEF Present, Seeding
    <3>4. CASE volume' = Settled(NameOf[c]) /\ pc'[c] = "create" /\
               \A d \in Callers : helper'[d] # "running"
      BY <1>0, <3>1, <3>2, <3>4, SettledVolume DEF Present
    <3>5. CASE SeedVolume(c)
      <4>1. pc[c] = "seed" /\ helper[c] # "running"  BY <3>5 DEF SeedVolume, ReadyInv
      <4> QED BY <1>0, <2>1, <3>3, <3>4, <3>5, <4>1 DEF SeedVolume, Goto
    <3>6. CASE SeedStart(c)
      <4>1. pc[c] = "seedStart" /\ helper[c] # "running"  BY <3>6 DEF SeedStart, ReadyInv
      <4>2. CASE pc'[c] = "seedWait" /\ UNCHANGED volume /\ helper' = [helper EXCEPT ![c] = "running"]
        BY <1>0, <2>1, <3>3, <4>2
      <4> QED BY <1>0, <2>1, <3>1, <3>4, <3>6, <4>1, <4>2 DEF SeedStart, Goto
    <3>7. CASE SeedWait(c)
      <4>1. CopyEnds(c) /\ pc'[c] = "create"
        BY <1>0, <3>7 DEF SeedWait, Goto, Fault
      <4>2. \A d \in Callers : helper'[d] # "running"
        BY <2>1, <4>1, CopyEnded
      <4>3. volume' = Settled(NameOf[c])
        BY <2>1, <4>1 DEF CopyEnds, Copying
      <4> QED BY <3>4, <4>1, <4>2, <4>3
    <3> QED BY <2>5, <3>5, <3>6, <3>7 DEF Fills
  <2>6. CASE CreateContainer(c)
    <3>1. volume[NameOf[c]] \in {"fresh", "used"} /\ UNCHANGED <<volume, helper>>
      BY <1>0, <2>6 DEF CreateContainer, ReadyInv
    <3>2. pc'[c] \notin Seeding \cup {"create"} /\ helper[c] # "running"
      BY <1>0, <2>6 DEF CreateContainer, Goto, Continue, Finish, Seeding, ReadyInv
    <3>3. \A n \in Present' : n \in Present \/ n = NameOf[c]
      BY <1>0, <2>6 DEF CreateContainer, Present
    <3> QED BY <2>1, <3>1, <3>2, <3>3
  <2>7. CASE StartCreated(c)
    <3>1. Started(NameOf[c]) \/ StartFails(NameOf[c])  BY <2>7 DEF StartCreated
    <3>2. Present' = Present /\ volume'[NameOf[c]] \in {volume[NameOf[c]], "used"}
          /\ \A n \in Names : n # NameOf[c] => volume'[n] = volume[n]
      BY <1>0, <3>1, ReadyStarts, ChromeWrites
    <3>3. pc'[c] \notin Seeding \cup {"create"} /\ helper[c] # "running" /\ UNCHANGED helper
      BY <1>0, <2>7 DEF StartCreated, Goto, Continue, Finish, Seeding, ReadyInv
    <3>4. volume[NameOf[c]] # "made"
      BY <1>0, <2>1, <2>7 DEF StartCreated, ReadyInv, Seeding
    <3> QED BY <1>0, <2>1, <3>2, <3>3, <3>4 DEF ReadyInv, MountedProfileReady
  <2> QED BY <1>2, <2>4, <2>5, <2>6, <2>7
<1>3. ASSUME NEW c \in Callers, StartExisting(c) PROVE ReadyInv'
  <2>1. \A d \in Callers : pc'[d] = pc[d] \/ (d = c /\ pc[d] = "startOld" /\ pc'[d] \in {"idle", "resolve"})
    BY <1>0, <1>3 DEF StartExisting, Goto, Continue, Finish
  <2>2. UNCHANGED helper /\ (Started(NameOf[c]) \/ StartFails(NameOf[c]))
    BY <1>3 DEF StartExisting
  <2>3. Present' = Present /\ \A n \in Names : volume'[n] = volume[n] \/ (n \in Present /\ volume'[n] = "used")
    BY <1>0, <2>2, ReadyStarts
  <2>4. \A n \in Names : volume'[n] = "made" => volume[n] = "made"
    BY <2>3
  <2>5. \A d \in Callers : pc[d] \in Seeding => pc'[d] = pc[d]  BY <2>1 DEF Seeding
  <2>6. MountedProfileReady' /\ \A n \in Names : volume'[n] # "overwritten"
    BY <2>3 DEF ReadyInv, MountedProfileReady, Present
  <2>7. \A n \in Names : volume'[n] = "made" => \E d \in Callers : NameOf[d] = n /\ pc'[d] \in Seeding
    BY <2>4, <2>5 DEF ReadyInv
  <2>8. \A d \in Callers : pc'[d] = "create" => pc[d] = "create"  BY <2>1
  <2>9. \A d \in Callers : helper'[d] = "running" => pc'[d] = "seedWait"
    BY <2>1, <2>2 DEF ReadyInv
  <2> QED BY <1>0, <2>3, <2>6, <2>7, <2>8, <2>9 DEF ReadyInv
<1>4. ASSUME NEW s \in Sweeps, SweepDiscard(s) PROVE ReadyInv'
  <2>1. s \in Agents /\ pc[s] = "discard" /\ s \notin Callers
    BY <1>4, FleetAssumption DEF SweepDiscard, Agents, FleetAssumption
  <2>2. \A d \in Callers : pc[d] \notin Seeding \cup {"create"} /\ pc'[d] = pc[d]
    BY <1>0, <1>4, <2>1, Alone DEF Inside, InGateCaller, SweepDiscard, DropActivity, Goto
  <2>3. UNCHANGED <<container, helper>>  BY <1>4 DEF SweepDiscard
  <2>4. \A n \in Names : volume'[n] = volume[n] \/ (~InUse(n) /\ volume'[n] = "absent")
    BY <1>4 DEF SweepDiscard, RemoveVolume
  <2> QED BY <1>0, <2>2, <2>3, <2>4 DEF ReadyInv, MountedProfileReady, Present, InUse
<1>5. CASE BootVolumes
  <2>1. UNCHANGED <<container, helper, pc>> /\ \A c \in Callers : pc[c] = "idle"
    BY <1>0, <1>5 DEF BootVolumes, BootInv
  <2>2. \A n \in Names : volume'[n] = volume[n] \/ (~InUse(n) /\ volume'[n] = "absent")
    BY <1>5 DEF BootVolumes, OrphanVolumes
  <2> QED BY <1>0, <2>1, <2>2 DEF ReadyInv, MountedProfileReady, Present, InUse
<1>6. ASSUME NEW c \in Callers PROVE ~StrayCopyEnds(c)
  BY DEF StrayCopyEnds, CopyEnds, ReadyInv
<1>7. \A c \in Callers : EnsureVolume(c) \/ Fills(c) \/ CreateContainer(c) \/ StartCreated(c)
                          => pc[c] \in Inside
  BY DEF EnsureVolume, Fills, SeedVolume, SeedStart, SeedWait, CreateContainer, StartCreated,
       Inside, InGateCaller, Seeding
<1> QED BY <1>1, <1>2, <1>3, <1>4, <1>5, <1>6, <1>7, QuietOrNot DEF VolumeStep

LEMMA ReadyInvariant ==
  {"inspectVolume", "wait"} \cap Faults = {} /\ MaxRestarts = 0 =>
    (Spec => [](ProfileInv /\ ReadyInv))
<1> SUFFICES ASSUME "inspectVolume" \notin Faults, "wait" \notin Faults, MaxRestarts = 0
             PROVE  Spec => [](ProfileInv /\ ReadyInv)
  OBVIOUS
<1>1. Init => ReadyInv
  BY DEF Init, ReadyInv, MountedProfileReady, Present, Agents
<1>2. ProfileInv /\ ReadyInv /\ [Next]_vars => ReadyInv'
  BY ReadyStep
<1> QED BY <1>1, <1>2, ProfileInvariant, PTL DEF Spec

(* While the gateway stays up and volume inspects and the waits for seed   *)
(* copies are reliable, every container mounts a profile whose seed copy   *)
(* has ended: however provisions, resets and sweeps interleave, the create *)
(* gate keeps them apart.                                                  *)
THEOREM MountsReady ==
  {"inspectVolume", "wait"} \cap Faults = {} /\ MaxRestarts = 0 => (Spec => []MountedProfileReady)
<1>1. ReadyInv => MountedProfileReady
  BY DEF ReadyInv
<1> QED BY <1>1, ReadyInvariant, PTL

-----------------------------------------------------------------------------
(* The cap.                                                                *)

\* Between the count and the create there is room for the Name, whatever seed
\* copies (which the count takes in, too) come and go meanwhile.
Counted == {"volume", "create"} \cup Seeding
RoomLeft(n) == Cardinality(Present \ {n}) < MaxFleet

CapInv ==
  /\ CapRespected
  /\ \A c \in Callers : pc[c] \in Counted => RoomLeft(NameOf[c])

LEMMA PresentFinite ==
  \A S : S \subseteq Names => IsFiniteSet(S)
BY FS_Subset, FleetAssumption DEF FleetAssumption

LEMMA RoomForOne ==
  ASSUME NEW n, RoomFor(n)
  PROVE  RoomLeft(n)
<1>1. Helpers \subseteq Callers /\ Present \ {n} \subseteq Names
  BY DEF Helpers, Present
<1>2. Cardinality(Helpers) \in Nat /\ Cardinality(Present \ {n}) \in Nat /\ MaxFleet \in Nat
  BY <1>1, PresentFinite, FS_Subset, FS_CardinalityType, FleetAssumption DEF FleetAssumption
<1> QED BY <1>2 DEF RoomFor, RoomLeft

\* No image is rebuilt, so nothing is ever rotated.
NoRotation ==
  /\ \A n \in Names : oldImage[n] = FALSE
  /\ \A c \in Callers : pc[c] \notin {"wantRotate", "rotStop", "rotRemove"}

LEMMA NoRotationStep ==
  ASSUME MaxRebuilds = 0, BaseInv, NoRotation, [Next]_vars
  PROVE  NoRotation'
<1> USE DEF BaseInv, QueueOK
<1>0. \A c \in Callers : NameOf[c] \in Names /\ c \in Agents /\ c \notin Sweeps
  BY FleetAssumption DEF FleetAssumption, Agents
<1>1. ~RebuildImage  BY DEF RebuildImage, CountsOK
<1>2. \A n \in Names : oldImage'[n] = FALSE
  <2>1. UNCHANGED oldImage \/ (\E n \in Names : oldImage' = [oldImage EXCEPT ![n] = FALSE]) \/ BootGc
    <3>1. ASSUME NEW c \in Callers, Begin(c) \/ BeginReset(c) \/ Provision(c)
          PROVE  UNCHANGED oldImage \/ oldImage' = [oldImage EXCEPT ![NameOf[c]] = FALSE]
      BY <3>1 DEF Provision, Begin, BeginReset, Inspect, EnterRotate, RotateStop, RotateRemove,
           CheckCap, EnsureVolume, SeedVolume, SeedStart, SeedWait, CreateContainer,
           StartCreated, StartExisting, ResolveIp, WaitHealthy, RecreateStop, RecreateRemove, ResetStop, ResetRemove,
           RemoveContainer, docker
    <3>2. ASSUME NEW s \in Sweeps, SweepList(s) \/ Sweep(s)
          PROVE  UNCHANGED oldImage \/ oldImage' = [oldImage EXCEPT ![target[s]] = FALSE]
      BY <3>2 DEF Sweep, SweepList, SweepJudge, SweepEnd, SweepStop, SweepRemove, SweepVolume,
           SweepGuard, SweepDiscard, RemoveContainer, docker
    <3>3. \A s \in Sweeps : target[s] \in Names  BY DEF StatesOK
    <3>4. ASSUME NEW n \in Names, Attach(n) \/ Detach(n) \/ Age(n) \/ OutOfBand(n)
          PROVE  UNCHANGED oldImage \/ oldImage' = [oldImage EXCEPT ![n] = FALSE]
      BY <3>4 DEF Attach, Detach, Age, OutOfBand, docker
    <3>5. CASE BootVolumes \/ Crash \/ UNCHANGED vars
      BY <3>5 DEF BootVolumes, Crash, vars, docker
    <3>6. ASSUME NEW c \in Callers, StrayCopyEnds(c) PROVE UNCHANGED oldImage
      BY <3>6 DEF StrayCopyEnds
    <3> QED BY <1>0, <1>1, <3>1, <3>2, <3>3, <3>4, <3>5, <3>6 DEF Next, Serve
  <2>2. CASE UNCHANGED oldImage  BY <2>2 DEF NoRotation
  <2>3. ASSUME NEW n \in Names, oldImage' = [oldImage EXCEPT ![n] = FALSE]
        PROVE  \A m \in Names : oldImage'[m] = FALSE
    BY <2>3 DEF NoRotation, FlagsOK
  <2>4. CASE BootGc  BY <2>4 DEF BootGc, NoRotation
  <2> QED BY <2>1, <2>2, <2>3, <2>4
<1>3. ASSUME NEW c \in Callers PROVE pc'[c] \notin {"wantRotate", "rotStop", "rotRemove"}
  <2>1. ASSUME NEW d \in Callers, Begin(d) \/ BeginReset(d) \/ Provision(d)
        PROVE  pc'[c] \notin {"wantRotate", "rotStop", "rotRemove"}
    <3>1. PICK l \in CallerPC : Moves(d, l)  BY <2>1, CallerGate
    <3>2. CASE d # c  BY <1>0, <3>1, <3>2 DEF Moves, NoRotation
    <3>3. CASE d = c
      <4>1. ~EnterRotate(c) /\ ~RotateStop(c) /\ ~RotateRemove(c)
        BY DEF EnterRotate, RotateStop, RotateRemove, NoRotation
      <4>2. ~oldImage[NameOf[c]]  BY <1>0 DEF NoRotation
      <4>3. CASE Inspect(c)  BY <1>0, <4>2, <4>3 DEF Inspect, JoinGate, Goto
      <4>4. CASE ~Inspect(c)
        BY <1>0, <2>1, <3>3, <4>1, <4>4 DEF Provision, Begin, BeginReset, CheckCap, EnsureVolume,
          SeedVolume, SeedStart, SeedWait, CreateContainer, StartCreated, StartExisting, ResolveIp,
          WaitHealthy, RecreateStop, RecreateRemove, ResetStop, ResetRemove, Unhealthy, Goto, Continue, Finish
      <4> QED BY <4>3, <4>4
    <3> QED BY <3>2, <3>3
  <2>2. ASSUME NEW s \in Sweeps, SweepList(s) \/ Sweep(s) PROVE pc'[c] = pc[c]
    <3>1. PICK l \in SweepPC : Moves(s, l)  BY <2>2, SweepGate
    <3> QED BY <1>0, <3>1 DEF Moves
  <2>3. CASE Crash  BY <1>0, <2>3 DEF Crash
  <2>4. CASE BootGc \/ BootVolumes \/ UNCHANGED vars
    BY <2>4 DEF BootGc, BootVolumes, vars, NoRotation
  <2>5. ASSUME NEW n \in Names, Attach(n) \/ Detach(n) \/ Age(n) \/ OutOfBand(n) PROVE pc'[c] = pc[c]
    BY <2>5 DEF Attach, Detach, Age, OutOfBand
  <2>6. ASSUME NEW d \in Callers, StrayCopyEnds(d) PROVE pc'[c] = pc[c]
    BY <2>6 DEF StrayCopyEnds
  <2> QED BY <1>1, <2>1, <2>2, <2>3, <2>4, <2>5, <2>6 DEF Next, Serve, NoRotation
<1> QED BY <1>2, <1>3 DEF NoRotation

\* Without rotations a caller comes to a counted place by the cap check, or from
\* another counted place.
LEMMA CountedFrom ==
  ASSUME BaseInv, NoRotation, [Next]_vars, NEW c \in Callers, pc'[c] \in Counted
  PROVE  pc[c] \in Counted \/ RoomFor(NameOf[c])
<1> USE DEF BaseInv, QueueOK
<1>0. c \in Agents /\ c \notin Sweeps  BY FleetAssumption DEF FleetAssumption, Agents
<1>1. ASSUME NEW d \in Callers, Begin(d) \/ BeginReset(d) \/ Provision(d)
      PROVE  pc[c] \in Counted \/ RoomFor(NameOf[c])
  <2>1. PICK l \in CallerPC : Moves(d, l)  BY <1>1, CallerGate
  <2>2. CASE d # c  BY <1>0, <2>1, <2>2 DEF Moves, Counted
  <2>3. CASE d = c
    BY <1>0, <1>1, <2>3 DEF Counted, Provision, Begin, BeginReset, Inspect, EnterRotate, RotateStop,
      RotateRemove, CheckCap, EnsureVolume, SeedVolume, SeedStart, SeedWait, CreateContainer,
      StartCreated, StartExisting, Seeding, NoRotation,
      ResolveIp, WaitHealthy, RecreateStop, RecreateRemove, ResetStop, ResetRemove, Unhealthy,
      JoinGate, Goto, Continue, Finish
  <2> QED BY <2>2, <2>3
<1>2. ASSUME NEW s \in Sweeps, SweepList(s) \/ Sweep(s) PROVE pc'[c] = pc[c]
  <2>1. PICK l \in SweepPC : Moves(s, l)  BY <1>2, SweepGate
  <2> QED BY <1>0, <2>1 DEF Moves
<1>3. CASE Crash  BY <1>0, <1>3 DEF Crash, Counted, Seeding
<1>4. CASE BootGc \/ BootVolumes \/ RebuildImage \/ UNCHANGED vars
  BY <1>4 DEF BootGc, BootVolumes, RebuildImage, vars
<1>5. ASSUME NEW n \in Names, Attach(n) \/ Detach(n) \/ Age(n) \/ OutOfBand(n) PROVE pc'[c] = pc[c]
  BY <1>5 DEF Attach, Detach, Age, OutOfBand
<1>6. ASSUME NEW d \in Callers, StrayCopyEnds(d) PROVE pc'[c] = pc[c]
  BY <1>6 DEF StrayCopyEnds
<1> QED BY <1>1, <1>2, <1>3, <1>4, <1>5, <1>6 DEF Next, Serve

LEMMA CapStep ==
  ASSUME BaseInv, NoRotation, CapInv, [Next]_vars
  PROVE  CapInv'
<1> USE DEF BaseInv, QueueOK, StatesOK
<1>0. \A c \in Callers : NameOf[c] \in Names /\ c \in Agents
  BY FleetAssumption DEF FleetAssumption, Agents
<1>1. Present \subseteq Names /\ Present' \subseteq Names /\ MaxFleet \in Nat
  BY FleetAssumption DEF Present, FleetAssumption
<1>2. ASSUME Present' \subseteq Present PROVE CapInv'
  <2>1. Cardinality(Present') <= Cardinality(Present)
        /\ Cardinality(Present) \in Nat /\ Cardinality(Present') \in Nat
    BY <1>1, <1>2, PresentFinite, FS_Subset, FS_CardinalityType
  <2>2. CapRespected'
    BY <1>1, <2>1 DEF CapInv, CapRespected
  <2>3. ASSUME NEW n, RoomLeft(n) PROVE RoomLeft(n)'
    <3>1. Present' \ {n} \subseteq Present \ {n} /\ Present \ {n} \subseteq Names
      BY <1>1, <1>2
    <3>2. IsFiniteSet(Present \ {n}) /\ IsFiniteSet(Present' \ {n})
      BY <3>1, PresentFinite
    <3>3. Cardinality(Present' \ {n}) <= Cardinality(Present \ {n})
          /\ Cardinality(Present \ {n}) \in Nat /\ Cardinality(Present' \ {n}) \in Nat
      BY <3>1, <3>2, FS_Subset, FS_CardinalityType
    <3> QED BY <1>1, <2>3, <3>3 DEF RoomLeft
  <2>4. \A c \in Callers : pc'[c] \in Counted => RoomLeft(NameOf[c])
    BY CountedFrom, RoomForOne DEF CapInv
  <2> QED BY <2>2, <2>3, <2>4 DEF CapInv
<1>3. ASSUME NEW c \in Callers, CreateContainer(c) PROVE CapInv'
  <2>0. pc[c] = "create"  BY <1>3 DEF CreateContainer
  <2>1. \A d \in Callers : d # c => pc[d] \notin Counted
    BY <1>0, <2>0, Alone DEF Inside, InGateCaller, Counted, Seeding
  <2>2. \A d \in Callers : pc'[d] \notin Counted
    BY <1>0, <1>3, <2>1 DEF CreateContainer, Goto, Continue, Finish, Counted, Seeding
  <2>3. CASE Present' \subseteq Present  BY <1>2, <2>3
  <2>4. CASE ~(Present' \subseteq Present)
    <3>1. NameOf[c] \notin Present /\ Present' = Present \cup {NameOf[c]}
      BY <1>0, <1>3, <2>4 DEF CreateContainer, Present
    <3>2. Present \ {NameOf[c]} = Present  BY <3>1
    <3>3. Cardinality(Present) < MaxFleet
      BY <2>0, <3>2 DEF CapInv, RoomLeft, Counted
    <3>4. Cardinality(Present') = Cardinality(Present) + 1 /\ Cardinality(Present) \in Nat
      BY <1>1, <3>1, PresentFinite, FS_AddElement, FS_CardinalityType
    <3> QED BY <1>1, <2>2, <3>3, <3>4 DEF CapInv, CapRespected
  <2> QED BY <2>3, <2>4
<1>4. Present' \subseteq Present \/ \E c \in Callers : CreateContainer(c)
  <2>1. ASSUME NEW c \in Callers, EnsureVolume(c) \/ Fills(c) \/ StartCreated(c) \/ StartExisting(c)
                                   \/ StrayCopyEnds(c)
        PROVE  Present' \subseteq Present
    BY <1>0, <2>1 DEF EnsureVolume, Fills, SeedVolume, SeedStart, SeedWait, StartCreated, StartExisting,
         StrayCopyEnds, Started, StartFails, Present
  <2>2. ASSUME NEW s \in Sweeps, SweepDiscard(s) PROVE Present' = Present
    BY <2>2 DEF SweepDiscard, Present
  <2>3. CASE BootVolumes  BY <2>3 DEF BootVolumes, Present
  <2> QED BY <2>1, <2>2, <2>3, QuietOrNot DEF VolumeStep, Quiet
<1> QED BY <1>2, <1>3, <1>4

LEMMA CapInvariant ==
  MaxRebuilds = 0 => (Spec => [](BaseInv /\ NoRotation /\ CapInv))
<1> SUFFICES ASSUME MaxRebuilds = 0 PROVE Spec => [](BaseInv /\ NoRotation /\ CapInv)
  OBVIOUS
<1>1. Init => NoRotation /\ CapInv
  <2> SUFFICES ASSUME Init PROVE NoRotation /\ CapInv
    OBVIOUS
  <2>1. Present = {}  BY DEF Init, Present
  <2>2. Cardinality(Present) = 0  BY <2>1, FS_EmptySet
  <2>3. CapRespected  BY <2>2, FleetAssumption DEF CapRespected, FleetAssumption
  <2>4. \A c \in Callers : pc[c] = "idle"  BY DEF Init, Agents
  <2> QED BY <2>3, <2>4 DEF Init, NoRotation, CapInv, Counted, Seeding
<1>2. BaseInv /\ NoRotation /\ CapInv /\ [Next]_vars => (BaseInv /\ NoRotation /\ CapInv)'
  BY BaseStep, NoRotationStep, CapStep
<1> QED BY <1>1, <1>2, BaseInit, PTL DEF Spec

(* MAX_FLEET is never exceeded while no image is rebuilt, for any number   *)
(* of Names and concurrent provisions, whatever Docker call fails and      *)
(* however often the gateway crashes: counting inside the gate is enough.  *)
THEOREM CapKept == MaxRebuilds = 0 => (Spec => []CapRespected)
<1>1. CapInv => CapRespected
  BY DEF CapInv
<1> QED BY <1>1, CapInvariant, PTL

-----------------------------------------------------------------------------
(* The fleet implements the profile store.                                 *)

Profile == [n \in Names |-> IF volume[n] \in {"absent", "made"} THEN "none" ELSE volume[n]]

StoreStep == \/ \E n \in Names : Store!Make(n) \/ Store!Mount(n) \/ Store!Open(n)
             \/ \E S \in SUBSET Names : Store!Unmount(S) \/ Store!Discard(S)
             \/ UNCHANGED <<Profile, Present>>

\* The invariants of the three sections above, together.
FleetInv == ProfileInv /\ ReadyInv /\ NoRotation /\ CapInv

LEMMA FleetStoreStep ==
  ASSUME "inspectVolume" \notin Faults, "wait" \notin Faults, FleetInv, [Next]_vars
  PROVE  StoreStep
<1> USE DEF FleetInv, ProfileInv, BaseInv, StatesOK, QueueOK
<1>0. \A c \in Callers : NameOf[c] \in Names /\ c \in Agents
  BY FleetAssumption DEF FleetAssumption, Agents
<1>1. CASE Quiet
  <2>1. Profile' = Profile  BY <1>1 DEF Quiet, Profile
  <2>2. Present' = Present \ (Present \ Present') /\ Present \ Present' \subseteq Present
    BY <1>1 DEF Quiet
  <2>3. Present \ Present' \in SUBSET Names  BY DEF Present
  <2>4. Store!Unmount(Present \ Present')
    BY <2>1, <2>2 DEF Store!Unmount, Profile
  <2> QED BY <2>3, <2>4 DEF StoreStep
<1>2. ASSUME NEW c \in Callers, EnsureVolume(c) PROVE StoreStep
  <2>1. Profile' = Profile
    BY <1>0, <1>2 DEF EnsureVolume, Fault, Profile
  <2>2. Present' = Present
    BY <1>2 DEF EnsureVolume, Present
  <2> QED BY <2>1, <2>2 DEF StoreStep
<1>3. ASSUME NEW c \in Callers, Fills(c) PROVE StoreStep
  <2>1. volume[NameOf[c]] = "made" /\ NameOf[c] \notin Present
    BY <1>3 DEF Fills, SeedVolume, SeedStart, SeedWait, Seeding, SeedInv
  <2>2. Present' = Present
    BY <1>3 DEF Fills, SeedVolume, SeedStart, SeedWait, Present
  <2>3. CASE UNCHANGED volume  BY <2>2, <2>3 DEF StoreStep, Profile
  <2>4. CASE volume' = [volume EXCEPT ![NameOf[c]] = "fresh"]
    <3>0. Profile[NameOf[c]] = "none"  BY <1>0, <2>1 DEF Profile
    <3>1. Profile' = [Profile EXCEPT ![NameOf[c]] = "fresh"]
      BY <1>0, <2>4 DEF Profile
    <3>2. Store!Make(NameOf[c])
      BY <2>1, <2>2, <3>0, <3>1 DEF Store!Make, Profile
    <3> QED BY <1>0, <3>2 DEF StoreStep
  <2>5. UNCHANGED volume \/ volume' = [volume EXCEPT ![NameOf[c]] = "fresh"]
    BY <1>0, <1>3, <2>1 DEF Fills, SeedVolume, SeedStart, SeedWait, CopyEnds, Settled
  <2> QED BY <2>3, <2>4, <2>5
<1>4. ASSUME NEW c \in Callers, CreateContainer(c) PROVE StoreStep
  <2>1. volume[NameOf[c]] \in {"fresh", "used"} /\ pc[c] \in Counted
    BY <1>4 DEF CreateContainer, ReadyInv, Counted
  <2>2. UNCHANGED volume
    BY <1>0, <1>4, <2>1 DEF CreateContainer
  <2>3. Profile' = Profile /\ Profile[NameOf[c]] # "none"
    BY <1>0, <2>1, <2>2 DEF Profile
  <2>4. CASE Present' = Present  BY <2>3, <2>4 DEF StoreStep
  <2>5. CASE Present' # Present
    <3>1. NameOf[c] \notin Present /\ Present' = Present \cup {NameOf[c]}
      BY <1>0, <1>4, <2>5 DEF CreateContainer, Present
    <3>2. Present \ {NameOf[c]} = Present  BY <3>1
    <3>3. Cardinality(Present) < MaxFleet
      BY <2>1, <3>2 DEF CapInv, RoomLeft
    <3>4. Store!Cardinality(Present) = Cardinality(Present)
      BY Zenon DEF Store!Cardinality, Cardinality
    <3>5. Store!Mount(NameOf[c])
      BY <2>3, <3>1, <3>3, <3>4 DEF Store!Mount, Profile
    <3> QED BY <1>0, <3>5 DEF StoreStep
  <2> QED BY <2>4, <2>5
<1>5. ASSUME NEW c \in Callers, StartCreated(c) \/ StartExisting(c) PROVE StoreStep
  <2>1. Present' = Present
    BY <1>0, <1>5 DEF StartCreated, StartExisting, Started, StartFails, Present
  <2>2. CASE UNCHANGED volume
    BY <2>1, <2>2 DEF StoreStep, Profile
  <2>3. CASE volume' # volume
    <3>1. Started(NameOf[c])
      BY <1>5, <2>3 DEF StartCreated, StartExisting, StartFails
    <3>2. NameOf[c] \in Present /\ volume[NameOf[c]] # "overwritten"
      BY <1>0, <3>1 DEF Started, Present, ReadyInv
    <3>3. \A d \in Callers : ~Copying(d, NameOf[c])
      BY <3>2 DEF ReadyInv, SeedInv, Seeding, Copying
    <3>4. volume' = [volume EXCEPT ![NameOf[c]] = "used"]
      BY <1>0, <3>1, <3>2, <3>3 DEF Started
    <3>5. Profile' = [Profile EXCEPT ![NameOf[c]] = "used"]
      BY <1>0, <3>4 DEF Profile
    <3>6. Store!Open(NameOf[c])
      BY <2>1, <3>2, <3>5 DEF Store!Open, Profile
    <3> QED BY <1>0, <3>6 DEF StoreStep
  <2> QED BY <2>2, <2>3
<1>6. ASSUME NEW S \in SUBSET (Instances \ Present), UNCHANGED container,
             volume' = [n \in Names |-> IF n \in S THEN "absent" ELSE volume[n]]
      PROVE  StoreStep
  <2>1. S \in SUBSET Names  BY FleetAssumption DEF FleetAssumption
  <2>2. Profile' = [n \in Names |-> IF n \in S THEN "none" ELSE Profile[n]]
    BY <1>6 DEF Profile
  <2>3. Present' = Present  BY <1>6 DEF Present
  <2>4. Store!Discard(S)
    BY <2>2, <2>3 DEF Store!Discard, Profile
  <2> QED BY <2>1, <2>4 DEF StoreStep
<1>7. ASSUME NEW s \in Sweeps, SweepDiscard(s) PROVE StoreStep
  <2>0. target[s] \in Instances /\ target[s] \in Names
    BY <1>7 DEF SweepDiscard, TargetInv
  <2>1. CASE ~InUse(target[s]) /\ volume' # volume
    <3>1. {target[s]} \in SUBSET (Instances \ Present)  BY <2>0, <2>1 DEF Present, InUse
    <3>2. volume' = [n \in Names |-> IF n \in {target[s]} THEN "absent" ELSE volume[n]]
      BY <1>7, <2>0, <2>1 DEF SweepDiscard, RemoveVolume
    <3> QED BY <1>6, <1>7, <3>1, <3>2 DEF SweepDiscard
  <2>2. CASE InUse(target[s]) \/ volume' = volume
    <3>1. UNCHANGED <<volume, container>>
      BY <1>7, <2>0, <2>2 DEF SweepDiscard, RemoveVolume
    <3> QED BY <3>1 DEF StoreStep, Profile, Present
  <2> QED BY <2>1, <2>2
<1>8. CASE BootVolumes
  <2>1. CASE UNCHANGED volume
    BY <1>8, <2>1 DEF BootVolumes, StoreStep, Profile, Present
  <2>2. CASE volume' # volume
    <3>1. PICK kept \in Misses(Names) :
            volume' = [n \in Names |-> IF n \in OrphanVolumes \ kept THEN "absent" ELSE volume[n]]
      BY <1>8, <2>2 DEF BootVolumes
    <3>2. OrphanVolumes \ kept \in SUBSET (Instances \ Present)
      BY DEF OrphanVolumes, Present, InUse
    <3> QED BY <1>6, <1>8, <3>1, <3>2 DEF BootVolumes
  <2> QED BY <2>1, <2>2
<1>9. ASSUME NEW c \in Callers PROVE ~StrayCopyEnds(c)
  BY DEF StrayCopyEnds, CopyEnds, ReadyInv
<1> QED BY <1>1, <1>2, <1>3, <1>4, <1>5, <1>7, <1>8, <1>9, QuietOrNot DEF VolumeStep

(* With no rebuild, no crash and reliable volume inspects and waits for    *)
(* seed copies the whole fleet, gate, reaper, resets, other failing Docker *)
(* calls and all, is a profile store.                                      *)
THEOREM FleetImplementsStore ==
  {"inspectVolume", "wait"} \cap Faults = {} /\ MaxRestarts = 0 /\ MaxRebuilds = 0 =>
    (Spec => StoreSpec)
<1> SUFFICES ASSUME "inspectVolume" \notin Faults, "wait" \notin Faults,
                    MaxRestarts = 0, MaxRebuilds = 0
             PROVE  Spec => StoreSpec
  OBVIOUS
<1>1. Init => Store!Init
  BY DEF Init, Store!Init, Present
<1>2. FleetInv /\ [Next]_vars => StoreStep
  BY FleetStoreStep
<1>3. StoreStep => [Store!Next]_(Store!storeVars)
  BY DEF StoreStep, Store!Next, Store!storeVars, Profile
<1>4. Spec => []FleetInv
  <2>1. Spec => [](ProfileInv /\ ReadyInv)
    <3>1. {"inspectVolume", "wait"} \cap Faults = {}  OBVIOUS
    <3> QED BY <3>1, ReadyInvariant
  <2>2. Spec => [](BaseInv /\ NoRotation /\ CapInv)  BY CapInvariant
  <2> QED BY <2>1, <2>2, PTL DEF FleetInv
<1> QED BY <1>1, <1>2, <1>3, <1>4, PTL DEF Spec, StoreSpec, Store!Spec
=============================================================================
