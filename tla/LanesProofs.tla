----------------------------- MODULE LanesProofs -----------------------------
(***************************************************************************)
(* What holds of the lanes for every set of clients: types, one session,   *)
(* the registry's counts, and, without the reaper, the lane lock.          *)
(***************************************************************************)
EXTENDS Lanes, FiniteSetTheorems, TLAPS

-----------------------------------------------------------------------------
(* Types.                                                                  *)

\* No step of either lane takes a count below zero.
LEMMA CountsStep ==
  ASSUME CountsOK, [Next]_vars
  PROVE  CountsOK'
<1> USE DEF CountsOK, lane, activity, registry, world
<1>1. CASE Cdp
  <2>1. CASE Provisioned \/ ProvisionFails
    BY <2>1 DEF Provisioned, ProvisionFails
  <2>2. ASSUME NEW h \in Handshakes, Handshake(h) \/ HangUp(h) \/ LookedUp(h) \/ Reply(h)
        PROVE  CountsOK'
    <3>1. UNCHANGED <<streams, cdp>>
      BY <2>2 DEF Handshake, HangUp, LookedUp, Reply
    <3>2. claims' \in {claims + 1, claims, Decrement(claims)}
      <4>1. CASE Handshake(h) \/ LookedUp(h)  BY <4>1 DEF Handshake, LookedUp, Touch
      <4>2. CASE Unclaim(h)  BY <4>2 DEF Unclaim
      <4> QED BY <2>2, <4>1, <4>2 DEF HangUp, Reply
    <3> QED BY <3>1, <3>2 DEF Decrement
  <2>3. ASSUME NEW k \in Sockets, Upgrade(k) \/ DriverGone(k) \/ Resolved(k)
        PROVE  CountsOK'
    BY <2>3 DEF Upgrade, CdpOpened, DriverGone, Resolved, ReleaseLane, CdpClosed, Decrement
  <2> QED BY <1>1, <2>1, <2>2, <2>3 DEF Cdp
<1>2. ASSUME NEW i \in Slots, Mcp(i) PROVE CountsOK'
  BY <1>2 DEF Mcp, Initialize, Reclaim, Resume, Created, EndSession, Recycle, OpenStream,
       StreamEnds, Attach, Attached, CloseSession, StreamOpened, StreamClosed, Decrement
<1>3. CASE Reap \/ Age \/ UNCHANGED vars
  <2>1. CASE Judge  BY <2>1 DEF Judge, CloseSession
  <2>2. CASE List \/ Stop \/ Remove \/ Age  BY <2>2 DEF List, Stop, Remove, Age
  <2>3. CASE Forget \/ UNCHANGED vars  BY <2>3 DEF Forget, DropActivity, vars
  <2> QED BY <1>3, <2>1, <2>2, <2>3 DEF Reap
<1> QED BY <1>1, <1>2, <1>3 DEF Next

\* Every step of the MCP lane keeps the other types.
LEMMA McpStates ==
  ASSUME StatesOK, NEW i \in Slots, Mcp(i)
  PROVE  StatesOK'
<1> USE LanesAssumption DEF StatesOK, Touch, sessions, lane, activity, registry, world
<1>1. CASE Initialize(i)  BY <1>1 DEF Initialize, Reserve
<1>2. CASE Reclaim(i)     BY <1>2 DEF Reclaim, CloseSession
<1>3. CASE Resume(i)
  <2>1. CASE Reserve(i)   BY <1>3, <2>1 DEF Resume, Reserve
  <2>2. CASE slot' = [slot EXCEPT ![i] = "free"] /\ UNCHANGED <<pending, record, idle>>
    BY <1>3, <2>2 DEF Resume
  <2> QED BY <1>3, <2>1, <2>2 DEF Resume
<1>4. CASE Created(i)
  <2>1. slot' \in [Slots -> {"free", "closing", "creating", "live", "closed"}]
    BY <1>4 DEF Created
  <2>2. byName' \in Slots \cup {None} /\ pending' = FALSE
    BY <1>4 DEF Created
  <2> QED BY <1>4, <2>1, <2>2 DEF Created
<1>5. CASE EndSession(i)  BY <1>5 DEF EndSession, CloseSession
<1>6. CASE Recycle(i)     BY <1>6 DEF Recycle
<1>7. CASE OpenStream(i)  BY <1>7 DEF OpenStream, StreamOpened
<1>8. CASE StreamEnds(i)
  <2>1. stream' \in [Slots -> {"none", "open", "ending"}]
    BY <1>8 DEF StreamEnds
  <2>2. record' \in BOOLEAN /\ idle' \in BOOLEAN
    BY <1>8 DEF StreamEnds, StreamClosed
  <2> QED BY <1>8, <2>1, <2>2 DEF StreamEnds
<1>9. CASE Attach(i)      BY <1>9 DEF Attach
<1>10. CASE Attached(i)   BY <1>10 DEF Attached
<1> QED BY <1>1, <1>2, <1>3, <1>4, <1>5, <1>6, <1>7, <1>8, <1>9, <1>10 DEF Mcp

\* So does every step of the CDP lane.
LEMMA CdpStates ==
  ASSUME StatesOK, Cdp
  PROVE  StatesOK'
<1> USE LanesAssumption DEF StatesOK, Touch, sessions, lane, activity, registry, world
<1>1. CASE Provisioned    BY <1>1 DEF Provisioned
<1>2. CASE ProvisionFails
  <2>1. provision' \in {"none", "recreate"} /\ running' \in BOOLEAN
    BY <1>2 DEF ProvisionFails
  <2>2. shake' \in [Handshakes -> {"none", "waiting", "looking", "replying"}]
    BY <1>2 DEF ProvisionFails
  <2> QED BY <1>2, <2>1, <2>2 DEF ProvisionFails
<1>3. ASSUME NEW h \in Handshakes, Handshake(h) PROVE StatesOK'
  <2>1. provision' \in {"none", "ensure", "recreate"}
    BY <1>3 DEF Handshake
  <2>2. shake' \in [Handshakes -> {"none", "waiting", "looking", "replying"}]
    BY <1>3 DEF Handshake
  <2> QED BY <1>3, <2>1, <2>2 DEF Handshake
<1>4. ASSUME NEW h \in Handshakes, HangUp(h) PROVE StatesOK'
  BY <1>4 DEF HangUp, Unclaim
<1>5. ASSUME NEW h \in Handshakes, LookedUp(h) \/ Reply(h) PROVE StatesOK'
  <2>1. CASE LookedUp(h)
    <3>1. record' \in BOOLEAN /\ idle' \in BOOLEAN  BY <2>1 DEF LookedUp
    <3> QED BY <2>1, <3>1 DEF LookedUp
  <2>2. CASE Reply(h)  BY <2>2 DEF Reply, Unclaim
  <2> QED BY <1>5, <2>1, <2>2
<1>6. ASSUME NEW k \in Sockets, Upgrade(k) PROVE StatesOK'
  BY <1>6 DEF Upgrade, CdpOpened
<1>7. ASSUME NEW k \in Sockets, DriverGone(k) PROVE StatesOK'
  BY <1>7 DEF DriverGone, ReleaseLane, CdpClosed
<1>8. ASSUME NEW k \in Sockets, Resolved(k) PROVE StatesOK'
  <2>1. CASE UNCHANGED <<sessions, shake, claimed, provision, holder, registry, world>>
    BY <1>8, <2>1 DEF Resolved
  <2>2. CASE /\ ReleaseLane /\ socket' = [socket EXCEPT ![k] = "none"]
             /\ UNCHANGED <<sessions, shake, claimed, provision, byName, pending, claims,
                            running, reaper, listed>>
    BY <2>2 DEF ReleaseLane, CdpClosed
  <2> QED BY <1>8, <2>1, <2>2 DEF Resolved
<1> QED BY <1>1, <1>2, <1>3, <1>4, <1>5, <1>6, <1>7, <1>8 DEF Cdp

LEMMA StatesStep ==
  ASSUME StatesOK, [Next]_vars
  PROVE  StatesOK'
<1>1. CASE Cdp  BY <1>1, CdpStates
<1>2. ASSUME NEW i \in Slots, Mcp(i) PROVE StatesOK'
  BY <1>2, McpStates
<1> USE LanesAssumption DEF StatesOK, Touch, sessions, lane, activity, registry, world
<1>3. CASE Judge
  <2>1. CASE ~Spared /\ listed /\ byName # None
    <3> slot' \in [Slots -> {"free", "closing", "creating", "live", "closed"}]
      BY <1>3, <2>1 DEF Judge
    <3> stream' \in [Slots -> {"none", "open", "ending"}]
      BY <1>3, <2>1 DEF Judge, CloseSession
    <3> QED BY <1>3, <2>1 DEF Judge, CloseSession
  <2>2. CASE ~(~Spared /\ listed /\ byName # None)  BY <1>3, <2>2 DEF Judge
  <2> QED BY <2>1, <2>2
<1>4. CASE List  BY <1>4 DEF List
<1>5. CASE Stop \/ Remove
  <2>1. running' \in BOOLEAN /\ reaper' \in {"remove", "forget"}
    BY <1>5 DEF Stop, Remove
  <2>2. UNCHANGED <<sessions, lane, registry, idle, listed>>
    BY <1>5 DEF Stop, Remove
  <2> QED BY <2>1, <2>2
<1>6. CASE Forget  BY <1>6 DEF Forget, DropActivity
<1>7. CASE Age  BY <1>7 DEF Age
<1>8. CASE UNCHANGED vars  BY <1>8 DEF vars
<1> QED BY <1>1, <1>2, <1>3, <1>4, <1>5, <1>6, <1>7, <1>8 DEF Next, Reap

(* The registry's counts never go below zero and every other variable      *)
(* keeps its type, whichever lane, reaper or client moves.                 *)
THEOREM TypeCorrect == Spec => []TypeOK
<1>1. Init => StatesOK
  BY LanesAssumption, Zenon DEF Init, StatesOK
<1>2. Init => CountsOK
  BY DEF Init, CountsOK
<1>3. TypeOK /\ [Next]_vars => TypeOK'
  BY CountsStep, StatesStep DEF TypeOK
<1> QED BY <1>1, <1>2, <1>3, PTL DEF Spec, TypeOK

-----------------------------------------------------------------------------
(* One session.                                                            *)

\* The registry's entry and its reservation name the one slot they stand for.
SessionInv ==
  /\ \A i \in Slots : slot[i] = "live" <=> byName = i
  /\ \A i \in Slots : slot[i] = "creating" => pending
  /\ \A i, j \in Slots : slot[i] = "creating" /\ slot[j] = "creating" => i = j
  /\ byName # None => ~pending

LEMMA SessionStep ==
  ASSUME StatesOK, SessionInv, [Next]_vars
  PROVE  SessionInv'
<1> USE LanesAssumption DEF StatesOK, SessionInv, sessions, lane, activity, registry, world
<1>1. CASE Cdp
  <2>1. CASE Provisioned \/ ProvisionFails
    BY <2>1 DEF Provisioned, ProvisionFails
  <2>2. ASSUME NEW h \in Handshakes, Handshake(h) \/ HangUp(h) \/ LookedUp(h) \/ Reply(h)
        PROVE  SessionInv'
    <3>1. UNCHANGED <<slot, byName, pending>>
      BY <2>2 DEF Handshake, HangUp, LookedUp, Reply
    <3> QED BY <3>1
  <2>3. ASSUME NEW k \in Sockets, Upgrade(k) \/ DriverGone(k) \/ Resolved(k)
        PROVE  SessionInv'
    <3>1. UNCHANGED <<slot, byName, pending>>
      BY <2>3 DEF Upgrade, DriverGone, Resolved
    <3> QED BY <3>1
  <2> QED BY <1>1, <2>1, <2>2, <2>3 DEF Cdp
<1>2. ASSUME NEW i \in Slots, Mcp(i) PROVE SessionInv'
  <2>1. CASE Initialize(i)  BY <2>1 DEF Initialize, Reserve, Has
  <2>2. CASE Reclaim(i)     BY <2>2 DEF Reclaim, CloseSession
  <2>3. CASE Resume(i)      BY <2>3 DEF Resume, Reserve, Has
  <2>4. CASE Created(i)     BY <2>4 DEF Created
  <2>5. CASE EndSession(i)  BY <2>5 DEF EndSession, CloseSession
  <2>6. CASE Recycle(i)     BY <2>6 DEF Recycle
  <2>7. CASE OpenStream(i) \/ StreamEnds(i) \/ Attach(i) \/ Attached(i)
    BY <2>7 DEF OpenStream, StreamEnds, StreamOpened, StreamClosed, Attach, Attached
  <2> QED BY <1>2, <2>1, <2>2, <2>3, <2>4, <2>5, <2>6, <2>7 DEF Mcp
<1>3. CASE Judge
  <2>1. CASE ~Spared /\ listed /\ byName # None  BY <1>3, <2>1 DEF Judge, CloseSession
  <2>2. CASE ~(~Spared /\ listed /\ byName # None)
    <3>1. UNCHANGED <<slot, byName, pending>>  BY <1>3, <2>2 DEF Judge
    <3> QED BY <3>1
  <2> QED BY <2>1, <2>2
<1>4. CASE List \/ Stop \/ Remove \/ Forget \/ Age \/ UNCHANGED vars
  <2>1. UNCHANGED <<slot, byName, pending>>
    BY <1>4 DEF List, Stop, Remove, Forget, Age, vars
  <2> QED BY <2>1
<1> QED BY <1>1, <1>2, <1>3, <1>4 DEF Next, Reap

(* However initializes, reclaims, ends and evictions interleave, no two    *)
(* sessions are ever being created or live on the Name: reserve claims it  *)
(* before the first await, and every close gives it up first.              *)
THEOREM SessionUnique == Spec => []OneSession
<1>1. Init => StatesOK /\ SessionInv
  <2>1. Init => StatesOK
    BY LanesAssumption, Zenon DEF Init, StatesOK
  <2>2. Init => SessionInv
    BY LanesAssumption DEF Init, SessionInv
  <2> QED BY <2>1, <2>2
<1>2. StatesOK /\ SessionInv /\ [Next]_vars => (StatesOK /\ SessionInv)'
  BY StatesStep, SessionStep
<1>3. SessionInv => OneSession
  <2> SUFFICES ASSUME SessionInv PROVE Cardinality(Taken) <= 1
    BY DEF OneSession
  <2>1. \A i, j \in Taken : i = j
    BY LanesAssumption DEF SessionInv, Taken
  <2>2. CASE Taken = {}
    <3>1. Cardinality(Taken) = 0  BY <2>2, FS_EmptySet
    <3> QED BY <3>1
  <2>3. CASE Taken # {}
    <3> PICK i \in Taken : TRUE
      BY <2>3
    <3>1. Taken = {i}
      BY <2>1
    <3> QED BY <3>1, FS_Singleton
  <2> QED BY <2>2, <2>3
<1> QED BY <1>1, <1>2, <1>3, PTL DEF Spec

-----------------------------------------------------------------------------
(* The counts, while the reaper drops no record.                           *)

LEMMA AddOne ==
  ASSUME NEW S, NEW x, IsFiniteSet(S), x \notin S
  PROVE  Cardinality(S \cup {x}) = Cardinality(S) + 1
BY FS_AddElement

LEMMA TakeOne ==
  ASSUME NEW S, NEW x, IsFiniteSet(S), x \in S
  PROVE  /\ Cardinality(S \ {x}) = Cardinality(S) - 1
         /\ Cardinality(S) \in Nat /\ Cardinality(S) > 0
<1>1. Cardinality(S \ {x}) = Cardinality(S) - 1  BY FS_RemoveElement
<1>2. Cardinality(S) \in Nat  BY FS_CardinalityType
<1>3. Cardinality(S) # 0  BY FS_EmptySet
<1> QED BY <1>1, <1>2, <1>3

LEMMA OpenClaimedFinite ==
  IsFiniteSet(Open) /\ IsFiniteSet(Open') /\ IsFiniteSet(Claimed) /\ IsFiniteSet(Claimed')
<1>1. Open \subseteq Sockets /\ Open' \subseteq Sockets
  BY DEF Open
<1>2. Claimed \subseteq Handshakes /\ Claimed' \subseteq Handshakes
  BY DEF Claimed
<1>3. \A S : S \subseteq Sockets => IsFiniteSet(S)
  BY FS_Subset, LanesAssumption DEF LanesAssumption
<1>4. \A S : S \subseteq Handshakes => IsFiniteSet(S)
  BY FS_Subset, LanesAssumption DEF LanesAssumption
<1> QED BY <1>1, <1>2, <1>3, <1>4

\* A claim is counted once, and only for a handshake still being answered.
ClaimInv ==
  /\ claims = Cardinality(Claimed)
  /\ \A h \in Claimed : shake[h] # "none"

LEMMA UnclaimStep ==
  ASSUME StatesOK, CountsOK, ClaimInv, NEW h \in Handshakes, Unclaim(h)
  PROVE  claims' = Cardinality(Claimed') /\ Claimed' = Claimed \ {h}
<1>1. Claimed' = Claimed \ {h}
  BY DEF Unclaim, Claimed, StatesOK
<1>2. CASE claimed[h]
  <2>1. h \in Claimed  BY <1>2 DEF Claimed
  <2>2. Cardinality(Claimed') = Cardinality(Claimed) - 1 /\ Cardinality(Claimed) > 0
    BY <1>1, <2>1, OpenClaimedFinite, TakeOne
  <2>3. claims' = Decrement(claims)  BY <1>2 DEF Unclaim
  <2> QED BY <1>1, <2>2, <2>3 DEF Decrement, CountsOK, ClaimInv
<1>3. CASE ~claimed[h]
  <2>1. Claimed' = Claimed  BY <1>1, <1>3 DEF Claimed
  <2>2. claims' = claims  BY <1>3 DEF Unclaim
  <2> QED BY <1>1, <2>1, <2>2 DEF ClaimInv
<1> QED BY <1>2, <1>3

LEMMA ClaimStep ==
  ASSUME StatesOK, CountsOK, ClaimInv, [Next]_vars
  PROVE  ClaimInv'
<1> USE DEF lane, registry, sessions, world, activity
<1>1. ASSUME NEW h \in Handshakes, Handshake(h) PROVE ClaimInv'
  <2>1. h \notin Claimed  BY <1>1 DEF ClaimInv, Handshake
  <2>2. Claimed' = Claimed \cup {h}  BY <1>1 DEF Handshake, Claimed, StatesOK
  <2>3. claims' = Cardinality(Claimed')
    BY <1>1, <2>1, <2>2, AddOne, OpenClaimedFinite DEF Handshake, ClaimInv
  <2>4. \A g \in Claimed' : shake'[g] # "none"
    BY <1>1, <2>2 DEF Handshake, ClaimInv, StatesOK, Claimed
  <2> QED BY <2>3, <2>4 DEF ClaimInv
<1>2. ASSUME NEW h \in Handshakes, HangUp(h) PROVE ClaimInv'
  BY <1>2, UnclaimStep DEF HangUp, ClaimInv
<1>3. ASSUME NEW h \in Handshakes, Reply(h) PROVE ClaimInv'
  <2>1. claims' = Cardinality(Claimed') /\ Claimed' = Claimed \ {h}
    BY <1>3, UnclaimStep DEF Reply
  <2>2. \A g \in Claimed' : shake'[g] # "none"
    BY <1>3, <2>1 DEF Reply, ClaimInv, StatesOK, Claimed
  <2> QED BY <2>1, <2>2 DEF ClaimInv
<1>4. CASE Provisioned \/ ProvisionFails \/ \E h \in Handshakes : LookedUp(h)
  <2>1. UNCHANGED <<claims, claimed>>  BY <1>4 DEF Provisioned, ProvisionFails, LookedUp
  <2>2. \A h \in Handshakes : shake[h] # "none" => shake'[h] # "none"
    BY <1>4 DEF Provisioned, ProvisionFails, LookedUp, StatesOK
  <2> QED BY <2>1, <2>2 DEF ClaimInv, Claimed
<1>5. CASE \/ \E i \in Slots : Mcp(i)
           \/ \E k \in Sockets : Upgrade(k) \/ DriverGone(k) \/ Resolved(k)
           \/ Reap \/ Age \/ UNCHANGED vars
  <2>1. UNCHANGED <<claims, claimed, shake>>
    BY <1>5 DEF Mcp, Initialize, Reclaim, Resume, Created, EndSession, Recycle, OpenStream,
         StreamEnds, Attach, Attached, CloseSession, Upgrade, DriverGone, Resolved,
         Reap, List, Judge, Stop, Remove, Forget, Age, vars
  <2> QED BY <2>1 DEF ClaimInv, Claimed
<1> QED BY <1>1, <1>2, <1>3, <1>4, <1>5 DEF Next, Cdp

\* Without the reaper a record outlives the sockets it counts, the holder is
\* the driver of each, and no session shares the Name with them.
SocketInv ==
  /\ reaper = "none"
  /\ cdp = Cardinality(Open)
  /\ cdp > 0 => record
  /\ \A k \in Open : holder = DriverOf[k]
  /\ Open # {} => Taken = {}

LEMMA NoReap ==
  ASSUME ~Reaping, SocketInv
  PROVE  ~Reap
BY DEF SocketInv, Reap, List, Judge, Stop, Remove, Forget

LEMMA OpenCounted ==
  ASSUME SocketInv
  PROVE  HasCdp <=> Open # {}
<1>1. Cardinality(Open) \in Nat  BY OpenClaimedFinite, FS_CardinalityType
<1>2. Cardinality(Open) = 0 <=> Open = {}  BY OpenClaimedFinite, FS_EmptySet
<1> QED BY <1>1, <1>2 DEF SocketInv, HasCdp

\* A Name the registry does not have is in no slot's hands.
LEMMA NoneTaken ==
  ASSUME SessionInv, ~Has
  PROVE  Taken = {}
BY LanesAssumption DEF SessionInv, Has, Taken, LanesAssumption

\* The last socket to go takes the count to zero and the holder with it.
LEMMA ReleaseStep ==
  ASSUME StatesOK, CountsOK, SocketInv, NEW k \in Open, ReleaseLane, Open' = Open \ {k}
  PROVE  /\ cdp' = Cardinality(Open')
         /\ cdp' > 0 => record'
         /\ \A j \in Open' : holder' = DriverOf[j]
<1>1. Cardinality(Open') = Cardinality(Open) - 1 /\ Cardinality(Open) \in Nat /\ Cardinality(Open) > 0
  BY OpenClaimedFinite, TakeOne
<1>2. cdp = Cardinality(Open) /\ cdp > 0
  BY <1>1 DEF SocketInv
<1>3. record
  BY <1>2 DEF SocketInv
<1>4. cdp' = Decrement(cdp) /\ UNCHANGED record
  BY <1>3 DEF ReleaseLane, CdpClosed
<1>5. cdp' = Cardinality(Open')
  BY <1>1, <1>2, <1>4 DEF Decrement, CountsOK
<1>6. \A j \in Open' : holder' = DriverOf[j]
  <2> SUFFICES ASSUME NEW j \in Open' PROVE holder' = DriverOf[j]
    OBVIOUS
  <2>1. Cardinality(Open') # 0  BY OpenClaimedFinite, FS_EmptySet
  <2>2. holder' = holder  BY <1>5, <2>1 DEF ReleaseLane
  <2> QED BY <2>2 DEF SocketInv
<1> QED BY <1>3, <1>4, <1>5, <1>6

LEMMA SocketStep ==
  ASSUME ~Reaping, StatesOK, CountsOK, SessionInv, SocketInv, [Next]_vars
  PROVE  SocketInv'
<1> USE DEF lane, registry, sessions, world, activity
<1>1. ASSUME NEW k \in Sockets, Upgrade(k) PROVE SocketInv'
  <2>1. k \notin Open /\ Open' = Open \cup {k}
    BY <1>1 DEF Upgrade, Open, StatesOK
  <2>2. cdp' = Cardinality(Open')
    BY <1>1, <2>1, AddOne, OpenClaimedFinite DEF Upgrade, CdpOpened, SocketInv
  <2>3. Taken' = {}
    BY <1>1, NoneTaken DEF Upgrade, Free, Taken
  <2>4. \A j \in Open : DriverOf[j] = DriverOf[k]
    BY <1>1, OpenCounted DEF Upgrade, Free, SocketInv
  <2>5. record' /\ holder' = DriverOf[k] /\ reaper' = reaper
    BY <1>1 DEF Upgrade, CdpOpened, Touch
  <2> QED BY <2>1, <2>2, <2>3, <2>4, <2>5 DEF SocketInv
<1>2. ASSUME NEW k \in Sockets, DriverGone(k) PROVE SocketInv'
  <2>1. k \in Open /\ Open' = Open \ {k}
    BY <1>2 DEF DriverGone, Open, StatesOK
  <2>2. ReleaseLane /\ UNCHANGED <<reaper, slot>>
    BY <1>2 DEF DriverGone
  <2> QED BY <2>1, <2>2, ReleaseStep DEF SocketInv, Taken
<1>3. ASSUME NEW k \in Sockets, Resolved(k) PROVE SocketInv'
  <2>1. CASE Open' = Open
    <3>1. UNCHANGED <<cdp, record, holder, reaper, slot>>
      BY <1>3, <2>1 DEF Resolved, Open, StatesOK
    <3> QED BY <2>1, <3>1 DEF SocketInv, Taken
  <2>2. CASE Open' # Open
    <3>1. k \in Open /\ Open' = Open \ {k} /\ ReleaseLane /\ UNCHANGED <<reaper, slot>>
      BY <1>3, <2>2 DEF Resolved, Open, StatesOK
    <3> QED BY <3>1, ReleaseStep DEF SocketInv, Taken
  <2> QED BY <2>1, <2>2
<1>4. ASSUME NEW i \in Slots, Mcp(i) PROVE SocketInv'
  <2>1. UNCHANGED <<socket, holder, cdp, reaper>> /\ (record => record')
    BY <1>4 DEF Mcp, Initialize, Reserve, Reclaim, Resume, Created, EndSession, Recycle,
         OpenStream, StreamEnds, Attach, Attached, CloseSession, StreamOpened, StreamClosed, Touch
  <2>2. Open' = Open
    BY <2>1 DEF Open
  <2>3. Open # {} => Taken' \subseteq Taken
    <3> SUFFICES ASSUME HasCdp PROVE Taken' \subseteq Taken
      BY OpenCounted
    <3> QED BY <1>4 DEF Mcp, Initialize, Reclaim, Resume, Created, EndSession, Recycle,
              OpenStream, StreamEnds, Attach, Attached, HeldByCdp, Taken, StatesOK
  <2> QED BY <2>1, <2>2, <2>3 DEF SocketInv
<1>5. CASE \/ Provisioned \/ ProvisionFails \/ Age \/ UNCHANGED vars
           \/ \E h \in Handshakes : Handshake(h) \/ HangUp(h) \/ LookedUp(h) \/ Reply(h)
  <2>1. UNCHANGED <<socket, holder, cdp, reaper, slot>> /\ (record => record')
    BY <1>5 DEF Provisioned, ProvisionFails, Age, vars, Handshake, HangUp, LookedUp, Reply,
       Touch
  <2> QED BY <2>1 DEF SocketInv, Open, Taken
<1>6. ~Reap
  BY NoReap
<1> QED BY <1>1, <1>2, <1>3, <1>4, <1>5, <1>6 DEF Next, Cdp

\* The invariant both theorems below rest on.
LaneInv == StatesOK /\ CountsOK /\ SessionInv /\ ClaimInv /\ SocketInv

LEMMA LaneInvariant == ~Reaping => (Spec => []LaneInv)
<1> SUFFICES ASSUME ~Reaping PROVE Spec => []LaneInv
  OBVIOUS
<1>1. Init => LaneInv
  <2> SUFFICES ASSUME Init PROVE LaneInv
    OBVIOUS
  <2>1. StatesOK  BY LanesAssumption, Zenon DEF Init, StatesOK
  <2>2. CountsOK  BY DEF Init, CountsOK
  <2>3. SessionInv  BY LanesAssumption DEF Init, SessionInv
  <2>4. Claimed = {} /\ Open = {}  BY DEF Init, Claimed, Open
  <2>5. Cardinality(Claimed) = 0 /\ Cardinality(Open) = 0  BY <2>4, FS_EmptySet
  <2> QED BY <2>1, <2>2, <2>3, <2>4, <2>5 DEF Init, LaneInv, ClaimInv, SocketInv
<1>2. LaneInv /\ [Next]_vars => LaneInv'
  BY StatesStep, CountsStep, SessionStep, ClaimStep, SocketStep DEF LaneInv
<1> QED BY <1>1, <1>2, PTL DEF Spec

(* While the reaper keeps its hands off, the registry's counts are the     *)
(* truth in every state: an unpaired claim or release, or one too many,    *)
(* would leave a lane held by nobody or free under a driver.               *)
THEOREM CountsAccurate == ~Reaping => (Spec => []LaneAccounted)
<1>1. LaneInv => LaneAccounted
  BY DEF LaneInv, ClaimInv, SocketInv, LaneAccounted
<1> QED BY <1>1, LaneInvariant, PTL

-----------------------------------------------------------------------------
(* The lane lock.                                                          *)

Holders == Taken \cup { DriverOf[k] : k \in Open }

\* Whoever is left when a socket goes is the same driver, or nobody.
LEMMA HoldersShrink ==
  ASSUME LaneInv, NEW k \in Open, Open' = Open \ {k}, Taken' = Taken
  PROVE  Holders' = Holders \/ (Holders # {} /\ Holders' = {})
<1>1. Taken = {} /\ \A j \in Open : DriverOf[j] = DriverOf[k]
  BY DEF LaneInv, SocketInv
<1> QED BY <1>1 DEF Holders

LEMMA LockStep ==
  ASSUME ~Reaping, LaneInv, [Next]_vars
  PROVE  \/ Holders' = Holders
         \/ Holders # {} /\ Holders' = {}
         \/ \E p \in Slots \cup Drivers : Holders = {} /\ Holders' = {p}
<1> USE DEF lane, registry, sessions, world, activity
<1>0. StatesOK /\ SessionInv /\ SocketInv
  BY DEF LaneInv
<1>1. ASSUME NEW i \in Slots, Mcp(i)
      PROVE  \/ Holders' = Holders
             \/ Holders # {} /\ Holders' = {}
             \/ \E p \in Slots \cup Drivers : Holders = {} /\ Holders' = {p}
  <2>0. Open' = Open
    BY <1>1 DEF Mcp, Initialize, Reclaim, Resume, Created, EndSession, Recycle, OpenStream,
         StreamEnds, Attach, Attached, Open
  <2>1. CASE Reserve(i) /\ ~HeldByCdp
    <3>1. Taken = {}  BY <1>0, <2>1, NoneTaken DEF Reserve
    <3>2. Open = {}  BY <1>0, <2>1, OpenCounted DEF HeldByCdp
    <3>3. Taken' = {i}  BY <1>0, <2>1, <3>1 DEF Reserve, Taken, StatesOK
    <3> QED BY <2>0, <3>1, <3>2, <3>3 DEF Holders
  <2>2. CASE Reclaim(i) \/ EndSession(i)
    <3>1. byName # None /\ Taken = {byName} /\ Taken' = {}
      BY <1>0, <2>2, LanesAssumption DEF Reclaim, EndSession, SessionInv, Taken, StatesOK, LanesAssumption
    <3>2. Open = {}  BY <1>0, <3>1 DEF SocketInv
    <3> QED BY <2>0, <3>1, <3>2 DEF Holders
  <2>3. CASE Created(i)
    <3>1. Taken = {i} /\ (Taken' = {i} \/ Taken' = {})
      BY <1>0, <2>3, LanesAssumption DEF Created, SessionInv, Taken, StatesOK, LanesAssumption
    <3>2. Open = {}  BY <1>0, <3>1 DEF SocketInv
    <3> QED BY <2>0, <3>1, <3>2 DEF Holders
  <2>4. CASE \/ Resume(i) /\ ~(Reserve(i) /\ ~HeldByCdp)
             \/ Recycle(i) \/ OpenStream(i) \/ StreamEnds(i) \/ Attach(i) \/ Attached(i)
    <3>1. Taken' = Taken
      BY <1>0, <2>4 DEF Resume, Recycle, OpenStream, StreamEnds, Attach, Attached, Taken, StatesOK
    <3> QED BY <2>0, <3>1 DEF Holders
  <2> QED BY <1>1, <2>1, <2>2, <2>3, <2>4 DEF Mcp, Initialize, Resume
<1>2. ASSUME NEW k \in Sockets, Upgrade(k)
      PROVE  \/ Holders' = Holders
             \/ \E p \in Slots \cup Drivers : Holders = {} /\ Holders' = {p}
  <2>1. Taken = {} /\ Taken' = {}
    BY <1>0, <1>2, NoneTaken DEF Upgrade, Free, Taken
  <2>2. Open' = Open \cup {k}
    BY <1>0, <1>2 DEF Upgrade, Open, StatesOK
  <2>3. \A j \in Open : DriverOf[j] = DriverOf[k]
    BY <1>0, <1>2, OpenCounted DEF Upgrade, Free, SocketInv
  <2>4. DriverOf[k] \in Drivers
    BY LanesAssumption DEF LanesAssumption
  <2>5. Holders' = {DriverOf[k]}
    BY <2>1, <2>2, <2>3 DEF Holders
  <2>6. Holders = {} \/ Holders = {DriverOf[k]}
    BY <2>1, <2>3 DEF Holders
  <2> QED BY <2>4, <2>5, <2>6
<1>3. ASSUME NEW k \in Sockets, DriverGone(k)
      PROVE  Holders' = Holders \/ (Holders # {} /\ Holders' = {})
  <2>1. k \in Open /\ Open' = Open \ {k} /\ Taken' = Taken
    BY <1>0, <1>3 DEF DriverGone, Open, Taken, StatesOK
  <2> QED BY <2>1, HoldersShrink
<1>4. ASSUME NEW k \in Sockets, Resolved(k)
      PROVE  Holders' = Holders \/ (Holders # {} /\ Holders' = {})
  <2>1. Taken' = Taken /\ (Open' = Open \/ (k \in Open /\ Open' = Open \ {k}))
    BY <1>0, <1>4 DEF Resolved, Open, Taken, StatesOK
  <2> QED BY <2>1, HoldersShrink DEF Holders
<1>5. CASE \/ Provisioned \/ ProvisionFails \/ Age \/ UNCHANGED vars
           \/ \E h \in Handshakes : Handshake(h) \/ HangUp(h) \/ LookedUp(h) \/ Reply(h)
  <2>1. UNCHANGED <<socket, slot>>
    BY <1>5 DEF Provisioned, ProvisionFails, Age, vars, Handshake, HangUp, LookedUp, Reply
  <2> QED BY <2>1 DEF Holders, Open, Taken
<1>6. ~Reap
  BY <1>0, NoReap
<1> QED BY <1>1, <1>2, <1>3, <1>4, <1>5, <1>6 DEF Next, Cdp

(* Without the reaper the two lanes implement the lane lock, for any       *)
(* number of clients, sockets and handshakes: the await in the reclaim     *)
(* path, the upgrade's lookup and the grace of an abandoned socket never   *)
(* let a second party in.                                                  *)
THEOREM LanesImplementLock == ~Reaping => (Spec => LockSpec)
<1> SUFFICES ASSUME ~Reaping PROVE Spec => LockSpec
  OBVIOUS
<1>1. Init => Lock!Init
  <2> SUFFICES ASSUME Init PROVE Holders = {}
    BY DEF Lock!Init, Holders
  <2> QED BY DEF Init, Holders, Taken, Open
<1>2. LaneInv /\ [Next]_vars => [Lock!Next]_Holders
  BY LockStep DEF Lock!Next, Lock!Acquire, Lock!Release, Holders
<1>3. Holders = Taken \cup { DriverOf[k] : k \in Open }
  BY DEF Holders
<1> QED BY <1>1, <1>2, <1>3, LaneInvariant, PTL DEF Spec, LockSpec, Lock!Spec, Holders

-----------------------------------------------------------------------------
(* The event streams, while the reaper drops no record.                    *)

Streaming == { i \in Slots : stream[i] # "none" }

\* Every event stream is counted, on a record that outlives it, and an open one
\* is a live session's.
StreamInv ==
  /\ streams = Cardinality(Streaming)
  /\ streams > 0 => record
  /\ \A i \in Slots : stream[i] = "open" => slot[i] = "live"
  /\ \A i \in Slots : stream[i] # "none" => slot[i] \in {"live", "closed"}

LEMMA StreamingFinite == IsFiniteSet(Streaming) /\ Cardinality(Streaming) \in Nat
<1>1. Streaming \subseteq Slots
  BY DEF Streaming
<1>2. IsFiniteSet(Streaming)
  BY <1>1, FS_Subset, LanesAssumption DEF LanesAssumption
<1> QED BY <1>2, FS_CardinalityType

\* A session that is closed ends its stream, and is let go with it still counted.
LEMMA CloseKeepsStreams ==
  ASSUME StatesOK, StreamInv, NEW i \in Slots, CloseSession(i),
         slot'[i] = "closed", \A j \in Slots : j # i /\ stream[j] # "none" => slot'[j] = slot[j]
  PROVE  StreamInv'
<1>1. Streaming' = Streaming
  BY DEF CloseSession, Streaming, StatesOK
<1>2. streams' = streams /\ record'
  BY DEF CloseSession, Touch
<1> QED BY <1>1, <1>2 DEF StreamInv, CloseSession, StatesOK

LEMMA StreamStep ==
  ASSUME ~Reaping, LaneInv, StreamInv, [Next]_vars
  PROVE  StreamInv'
<1> USE DEF lane, registry, sessions, world, activity
<1>0. StatesOK /\ CountsOK /\ SessionInv /\ SocketInv
  BY DEF LaneInv
<1>1. ASSUME UNCHANGED <<stream, streams>>, record => record',
             \A i \in Slots : stream[i] # "none" => slot'[i] = slot[i]
      PROVE  StreamInv'
  BY <1>1 DEF StreamInv, Streaming
<1>2. ASSUME NEW i \in Slots, Mcp(i) PROVE StreamInv'
  <2>1. CASE Initialize(i) \/ Resume(i) \/ Created(i) \/ Recycle(i)
    <3>1. stream[i] = "none"
      BY <2>1 DEF Initialize, Resume, Created, Recycle, StreamInv
    <3> QED BY <1>0, <1>1, <2>1, <3>1 DEF Initialize, Resume, Created, Recycle, Reserve, Touch, StatesOK
  <2>2. CASE Reclaim(i)
    <3>1. byName \in Slots /\ slot[byName] = "live" /\ stream[i] = "none"
      BY <1>0, <2>2, LanesAssumption DEF Reclaim, SessionInv, StatesOK, StreamInv
    <3> QED BY <1>0, <2>2, <3>1, CloseKeepsStreams DEF Reclaim, StatesOK
  <2>3. CASE EndSession(i)
    BY <1>0, <2>3, CloseKeepsStreams DEF EndSession, StatesOK
  <2>4. CASE OpenStream(i)
    <3>1. i \notin Streaming /\ Streaming' = Streaming \cup {i}
      BY <1>0, <2>4 DEF OpenStream, Streaming, StatesOK
    <3>2. streams' = Cardinality(Streaming') /\ record'
      BY <2>4, <3>1, AddOne, StreamingFinite DEF OpenStream, StreamOpened, Touch, StreamInv
    <3> QED BY <1>0, <2>4, <3>2 DEF OpenStream, StreamInv, StatesOK
  <2>5. CASE StreamEnds(i)
    <3>1. i \in Streaming /\ Streaming' = Streaming \ {i}
      BY <1>0, <2>5 DEF StreamEnds, Streaming, StatesOK
    <3>2. Cardinality(Streaming') = Cardinality(Streaming) - 1 /\ Cardinality(Streaming) > 0
      BY <3>1, TakeOne, StreamingFinite
    <3>3. streams' = Cardinality(Streaming') /\ record' = record
      BY <1>0, <2>5, <3>2, StreamingFinite
      DEF StreamEnds, StreamClosed, Decrement, StreamInv, CountsOK
    <3>4. record
      BY <3>2 DEF StreamInv
    <3> QED BY <1>0, <2>5, <3>3, <3>4 DEF StreamEnds, StreamInv, StatesOK
  <2>6. CASE Attach(i) \/ Attached(i)
    BY <1>1, <2>6 DEF Attach, Attached, Touch
  <2> QED BY <1>2, <2>1, <2>2, <2>3, <2>4, <2>5, <2>6 DEF Mcp
<1>3. CASE Cdp
  <2>1. UNCHANGED <<slot, stream, streams>> /\ (record => record')
    BY <1>3 DEF Cdp, Provisioned, ProvisionFails, Handshake, HangUp, LookedUp, Reply, Upgrade,
         CdpOpened, DriverGone, Resolved, ReleaseLane, CdpClosed, Touch
  <2> QED BY <1>1, <2>1
<1>4. CASE Age \/ UNCHANGED vars
  BY <1>1, <1>4 DEF Age, vars
<1>5. ~Reap
  BY <1>0, NoReap
<1> QED BY <1>2, <1>3, <1>4, <1>5 DEF Next

(* While the reaper keeps its hands off, an initialize never takes a Name  *)
(* from a client whose event stream is open (streamOpened, server.ts): the *)
(* stream is counted until it ends, however sessions come and go.          *)
THEOREM AttachedStay == ~Reaping => (Spec => AttachedNotReclaimed)
<1> SUFFICES ASSUME ~Reaping PROVE Spec => AttachedNotReclaimed
  OBVIOUS
<1>1. Init => StreamInv
  <2> SUFFICES ASSUME Init PROVE StreamInv
    OBVIOUS
  <2>1. Streaming = {}
    BY DEF Init, Streaming
  <2>2. Cardinality(Streaming) = 0
    BY <2>1, FS_EmptySet
  <2> QED BY <2>2 DEF Init, StreamInv
<1>2. LaneInv /\ StreamInv /\ [Next]_vars => StreamInv'
  BY StreamStep
<1>3. ASSUME LaneInv, StreamInv, Next, NEW i \in Slots, NEW j \in Slots,
             stream[i] = "open", slot[j] = "free", slot'[j] = "closing"
      PROVE  slot'[i] = slot[i]
  <2>0. StatesOK /\ SessionInv /\ SocketInv
    BY <1>3 DEF LaneInv
  <2>1. ~Reap
    BY <2>0, NoReap
  <2>2. ~Cdp /\ ~Age
    BY <1>3 DEF Cdp, Provisioned, ProvisionFails, Handshake, HangUp, LookedUp, Reply, Upgrade,
         DriverGone, Resolved, Age, sessions
  <2>3. PICK n \in Slots : Mcp(n)
    BY <1>3, <2>1, <2>2 DEF Next
  <2>4. Reclaim(n)
    BY <1>3, <2>0, <2>3 DEF Mcp, Initialize, Resume, Reserve, Created, EndSession, Recycle,
         OpenStream, StreamEnds, Attach, Attached, sessions, StatesOK
  <2>5. i \in Streaming /\ streams > 0 /\ record
    <3>1. i \in Streaming
      BY <1>3 DEF Streaming
    <3> QED BY <1>3, <3>1, TakeOne, StreamingFinite DEF StreamInv
  <2> QED BY <2>4, <2>5 DEF Reclaim
<1>4. LaneInv /\ StreamInv =>
        [Next => \A i \in Slots : \A j \in Slots :
           stream[i] = "open" /\ slot[j] = "free" /\ slot'[j] = "closing" => slot'[i] = slot[i]]_vars
  BY <1>3
<1> QED BY <1>1, <1>2, <1>4, LaneInvariant, PTL DEF Spec, AttachedNotReclaimed
=============================================================================
