-------------------------- MODULE ClientBridgeProofs --------------------------
(***************************************************************************)
(* What holds of the stdio side for any number of requests, link failures, *)
(* gateway restarts and deaths of the process.                             *)
(***************************************************************************)
EXTENDS ClientBridge, TLAPS

-----------------------------------------------------------------------------
(* Types, and one transport at a time, whatever scheduleReconnect is at.   *)

LinkInv ==
  /\ Running /\ reconnect = "none" => http = generation
  /\ reconnect \in {"none", "closing"} => open \subseteq {http}
  /\ reconnect \in {"attempt", "over"} => open = {}
  /\ reconnect \in {"replay", "ack", "failed"} => open \subseteq {generation}
  /\ proc = "down" => open = {}

GenInv == generation \in Nat \ {0}

\* Generations are handed out one by one, and events come from open transports.
LEMMA TypeStep ==
  ASSUME TypeOK, GenInv, LinkInv, [Next]_vars
  PROVE  TypeOK' /\ GenInv'
<1> USE DEF TypeOK, GenInv, Generations
<1>1. CASE SendHello
  <2>1. Hello \in Requests
    BY DEF Requests
  <2>2. /\ at' \in [Requests -> 0..generation] /\ replies' \in [Requests -> Nat]
        /\ inflight' \subseteq Requests
    BY <1>1, <2>1 DEF SendHello, Forward
  <2>3. initFrame' = "own" /\ initFile' \in {"none", "own", "old", "off"}
        /\ astray' \in BOOLEAN
    BY <1>1 DEF SendHello, KeepFrame, FileFails
  <2> QED BY <1>1, <2>2, <2>3 DEF SendHello, link, gateway
<1>2. CASE SendInitialized
  BY ClientAssumption, <1>2
  DEF SendInitialized, vars, link, frame, traffic, gateway
<1>3. CASE Heartbeat
  BY ClientAssumption, <1>3
  DEF Heartbeat, vars, link, frame, traffic, gateway
<1>4. ASSUME NEW r \in Requests, SendCall(r) PROVE TypeOK' /\ GenInv'
  BY ClientAssumption, <1>4
  DEF SendCall, Forward, vars, link, frame, traffic, gateway
<1>5. ASSUME NEW r \in Requests, Reply(r) PROVE TypeOK' /\ GenInv'
  BY ClientAssumption, <1>5
  DEF Reply, Answer, HelloAnswered, vars, link, frame, traffic, gateway
<1>6. ASSUME NEW r \in Requests, SendFails(r) PROVE TypeOK' /\ GenInv'
  <2>1. /\ at' \in [Requests -> 0..generation] /\ replies' \in [Requests -> Nat]
        /\ inflight' \subseteq Requests
    BY <1>6 DEF SendFails, FailAllInflight, Answer
  <2>2. client' \in {"start", "hello", "greeted", "ready", "refused"}
    BY <1>6 DEF SendFails, HelloAnswered
  <2>3. ready' \in BOOLEAN /\ reconnect' \in {reconnect, "closing"}
    BY <1>6 DEF SendFails, Reconnect
  <2> QED BY <1>6, <2>1, <2>2, <2>3 DEF SendFails, frame, gateway
<1>7. ASSUME NEW g \in Generations, PostTaken(g) PROVE TypeOK' /\ GenInv'
  BY ClientAssumption, <1>7
  DEF PostTaken, vars, link, frame, traffic, gateway
<1>8. ASSUME NEW g \in Generations, PostFails(g) PROVE TypeOK' /\ GenInv'
  <2>1. LinkLost(g)
    BY <1>8 DEF PostFails
  <2>2. /\ at' = at /\ replies' \in [Requests -> Nat] /\ inflight' \subseteq Requests
    BY <2>1 DEF LinkLost, FailAllInflight, Answer
  <2>3. client' \in {"start", "hello", "greeted", "ready", "refused"}
    BY <2>1 DEF LinkLost, HelloAnswered
  <2>4. ready' \in BOOLEAN /\ reconnect' \in {reconnect, "closing"}
    BY <2>1 DEF LinkLost, Reconnect
  <2> QED BY <1>8, <2>2, <2>3, <2>4 DEF PostFails, frame, gateway
<1>9. ASSUME NEW g \in Generations, LinkEvent(g) PROVE TypeOK' /\ GenInv'
  <2>1. LinkLost(g)
    BY <1>9 DEF LinkEvent
  <2>2. /\ at' = at /\ replies' \in [Requests -> Nat] /\ inflight' \subseteq Requests
    BY <2>1 DEF LinkLost, FailAllInflight, Answer
  <2>3. client' \in {"start", "hello", "greeted", "ready", "refused"}
    BY <2>1 DEF LinkLost, HelloAnswered
  <2>4. ready' \in BOOLEAN /\ reconnect' \in {reconnect, "closing"}
    BY <2>1 DEF LinkLost, Reconnect
  <2> QED BY <1>9, <2>2, <2>3, <2>4 DEF LinkEvent, frame
<1>10. ASSUME NEW g \in Generations, Breaks(g) PROVE TypeOK' /\ GenInv'
  BY ClientAssumption, <1>10
  DEF Breaks, vars, link, frame, traffic, gateway
<1>11. CASE OldClosed
  BY ClientAssumption, <1>11
  DEF OldClosed, vars, link, frame, traffic, gateway
<1>12. CASE Attempt
  BY ClientAssumption, <1>12
  DEF Attempt, vars, link, frame, traffic, gateway
<1>13. CASE Replayed
  BY ClientAssumption, <1>13
  DEF Replayed, vars, link, frame, traffic, gateway
<1>14. CASE Restored
  BY ClientAssumption, <1>14
  DEF Restored, Rearm, vars, link, frame, traffic, gateway
<1>15. CASE AttemptFails
  BY ClientAssumption, <1>15
  DEF AttemptFails, vars, link, frame, traffic, gateway
<1>16. CASE Retry
  BY ClientAssumption, <1>16
  DEF Retry, CloseAttempt, vars, link, frame, traffic, gateway
<1>17. CASE Shutdown
  <2>1. initFile' \in {"none", "own", "old", "off"}
    BY <1>17 DEF Shutdown, FileFails
  <2>2. /\ replies' \in [Requests -> Nat] /\ inflight' \subseteq Requests
        /\ client' \in {"start", "hello", "greeted", "ready", "refused"}
    BY <1>17 DEF Shutdown, FailAllInflight, Answer, HelloAnswered
  <2> QED BY <1>17, <2>1, <2>2 DEF Shutdown
<1>18. CASE Exit
  BY ClientAssumption, <1>18
  DEF Exit, vars, link, frame, traffic, gateway
<1>19. CASE Crash
  BY ClientAssumption, <1>19
  DEF Crash, vars, link, frame, traffic, gateway
<1>20. CASE SupervisorEnds
  BY ClientAssumption, <1>20
  DEF SupervisorEnds, vars, link, frame, traffic, gateway
<1>21. CASE Respawn
  <2>1. /\ generation' = generation + 1
        /\ 0..generation \subseteq 0..generation' /\ 1..generation \subseteq 1..generation'
        /\ generation' \in 1..generation'
    BY <1>21 DEF Respawn
  <2>2. /\ at' \in [Requests -> 0..generation'] /\ replies' \in [Requests -> Nat]
        /\ inflight' \subseteq Requests
    BY <1>21, <2>1 DEF Respawn, traffic
  <2>3. /\ posts' \subseteq 1..generation' /\ open' \subseteq 1..generation'
        /\ sound' \subseteq 1..generation' /\ served' \subseteq 1..generation'
    <3>1. /\ posts' = posts /\ served' = served /\ open' = {generation'}
          /\ sound' = sound \cup {generation'}
      BY <1>21 DEF Respawn
    <3>2. posts \subseteq 1..generation /\ sound \subseteq 1..generation /\ served \subseteq 1..generation
      OBVIOUS
    <3> QED BY <2>1, <3>1, <3>2
  <2>4. events' = {}
    BY <1>21 DEF Respawn, LinkInv
  <2>5. /\ proc' = "up" /\ generation' \in Nat \ {0} /\ http' \in Nat /\ ready' = FALSE
        /\ reconnect' = "none" /\ initFrame' \in {"none", "own", "old"} /\ initFile' = initFile
        /\ astray' = astray /\ client' = client /\ lost' = lost /\ faults' = faults /\ crashes' = crashes
    BY <1>21 DEF Respawn, Recovered
  <2>6. \A G \in {posts', open', sound', served'} : G \subseteq 1..generation'
    BY <2>3
  <2> QED BY <2>2, <2>4, <2>5, <2>6
<1>22. CASE UNCHANGED vars
  BY ClientAssumption, <1>22
  DEF vars, link, frame, traffic, gateway
<1>23. CASE Neighbour
  BY <1>23 DEF Neighbour, link, traffic, gateway
<1> QED BY <1>1, <1>2, <1>3, <1>4, <1>5, <1>6, <1>7, <1>8, <1>9, <1>10, <1>11, <1>12, <1>13,
      <1>14, <1>15, <1>16, <1>17, <1>18, <1>19, <1>20, <1>21, <1>22, <1>23 DEF Next, Rebuild

LEMMA LinkStep ==
  ASSUME LinkInv, [Next]_vars
  PROVE  LinkInv'
<1> USE DEF LinkInv, Running
<1>1. CASE SendHello
  BY <1>1
  DEF SendHello, KeepFrame, Forward, vars, link, frame, traffic, gateway
<1>2. CASE SendInitialized
  BY <1>2
  DEF SendInitialized, vars, link, frame, traffic, gateway
<1>3. CASE Heartbeat
  BY <1>3
  DEF Heartbeat, vars, link, frame, traffic, gateway
<1>4. ASSUME NEW r \in Requests, SendCall(r) PROVE LinkInv'
  BY <1>4
  DEF SendCall, Forward, vars, link, frame, traffic, gateway
<1>5. ASSUME NEW r \in Requests, Reply(r) PROVE LinkInv'
  BY <1>5
  DEF Reply, Answer, HelloAnswered, vars, link, frame, traffic, gateway
<1>6. ASSUME NEW r \in Requests, SendFails(r) PROVE LinkInv'
  BY <1>6
  DEF SendFails, FailAllInflight, Answer, Unfailed, HelloAnswered, Reconnect,
      Reconnects, MayReconnect, vars, link, frame, traffic, gateway
<1>7. ASSUME NEW g \in Generations, PostTaken(g) PROVE LinkInv'
  BY <1>7
  DEF PostTaken, vars, link, frame, traffic, gateway
<1>8. ASSUME NEW g \in Generations, PostFails(g) PROVE LinkInv'
  BY <1>8
  DEF PostFails, LinkLost, FailAllInflight, Answer, HelloAnswered, Reconnect,
      Reconnects, MayReconnect, vars, link, frame, traffic, gateway
<1>9. ASSUME NEW g \in Generations, LinkEvent(g) PROVE LinkInv'
  BY <1>9
  DEF LinkEvent, LinkLost, FailAllInflight, Answer, HelloAnswered, Reconnect,
      Reconnects, MayReconnect, vars, link, frame, traffic, gateway
<1>10. ASSUME NEW g \in Generations, Breaks(g) PROVE LinkInv'
  BY <1>10
  DEF Breaks, vars, link, frame, traffic, gateway
<1>11. CASE OldClosed
  BY <1>11
  DEF OldClosed, vars, link, frame, traffic, gateway
<1>12. CASE Attempt
  BY <1>12
  DEF Attempt, vars, link, frame, traffic, gateway
<1>13. CASE Replayed
  BY <1>13
  DEF Replayed, vars, link, frame, traffic, gateway
<1>14. CASE Restored
  BY <1>14
  DEF Restored, Rearm, vars, link, frame, traffic, gateway
<1>15. CASE AttemptFails
  BY <1>15
  DEF AttemptFails, vars, link, frame, traffic, gateway
<1>16. CASE Retry
  BY <1>16
  DEF Retry, CloseAttempt, vars, link, frame, traffic, gateway
<1>17. CASE Shutdown
  BY <1>17
  DEF Shutdown, FailAllInflight, Answer, HelloAnswered, vars, link, frame, traffic,
      gateway
<1>18. CASE Exit
  BY <1>18
  DEF Exit, vars, link, frame, traffic, gateway
<1>19. CASE Crash
  BY <1>19
  DEF Crash, vars, link, frame, traffic, gateway
<1>20. CASE SupervisorEnds
  BY <1>20
  DEF SupervisorEnds, vars, link, frame, traffic, gateway
<1>21. CASE Respawn
  BY <1>21
  DEF Respawn, Recovered, vars, link, frame, traffic, gateway
<1>22. CASE UNCHANGED vars
  BY <1>22
  DEF vars, link, frame, traffic, gateway
<1>23. CASE Neighbour
  BY <1>23 DEF Neighbour, link, traffic, gateway
<1> QED BY <1>1, <1>2, <1>3, <1>4, <1>5, <1>6, <1>7, <1>8, <1>9, <1>10, <1>11, <1>12, <1>13,
      <1>14, <1>15, <1>16, <1>17, <1>18, <1>19, <1>20, <1>21, <1>22, <1>23 DEF Next, Rebuild

-----------------------------------------------------------------------------
(* What is in flight rides on the current link, and a rebuild starts by    *)
(* failing it all.                                                         *)

RideInv ==
  /\ reconnect # "none" \/ proc = "down" => inflight = {}
  /\ Running => \A r \in inflight : at[r] = generation
  /\ proc = "down" => \A r \in Requests : at[r] = 0

LEMMA RideStep ==
  ASSUME TypeOK, RideInv, [Next]_vars
  PROVE  RideInv'
<1> USE DEF RideInv, Running, TypeOK
<1>1. CASE SendHello
  <2>1. Hello \in Requests
    BY DEF Requests
  <2> QED BY <1>1, <2>1 DEF SendHello, Forward, link
<1>2. CASE SendInitialized
  BY <1>2
  DEF SendInitialized, vars, link, frame, traffic, gateway
<1>3. CASE Heartbeat
  BY <1>3
  DEF Heartbeat, vars, link, frame, traffic, gateway
<1>4. ASSUME NEW r \in Requests, SendCall(r) PROVE RideInv'
  BY <1>4
  DEF SendCall, Forward, vars, link, frame, traffic, gateway
<1>5. ASSUME NEW r \in Requests, Reply(r) PROVE RideInv'
  BY <1>5
  DEF Reply, Answer, HelloAnswered, vars, link, frame, traffic, gateway
<1>6. ASSUME NEW r \in Requests, SendFails(r) PROVE RideInv'
  BY <1>6
  DEF SendFails, FailAllInflight, Answer, Unfailed, HelloAnswered, Reconnect,
      Reconnects, MayReconnect, vars, link, frame, traffic, gateway
<1>7. ASSUME NEW g \in Generations, PostTaken(g) PROVE RideInv'
  BY <1>7
  DEF PostTaken, vars, link, frame, traffic, gateway
<1>8. ASSUME NEW g \in Generations, PostFails(g) PROVE RideInv'
  BY <1>8
  DEF PostFails, LinkLost, FailAllInflight, Answer, HelloAnswered, Reconnect,
      Reconnects, MayReconnect, vars, link, frame, traffic, gateway
<1>9. ASSUME NEW g \in Generations, LinkEvent(g) PROVE RideInv'
  BY <1>9
  DEF LinkEvent, LinkLost, FailAllInflight, Answer, HelloAnswered, Reconnect,
      Reconnects, MayReconnect, vars, link, frame, traffic, gateway
<1>10. ASSUME NEW g \in Generations, Breaks(g) PROVE RideInv'
  BY <1>10
  DEF Breaks, vars, link, frame, traffic, gateway
<1>11. CASE OldClosed
  BY <1>11
  DEF OldClosed, vars, link, frame, traffic, gateway
<1>12. CASE Attempt
  BY <1>12
  DEF Attempt, vars, link, frame, traffic, gateway
<1>13. CASE Replayed
  BY <1>13
  DEF Replayed, vars, link, frame, traffic, gateway
<1>14. CASE Restored
  BY <1>14
  DEF Restored, Rearm, vars, link, frame, traffic, gateway
<1>15. CASE AttemptFails
  BY <1>15
  DEF AttemptFails, vars, link, frame, traffic, gateway
<1>16. CASE Retry
  BY <1>16
  DEF Retry, CloseAttempt, vars, link, frame, traffic, gateway
<1>17. CASE Shutdown
  BY <1>17
  DEF Shutdown, FailAllInflight, Answer, HelloAnswered, vars, link, frame, traffic,
      gateway
<1>18. CASE Exit
  BY <1>18
  DEF Exit, vars, link, frame, traffic, gateway
<1>19. CASE Crash
  BY <1>19
  DEF Crash, vars, link, frame, traffic, gateway
<1>20. CASE SupervisorEnds
  BY <1>20
  DEF SupervisorEnds, vars, link, frame, traffic, gateway
<1>21. CASE Respawn
  BY <1>21
  DEF Respawn, Recovered, vars, link, frame, traffic, gateway
<1>22. CASE UNCHANGED vars
  BY <1>22
  DEF vars, link, frame, traffic, gateway
<1>23. CASE Neighbour
  BY <1>23 DEF Neighbour, link, traffic, gateway
<1> QED BY <1>1, <1>2, <1>3, <1>4, <1>5, <1>6, <1>7, <1>8, <1>9, <1>10, <1>11, <1>12, <1>13,
      <1>14, <1>15, <1>16, <1>17, <1>18, <1>19, <1>20, <1>21, <1>22, <1>23 DEF Next, Rebuild

-----------------------------------------------------------------------------
(* Before the client has said hello nothing was sent for it.               *)

StartInv ==
  client = "start" => /\ reconnect = "none" /\ ~ready
                      /\ posts = {} /\ served = {} /\ events = {} /\ inflight = {}
                      /\ \A r \in Requests : at[r] = 0 /\ replies[r] = 0

LEMMA StartStep ==
  ASSUME TypeOK, StartInv, [Next]_vars
  PROVE  StartInv'
<1> USE DEF StartInv, TypeOK
<1>1. CASE SendHello
  BY <1>1
  DEF SendHello, KeepFrame, Forward, vars, link, frame, traffic, gateway
<1>2. CASE SendInitialized
  BY <1>2
  DEF SendInitialized, vars, link, frame, traffic, gateway
<1>3. CASE Heartbeat
  BY <1>3
  DEF Heartbeat, vars, link, frame, traffic, gateway
<1>4. ASSUME NEW r \in Requests, SendCall(r) PROVE StartInv'
  BY <1>4
  DEF SendCall, Forward, vars, link, frame, traffic, gateway
<1>5. ASSUME NEW r \in Requests, Reply(r) PROVE StartInv'
  BY <1>5
  DEF Reply, Answer, HelloAnswered, vars, link, frame, traffic, gateway
<1>6. ASSUME NEW r \in Requests, SendFails(r) PROVE StartInv'
  BY <1>6
  DEF SendFails, FailAllInflight, Answer, Unfailed, HelloAnswered, Reconnect,
      Reconnects, MayReconnect, vars, link, frame, traffic, gateway
<1>7. ASSUME NEW g \in Generations, PostTaken(g) PROVE StartInv'
  BY <1>7
  DEF PostTaken, vars, link, frame, traffic, gateway
<1>8. ASSUME NEW g \in Generations, PostFails(g) PROVE StartInv'
  BY <1>8
  DEF PostFails, LinkLost, FailAllInflight, Answer, HelloAnswered, Reconnect,
      Reconnects, MayReconnect, vars, link, frame, traffic, gateway
<1>9. ASSUME NEW g \in Generations, LinkEvent(g) PROVE StartInv'
  BY <1>9
  DEF LinkEvent, LinkLost, FailAllInflight, Answer, HelloAnswered, Reconnect,
      Reconnects, MayReconnect, vars, link, frame, traffic, gateway
<1>10. ASSUME NEW g \in Generations, Breaks(g) PROVE StartInv'
  BY <1>10
  DEF Breaks, vars, link, frame, traffic, gateway
<1>11. CASE OldClosed
  BY <1>11
  DEF OldClosed, vars, link, frame, traffic, gateway
<1>12. CASE Attempt
  BY <1>12
  DEF Attempt, vars, link, frame, traffic, gateway
<1>13. CASE Replayed
  BY <1>13
  DEF Replayed, vars, link, frame, traffic, gateway
<1>14. CASE Restored
  BY <1>14
  DEF Restored, Rearm, vars, link, frame, traffic, gateway
<1>15. CASE AttemptFails
  BY <1>15
  DEF AttemptFails, vars, link, frame, traffic, gateway
<1>16. CASE Retry
  BY <1>16
  DEF Retry, CloseAttempt, vars, link, frame, traffic, gateway
<1>17. CASE Shutdown
  BY <1>17
  DEF Shutdown, FailAllInflight, Answer, HelloAnswered, vars, link, frame, traffic,
      gateway
<1>18. CASE Exit
  BY <1>18
  DEF Exit, vars, link, frame, traffic, gateway
<1>19. CASE Crash
  BY <1>19
  DEF Crash, vars, link, frame, traffic, gateway
<1>20. CASE SupervisorEnds
  BY <1>20
  DEF SupervisorEnds, vars, link, frame, traffic, gateway
<1>21. CASE Respawn
  BY <1>21
  DEF Respawn, Recovered, vars, link, frame, traffic, gateway
<1>22. CASE UNCHANGED vars
  BY <1>22
  DEF vars, link, frame, traffic, gateway
<1>23. CASE Neighbour
  BY <1>23 DEF Neighbour, link, traffic, gateway
<1> QED BY <1>1, <1>2, <1>3, <1>4, <1>5, <1>6, <1>7, <1>8, <1>9, <1>10, <1>11, <1>12, <1>13,
      <1>14, <1>15, <1>16, <1>17, <1>18, <1>19, <1>20, <1>21, <1>22, <1>23 DEF Next, Rebuild

-----------------------------------------------------------------------------
(* The frame of another session is known only until the client says hello, *)
(* to the process and on disk, where the successor of a process that died  *)
(* starts from it - unless the file went astray.                           *)

FrameInv == initFrame = "old" \/ initFile = "old" => client = "start" \/ astray

LEMMA FrameStep ==
  ASSUME TypeOK, FrameInv, [Next]_vars
  PROVE  FrameInv'
<1> USE DEF FrameInv, link, frame, traffic, gateway
<1>1. CASE SendHello
  BY <1>1 DEF SendHello, KeepFrame, FileFails
<1>2. CASE Shutdown
  <2>1. initFile' \in {initFile, "none"}  BY <1>2 DEF Shutdown, FileFails
  <2>2. client' = client \/ client # "start"  BY <1>2 DEF Shutdown, HelloAnswered
  <2> QED BY <1>2, <2>1, <2>2 DEF Shutdown
<1>3. CASE Crash
  BY <1>3 DEF Crash
<1>4. CASE Respawn
  BY <1>4 DEF Respawn, Recovered
<1>5. CASE Neighbour
  BY <1>5 DEF Neighbour
<1>6. CASE SupervisorEnds \/ Exit
  BY <1>6 DEF SupervisorEnds, Exit
<1>7. ASSUME UNCHANGED <<initFrame, initFile, astray>>, client = "start" => client' = client
      PROVE  FrameInv'
  BY <1>7
<1>8. ASSUME NEW r \in Requests, SendCall(r) \/ Reply(r) \/ SendFails(r) PROVE FrameInv'
  BY <1>7, <1>8 DEF SendCall, Reply, SendFails, HelloAnswered
<1>9. ASSUME NEW g \in Generations, PostTaken(g) \/ PostFails(g) \/ LinkEvent(g) \/ Breaks(g)
      PROVE  FrameInv'
  BY <1>7, <1>9 DEF PostTaken, PostFails, LinkEvent, LinkLost, HelloAnswered, Breaks
<1>10. CASE SendInitialized \/ Heartbeat \/ UNCHANGED vars
  BY <1>7, <1>10 DEF SendInitialized, Heartbeat, vars
<1>11. CASE Rebuild
  BY <1>7, <1>11 DEF Rebuild, OldClosed, Attempt, Replayed, Restored, AttemptFails, Retry
<1> QED BY <1>1, <1>2, <1>3, <1>4, <1>5, <1>6, <1>8, <1>9, <1>10, <1>11 DEF Next

-----------------------------------------------------------------------------
(* A request that is in flight has had no reply, and an answer that can    *)
(* still be passed on is one to a request in flight - but for those that   *)
(* were failed while their link is not closed yet.                         *)

ReplyInv ==
  /\ \A r \in inflight : replies[r] = 0
  /\ reconnect # "closing"
       => \A r \in Requests : at[r] = generation /\ at[r] \in open => r \in inflight

LEMMA ReplyStep ==
  ASSUME TypeOK, GenInv, LinkInv, RideInv, StartInv, ReplyInv, [Next]_vars
  PROVE  ReplyInv'
<1> USE DEF ReplyInv, TypeOK, GenInv
<1>1. CASE SendHello
  <2>1. Hello \in Requests /\ replies[Hello] = 0 /\ reconnect = "none"
    BY <1>1 DEF SendHello, StartInv, Requests
  <2> QED BY <1>1, <2>1 DEF SendHello, Forward, link
<1>2. CASE SendInitialized
  BY <1>2
  DEF SendInitialized, vars, link, frame, traffic, gateway
<1>3. CASE Heartbeat
  BY <1>3
  DEF Heartbeat, vars, link, frame, traffic, gateway
<1>4. ASSUME NEW r \in Requests, SendCall(r) PROVE ReplyInv'
  <2>1. CASE reconnect # "none"
    <3>1. inflight = {} /\ inflight' = inflight /\ at' = at /\ open' = open
      BY <1>4, <2>1 DEF SendCall, Forward, RideInv, link
    <3> QED BY <1>4, <3>1 DEF SendCall, link
  <2>2. CASE reconnect = "none"
    BY <1>4, <2>2 DEF SendCall, Forward, link
  <2> QED BY <2>1, <2>2
<1>5. ASSUME NEW r \in Requests, Reply(r) PROVE ReplyInv'
  BY <1>5
  DEF Reply, Answer, HelloAnswered, vars, link, frame, traffic, gateway
<1>6. ASSUME NEW r \in Requests, SendFails(r) PROVE ReplyInv'
  BY <1>6
  DEF SendFails, FailAllInflight, Answer, Unfailed, HelloAnswered, Reconnect,
      Reconnects, MayReconnect, vars, link, frame, traffic, gateway
<1>7. ASSUME NEW g \in Generations, PostTaken(g) PROVE ReplyInv'
  BY <1>7
  DEF PostTaken, vars, link, frame, traffic, gateway
<1>8. ASSUME NEW g \in Generations, PostFails(g) PROVE ReplyInv'
  BY <1>8
  DEF PostFails, LinkLost, FailAllInflight, Answer, HelloAnswered, Reconnect,
      Reconnects, MayReconnect, vars, link, frame, traffic, gateway
<1>9. ASSUME NEW g \in Generations, LinkEvent(g) PROVE ReplyInv'
  BY <1>9
  DEF LinkEvent, LinkLost, FailAllInflight, Answer, HelloAnswered, Reconnect,
      Reconnects, MayReconnect, vars, link, frame, traffic, gateway
<1>10. ASSUME NEW g \in Generations, Breaks(g) PROVE ReplyInv'
  BY <1>10
  DEF Breaks, vars, link, frame, traffic, gateway
<1>11. CASE OldClosed
  BY <1>11 DEF OldClosed, LinkInv, traffic
<1>12. CASE Attempt
  BY <1>12
  DEF Attempt, vars, link, frame, traffic, gateway
<1>13. CASE Replayed
  BY <1>13
  DEF Replayed, vars, link, frame, traffic, gateway
<1>14. CASE Restored
  BY <1>14
  DEF Restored, Rearm, vars, link, frame, traffic, gateway
<1>15. CASE AttemptFails
  BY <1>15
  DEF AttemptFails, vars, link, frame, traffic, gateway
<1>16. CASE Retry
  BY <1>16
  DEF Retry, CloseAttempt, vars, link, frame, traffic, gateway
<1>17. CASE Shutdown
  BY <1>17 DEF Shutdown, LinkInv, RideInv, FailAllInflight, Answer
<1>18. CASE Exit
  BY <1>18
  DEF Exit, vars, link, frame, traffic, gateway
<1>19. CASE Crash
  BY <1>19
  DEF Crash, vars, link, frame, traffic, gateway
<1>20. CASE SupervisorEnds
  BY <1>20
  DEF SupervisorEnds, vars, link, frame, traffic, gateway
<1>21. CASE Respawn
  BY <1>21
  DEF Respawn, Recovered, vars, link, frame, traffic, gateway
<1>22. CASE UNCHANGED vars
  BY <1>22
  DEF vars, link, frame, traffic, gateway
<1>23. CASE Neighbour
  BY <1>23 DEF Neighbour, link, traffic, gateway
<1> QED BY <1>1, <1>2, <1>3, <1>4, <1>5, <1>6, <1>7, <1>8, <1>9, <1>10, <1>11, <1>12, <1>13,
      <1>14, <1>15, <1>16, <1>17, <1>18, <1>19, <1>20, <1>21, <1>22, <1>23 DEF Next, Rebuild

-----------------------------------------------------------------------------
(* What a step answers was in flight, or its link is being closed.         *)

LateReply ==
  \A r \in Requests : replies'[r] > replies[r] /\ replies[r] > 0 => reconnect = "closing"

LEMMA LateStep ==
  ASSUME TypeOK, GenInv, StartInv, RideInv, ReplyInv, [Next]_vars
  PROVE  LateReply
<1> USE DEF LateReply, TypeOK
<1>1. CASE SendHello
  <2>1. Hello \in Requests /\ replies[Hello] = 0 /\ reconnect = "none"
    BY <1>1 DEF SendHello, StartInv, Requests
  <2> QED BY <1>1, <2>1 DEF SendHello, Forward
<1>2. CASE SendInitialized
  BY <1>2
  DEF SendInitialized, vars, link, frame, traffic, gateway
<1>3. CASE Heartbeat
  BY <1>3
  DEF Heartbeat, vars, link, frame, traffic, gateway
<1>4. ASSUME NEW r \in Requests, SendCall(r) PROVE LateReply
  BY <1>4
  DEF SendCall, Forward, vars, link, frame, traffic, gateway
<1>5. ASSUME NEW r \in Requests, Reply(r) PROVE LateReply
  <2>1. /\ at[r] \in open
        /\ replies' = replies \/ (at[r] = generation /\ Answer({r}))
    BY <1>5 DEF Reply
  <2> QED BY <2>1 DEF Answer, ReplyInv
<1>6. ASSUME NEW r \in Requests, SendFails(r) PROVE LateReply
  <2>1. replies' = replies \/ \E R \in SUBSET inflight : Answer(R)
    BY <1>6 DEF SendFails, FailAllInflight, Unfailed
  <2> QED BY <2>1 DEF Answer, ReplyInv
<1>7. ASSUME NEW g \in Generations, PostTaken(g) PROVE LateReply
  BY <1>7
  DEF PostTaken, vars, link, frame, traffic, gateway
<1>8. ASSUME NEW g \in Generations, PostFails(g) PROVE LateReply
  <2>1. replies' = replies \/ Answer(inflight)
    BY <1>8 DEF PostFails, LinkLost, FailAllInflight
  <2> QED BY <2>1 DEF Answer, ReplyInv
<1>9. ASSUME NEW g \in Generations, LinkEvent(g) PROVE LateReply
  <2>1. replies' = replies \/ Answer(inflight)
    BY <1>9 DEF LinkEvent, LinkLost, FailAllInflight
  <2> QED BY <2>1 DEF Answer, ReplyInv
<1>10. ASSUME NEW g \in Generations, Breaks(g) PROVE LateReply
  BY <1>10
  DEF Breaks, vars, link, frame, traffic, gateway
<1>11. CASE OldClosed
  BY <1>11
  DEF OldClosed, vars, link, frame, traffic, gateway
<1>12. CASE Attempt
  BY <1>12
  DEF Attempt, vars, link, frame, traffic, gateway
<1>13. CASE Replayed
  BY <1>13
  DEF Replayed, vars, link, frame, traffic, gateway
<1>14. CASE Restored
  BY <1>14
  DEF Restored, Rearm, vars, link, frame, traffic, gateway
<1>15. CASE AttemptFails
  BY <1>15
  DEF AttemptFails, vars, link, frame, traffic, gateway
<1>16. CASE Retry
  BY <1>16
  DEF Retry, CloseAttempt, vars, link, frame, traffic, gateway
<1>17. CASE Shutdown
  BY <1>17 DEF Shutdown, FailAllInflight, Answer, ReplyInv
<1>18. CASE Exit
  BY <1>18
  DEF Exit, vars, link, frame, traffic, gateway
<1>19. CASE Crash
  BY <1>19
  DEF Crash, vars, link, frame, traffic, gateway
<1>20. CASE SupervisorEnds
  BY <1>20
  DEF SupervisorEnds, vars, link, frame, traffic, gateway
<1>21. CASE Respawn
  BY <1>21
  DEF Respawn, Recovered, vars, link, frame, traffic, gateway
<1>22. CASE UNCHANGED vars
  BY <1>22
  DEF vars, link, frame, traffic, gateway
<1>23. CASE Neighbour
  BY <1>23 DEF Neighbour, link, traffic, gateway
<1> QED BY <1>1, <1>2, <1>3, <1>4, <1>5, <1>6, <1>7, <1>8, <1>9, <1>10, <1>11, <1>12, <1>13,
      <1>14, <1>15, <1>16, <1>17, <1>18, <1>19, <1>20, <1>21, <1>22, <1>23 DEF Next, Rebuild

-----------------------------------------------------------------------------

IInv == TypeOK /\ GenInv /\ LinkInv /\ RideInv /\ StartInv /\ ReplyInv

LEMMA IInvInit == Init => IInv
<1> SUFFICES ASSUME Init PROVE IInv
  OBVIOUS
<1>1. TypeOK /\ GenInv
  <2>1. 0 \in 0..generation /\ 0 \in 0..MaxFaults /\ 0 \in 0..MaxCrashes /\ 1 \in 1..generation
    BY ClientAssumption DEF Init
  <2>2. /\ at \in [Requests -> 0..generation] /\ replies \in [Requests -> Nat]
    BY <2>1 DEF Init
  <2>3. \A G \in {posts, open, sound, served} : G \subseteq 1..generation
    BY <2>1 DEF Init
  <2>4. /\ proc = "up" /\ generation \in Nat \ {0} /\ http \in Nat /\ ready = FALSE
        /\ client = "start" /\ inflight \subseteq Requests /\ lost \subseteq Requests
        /\ reconnect = "none" /\ events \subseteq open /\ astray = FALSE /\ faults = 0 /\ crashes = 0
    BY DEF Init
  <2>5. initFrame \in {"none", "own", "old"} /\ initFile \in {"none", "own", "old", "off"}
    BY DEF Init, Recovered
  <2> QED BY <2>1, <2>2, <2>3, <2>4, <2>5 DEF TypeOK, GenInv
<1>2. LinkInv /\ RideInv /\ StartInv /\ ReplyInv
  BY DEF Init, LinkInv, RideInv, StartInv, ReplyInv, Running
<1> QED BY <1>1, <1>2 DEF IInv

LEMMA Invariance == Spec => []IInv
<1>1. IInv /\ [Next]_vars => IInv'
  BY TypeStep, LinkStep, RideStep, StartStep, ReplyStep DEF IInv
<1> QED BY <1>1, IInvInit, PTL DEF Spec

(* The bridge's state keeps its shape: nothing is sent over a generation   *)
(* that was not handed out, and no event is heard from a transport that    *)
(* was closed (bridge.mjs makeHttp, scheduleReconnect).                    *)
THEOREM ClientBridgeTypes == Spec => []TypeOK
<1>1. IInv => TypeOK
  BY DEF IInv
<1> QED BY <1>1, Invariance, PTL

(* However many triggers and attempts a rebuild takes (scheduleReconnect), *)
(* it ends with one open transport, and all that is in flight rides on it. *)
THEOREM OneLink == Spec => []OnOneLink
<1>1. IInv => OnOneLink
  BY DEF IInv, OnOneLink, LinkInv, RideInv, Running
<1> QED BY <1>1, Invariance, PTL

(* What is replayed to the gateway is never the initialize of an earlier   *)
(* session that was left on disk (bridge.mjs initPath), however often the  *)
(* process dies and starts from that file - but where the client's own     *)
(* frame could not be written to it, or another bridge wrote there.        *)
THEOREM ReplaysItsOwn == Spec => []OwnFrame
<1>1. Init => FrameInv
  BY DEF Init, FrameInv
<1>2. IInv /\ FrameInv /\ [Next]_vars => FrameInv'
  BY FrameStep DEF IInv
<1>3. IInv /\ FrameInv => OwnFrame
  BY DEF IInv, StartInv, FrameInv, OwnFrame
<1> QED BY <1>1, <1>2, <1>3, Invariance, PTL DEF Spec

(* A request that was answered, or failed by failAllInflight, is answered  *)
(* again only while its old transport is being closed: no answer passes    *)
(* the generation check of makeHttp after that, and a failed send does not *)
(* fail again what a reconnect has failed.                                 *)
THEOREM LateRepliesEnd == Spec => LateReplyOnlyWhileClosing
<1>1. IInv /\ [Next]_vars => [LateReply]_vars
  BY LateStep DEF IInv
<1> QED BY <1>1, Invariance, PTL DEF Spec, LateReplyOnlyWhileClosing, LateReply
=============================================================================
